------------------------- MODULE SecretStore_proof --------------------------
(***************************************************************************)
(* Proofs about SecretStore, for every set of commands, sidecars, keys and *)
(* hosts, and every interleaving.                                          *)
(***************************************************************************)
EXTENDS SecretStore, FiniteSetTheorems, TLAPS

-----------------------------------------------------------------------------
(* Types.                                                                  *)

Pcs == {"idle", "done", "list", "look", "read", "key", "create", "fill", "open", "rewrite",
        "prompt", "write"}
Fors == {"none", "list", "look", "read", "write"}
Act == [pc : Pcs, for : Fors, todo : Seq(Keys), payload : File, copy : Data, key : MasterKeys]

TypeInv ==
  /\ file \in File /\ keyfile \in MasterKeys \ {Bare} /\ want \in Data
  /\ act \in [Commands -> Act]

LEMMA EmptyType ==
  /\ Empty \in Data /\ NoFile \in File
  /\ NoFile.data = Empty /\ NoFile.form = "none" /\ NoFile.by = NoKey
BY DEF Empty, Data, NoFile, File, MasterKeys

\* A step of c leaves what the others are at.
LEMMA OthersStay ==
  ASSUME TypeInv, NEW c \in Commands, NEW r \in Act, Becomes(c, r)
  PROVE  /\ act' \in [Commands -> Act] /\ act'[c] = r
         /\ \A e \in Commands \ {c} : act'[e] = act[e]
BY DEF TypeInv, Becomes

\* What is listed is a sequence of keys.
LEMMA ListedType ==
  ASSUME NEW c, NEW data PROVE Listed(c, data) \in Seq(Keys)
<1> DEFINE S == {k \in Keys :
                   /\ data[k] # NoValue
                   /\ IF Kind[c] = "clear" THEN Prefix[k] = Sidecar[c]
                      ELSE \A s \in Known : k \notin Range(Required[s])}
<1>1. IsFiniteSet(S)
  BY SecretsAssumption, FS_Subset
<1>2. Cardinality(S) \in Nat /\ ExistsBijection(1..Cardinality(S), S)
  BY <1>1, FS_CardinalityType
<1>3. PICK f \in [1..Cardinality(S) -> S] : IsInjective(f)
  <2>1. PICK f \in Bijection(1..Cardinality(S), S) : TRUE
    BY <1>2 DEF ExistsBijection
  <2>2. f \in [1..Cardinality(S) -> S]
    BY <2>1 DEF Bijection, Injection
  <2> QED
    BY <2>1, <2>2 DEF Bijection, Injection, IsInjective
<1>4. SetToSeq(S) \in [1..Cardinality(S) -> S]
  BY <1>3 DEF SetToSeq
<1>5. SetToSeq(S) \in [1..Cardinality(S) -> Keys]
  BY <1>4
<1>6. SetToSeq(S) \in Seq(Keys)
  BY <1>2, <1>5
<1> QED
  BY <1>6 DEF Listed

\* What is left to do leads on to the next key, or to the end.
LEMMA GoingIs ==
  ASSUME TypeInv, NEW c \in Commands, NEW left \in Seq(Keys), NEW data \in Data
  PROVE  /\ Going(c, left, data) \in Act
         /\ Going(c, left, data).todo = left /\ Going(c, left, data).copy = data
         /\ Going(c, left, data).payload = NoFile /\ Going(c, left, data).for = "none"
         /\ Going(c, left, data).key = act[c].key
         /\ Going(c, left, data).pc \in {"done", "prompt", "look", "read"}
         /\ Going(c, left, data).pc # "done" => left # <<>>
         /\ Going(c, left, data).pc = "prompt" => Kind[c] = "set"
         /\ Going(c, left, data).pc = "look" => Kind[c] = "run"
<1> DEFINE p == CASE left = <<>> \/ Kind[c] = "check" -> "done"
                  [] left # <<>> /\ Kind[c] = "set" -> "prompt"
                  [] left # <<>> /\ Kind[c] = "run" -> "look"
                  [] OTHER -> "read"
<1>1. /\ p \in {"done", "prompt", "look", "read"} /\ (p # "done" => left # <<>>)
      /\ (p = "prompt" => Kind[c] = "set") /\ (p = "look" => Kind[c] = "run")
  OBVIOUS
<1>2. Going(c, left, data) = [act[c] EXCEPT !.todo = left, !.copy = data, !.payload = NoFile,
                                            !.for = "none", !.pc = p]
  BY DEF Going
<1> HIDE DEF p
<1>3. act[c] \in Act /\ p \in Pcs /\ "none" \in Fors /\ NoFile \in File
  BY <1>1, EmptyType DEF TypeInv, Pcs, Fors
<1> QED
  BY <1>1, <1>2, <1>3 DEF Act

\* One key less to do.
LEMMA TailType ==
  ASSUME NEW s \in Seq(Keys), s # <<>> PROVE Tail(s) \in Seq(Keys)
OBVIOUS

-----------------------------------------------------------------------------
(* The invariant.                                                          *)

\* c is to encrypt what it has in hand.
Writing(c) ==
  \/ act[c].pc \in {"rewrite", "write"} \/ (act[c].pc = "prompt" /\ Kind[c] = "run")
  \/ act[c].pc \in {"key", "create", "fill"} /\ act[c].for = "write"

\* Who asks for a secret writes; the others write only what they have found.
Asks(c) == Kind[c] \in {"set", "run"}

\* c has read what it is to make that of.
Reading(c) ==
  /\ act[c].pc \in {"key", "create", "fill", "open"} /\ act[c].for # "write"
  /\ act[c].for # "list" \/ act[c].payload.form = "legacy"

\* What a command is at fits what it does, and what it has read.
RunOK(c) ==
  /\ act[c].pc = "look" \/ act[c].for = "look" => Kind[c] = "run"
  /\ act[c].pc = "prompt" => Kind[c] \in {"set", "run"}
  /\ act[c].pc \in {"list", "look", "read", "prompt", "idle", "open"} => act[c].for # "write"
  /\ act[c].pc = "rewrite" => act[c].key # NoKey
  /\ act[c].pc = "write" /\ act[c].key = NoKey => Asks(c)
  /\ act[c].pc \in {"key", "create", "fill"} /\ act[c].for = "write" => Asks(c)
  /\ act[c].pc = "open" /\ act[c].payload.form # "none" => act[c].key # NoKey
  /\ act[c].payload.form # "none" => act[c].payload.by # NoKey
  /\ act[c].payload.form = "none" => act[c].payload = NoFile
  /\ act[c].pc \in {"look", "read", "prompt", "write"} => act[c].todo # <<>>
  /\ act[c].pc \in {"key", "create", "fill", "open", "rewrite"} /\ act[c].for # "list"
       => act[c].todo # <<>>

FormInv == IF file.form = "none" THEN file = NoFile ELSE file.by # NoKey

\* No overlap: what is there, or on its way there, was entered last or is missing.
PartOf(data) == \A k \in Keys : data[k] \in {want[k], NoValue}
PartOK(c) == /\ Writing(c) => PartOf(act[c].copy)
             /\ Reading(c) => PartOf(act[c].payload.data)

\* Nor a lost keyfile, nor anybody who asks while blind: it is all there, and
\* everybody has the key it needs, or has read nothing and will write nothing.
WholeOK(c) ==
  /\ act[c].key \in {NoKey, keyfile} \/ (act[c].key = Bare /\ ~ Asks(c))
  /\ act[c].pc = "fill" => keyfile = Unfilled
  /\ Writing(c) => act[c].copy = want /\ act[c].key # Bare
  /\ Reading(c) => act[c].payload = file \/ (act[c].payload = NoFile /\ ~ Asks(c))
OneFills == \A c, d \in Commands : act[c].pc = "fill" /\ act[d].pc = "fill" => c = d
Overlap == "overlap" \in slips
Sound == slips \cap {"overlap", "lostkey", "blind"} = {}

PartInv == ~ Overlap => PartOf(file.data) /\ \A c \in Commands : PartOK(c)
WholeInv ==
  Sound => /\ file.data = want /\ (file.form = "none" \/ file.by = keyfile)
           /\ OneFills /\ \A c \in Commands : WholeOK(c)
StoreInv == FormInv /\ PartInv /\ WholeInv /\ \A c \in Commands : RunOK(c)

LEMMA SoundIs ==
  Sound <=> "overlap" \notin slips /\ "lostkey" \notin slips /\ "blind" \notin slips
BY DEF Sound

\* What a read makes of what it finds is copied as it is, or not at all.
LEMMA WithIs ==
  ASSUME TypeInv, NEW c \in Commands, RunOK(c), NEW data \in Data,
         act[c].for # "list" => act[c].todo # <<>>
  PROVE  /\ With(c, data) \in Act /\ With(c, data).payload = NoFile
         /\ With(c, data).for = "none" /\ With(c, data).key = act[c].key
         /\ With(c, data).pc \in {"done", "prompt", "look", "read", "write"}
         /\ With(c, data).pc # "done" => With(c, data).todo # <<>>
         /\ With(c, data).pc = "prompt" => Kind[c] \in {"set", "run"}
         /\ With(c, data).pc = "look" => Kind[c] = "run"
         /\ \/ With(c, data).pc = "write" \/ (With(c, data).pc = "prompt" /\ Kind[c] = "run")
            => act[c].for # "list" /\ With(c, data).copy = data
         /\ With(c, data).pc = "write" => Asks(c) \/ data # Empty
<1> DEFINE there == act[c].todo # <<>> /\ data[This(c)] # NoValue
           at(l) == [Going(c, act[c].todo, data) EXCEPT !.pc = l]
           fit(r) == /\ r \in Act /\ r.payload = NoFile /\ r.for = "none" /\ r.key = act[c].key
                     /\ r.pc \in {"done", "prompt", "look", "read", "write"}
                     /\ r.pc # "done" => r.todo # <<>>
                     /\ r.pc = "prompt" => Kind[c] \in {"set", "run"}
                     /\ r.pc = "look" => Kind[c] = "run"
                     /\ \/ r.pc = "write" \/ (r.pc = "prompt" /\ Kind[c] = "run")
                        => act[c].for # "list" /\ r.copy = data
                     /\ r.pc = "write" => Asks(c) \/ data # Empty
<1>t. act[c].todo \in Seq(Keys) /\ Empty \in Data
  BY EmptyType DEF TypeInv, Act
<1>g. ASSUME NEW left \in Seq(Keys), NEW d \in Data PROVE fit(Going(c, left, d))
  BY <1>g, GoingIs
<1>a. ASSUME act[c].for # "list", NEW l \in {"write", "prompt"}, l = "prompt" => Kind[c] = "run",
             l = "write" => Asks(c) \/ data # Empty
      PROVE  fit(at(l))
  <2> DEFINE r == Going(c, act[c].todo, data)
  <2>1. /\ r \in Act /\ r.todo = act[c].todo /\ r.copy = data /\ r.payload = NoFile
        /\ r.for = "none" /\ r.key = act[c].key
    BY <1>t, GoingIs
  <2>2. l \in Pcs
    BY DEF Pcs
  <2> HIDE DEF r
  <2>3. /\ at(l) \in Act /\ at(l).pc = l /\ at(l).todo = r.todo /\ at(l).copy = r.copy
        /\ at(l).payload = r.payload /\ at(l).for = r.for /\ at(l).key = r.key
    BY <2>1, <2>2 DEF Act, r
  <2> QED
    BY <1>a, <2>1, <2>3
<1>1. CASE act[c].for = "list"
  <2>1. With(c, data) = Going(c, Listed(c, data), Empty)
    BY <1>1 DEF With
  <2> HIDE DEF fit
  <2>2. fit(With(c, data))
    BY <1>t, <1>g, <2>1, ListedType
  <2> QED
    BY <2>2 DEF fit
<1>2. CASE act[c].for # "list"
  <2>1. Tail(act[c].todo) \in Seq(Keys)
    BY <1>2, <1>t, TailType
  <2>e. there => data # Empty
    <3>1. act[c].todo # <<>> => This(c) \in Keys
      BY <1>t DEF This
    <3> QED
      BY <3>1 DEF Empty
  <2>2. \/ With(c, data) = Going(c, Tail(act[c].todo), Empty)
        \/ (there \/ Kind[c] = "set") /\ With(c, data) = at("write")
        \/ act[c].for = "look" /\ With(c, data) = at("prompt")
    BY <1>2 DEF With
  <2>3. act[c].for = "look" => Kind[c] = "run"
    BY DEF RunOK
  <2>f. there \/ Kind[c] = "set" => Asks(c) \/ data # Empty
    BY <2>e DEF Asks
  <2> HIDE DEF fit, at, there
  <2>4. fit(With(c, data))
    BY <1>2, <1>t, <1>g, <1>a, <2>1, <2>2, <2>3, <2>f
  <2> QED
    BY <2>4 DEF fit
<1> QED
  BY <1>1, <1>2

-----------------------------------------------------------------------------
(* Steps that leave the store as it is.                                    *)

\* A step of c that replaces nothing keeps the invariant if it keeps what is
\* said of c.
LEMMA Quiet ==
  ASSUME TypeInv, StoreInv, NEW c \in Commands, NEW r \in Act, Becomes(c, r),
         UNCHANGED <<file, keyfile, want>>, slips \subseteq slips',
         RunOK(c)', ~ Overlap' => PartOK(c)', Sound' => WholeOK(c)',
         r.pc = "fill" => act[c].pc = "fill"
  PROVE  TypeInv' /\ StoreInv'
<1>1. /\ act' \in [Commands -> Act] /\ act'[c] = r
      /\ \A e \in Commands \ {c} : act'[e] = act[e]
  BY OthersStay
<1>2. TypeInv'
  BY <1>1 DEF TypeInv
<1>3. FormInv'
  BY DEF StoreInv, FormInv
<1>4. (~ Overlap' => ~ Overlap) /\ (Sound' => Sound)
  BY DEF Overlap, Sound
<1>5. ASSUME NEW e \in Commands \ {c}
      PROVE RunOK(e)' /\ (PartOK(e) => PartOK(e)') /\ (WholeOK(e) => WholeOK(e)')
  <2>1. act'[e] = act[e]
    BY <1>1
  <2>2. RunOK(e)'
    BY <2>1 DEF RunOK, StoreInv
  <2>3. PartOK(e) => PartOK(e)'
    BY <2>1 DEF PartOK, PartOf, Writing, Reading
  <2>4. WholeOK(e) => WholeOK(e)'
    BY <2>1 DEF WholeOK, Writing, Reading
  <2> QED
    BY <2>2, <2>3, <2>4
<1>6. PartInv'
  <2> SUFFICES ASSUME ~ Overlap' PROVE PartOf(file.data)' /\ \A e \in Commands : PartOK(e)'
    BY DEF PartInv
  <2>1. PartOf(file.data) /\ \A e \in Commands : PartOK(e)
    BY <1>4 DEF StoreInv, PartInv
  <2>2. PartOf(file.data)'
    BY <2>1 DEF PartOf
  <2> QED
    BY <2>1, <2>2, <1>5
<1>7. WholeInv'
  <2> SUFFICES ASSUME Sound'
               PROVE  /\ file'.data = want' /\ (file'.form = "none" \/ file'.by = keyfile')
                      /\ OneFills' /\ \A e \in Commands : WholeOK(e)'
    BY DEF WholeInv
  <2>1. /\ file.data = want /\ (file.form = "none" \/ file.by = keyfile)
        /\ OneFills /\ \A e \in Commands : WholeOK(e)
    BY <1>4 DEF StoreInv, WholeInv
  <2>2. \A e \in Commands : act'[e].pc = "fill" => act[e].pc = "fill"
    BY <1>1
  <2>3. OneFills'
    BY <2>1, <2>2 DEF OneFills
  <2> QED
    BY <2>1, <2>3, <1>5
<1> QED
  BY <1>2, <1>3, <1>5, <1>6, <1>7 DEF StoreInv

\* c goes where it neither writes nor has read anything it is to write.
LEMMA AtRest ==
  ASSUME TypeInv, StoreInv, NEW c \in Commands, NEW r \in Act, Becomes(c, r),
         UNCHANGED <<file, keyfile, want>>, slips \subseteq slips',
         r.pc \in {"done", "list", "look", "read", "prompt"}, r.key = act[c].key,
         r.payload = act[c].payload \/ r.payload = NoFile, RunOK(c)', ~ Writing(c)'
  PROVE  TypeInv' /\ StoreInv'
<1>1. act'[c] = r
  BY OthersStay
<1>2. ~ Reading(c)' /\ r.pc # "fill"
  BY <1>1 DEF Reading
<1>3. PartOK(c)'
  BY <1>2 DEF PartOK
<1>4. Sound' => WholeOK(c)'
  <2> SUFFICES ASSUME Sound' PROVE WholeOK(c)'
    OBVIOUS
  <2>1. WholeOK(c)
    BY DEF StoreInv, WholeInv, Sound
  <2> QED
    BY <1>1, <1>2, <2>1 DEF WholeOK
<1> QED
  BY <1>2, <1>3, <1>4, Quiet

\* An EXCEPT of what c is at.
LEMMA PcSet ==
  ASSUME TypeInv, NEW c \in Commands, NEW l \in Pcs
  PROVE  /\ [act[c] EXCEPT !.pc = l] \in Act
         /\ [act[c] EXCEPT !.pc = l].pc = l
         /\ [act[c] EXCEPT !.pc = l].for = act[c].for
         /\ [act[c] EXCEPT !.pc = l].todo = act[c].todo
         /\ [act[c] EXCEPT !.pc = l].payload = act[c].payload
         /\ [act[c] EXCEPT !.pc = l].copy = act[c].copy
         /\ [act[c] EXCEPT !.pc = l].key = act[c].key
<1>1. act[c] \in Act
  BY DEF TypeInv
<1> QED
  BY <1>1 DEF Act

LEMMA StartKeeps ==
  ASSUME TypeInv, StoreInv, NEW c \in Commands, Start(c) PROVE TypeInv' /\ StoreInv'
<1>r. RunOK(c)
  BY DEF StoreInv
<1>1. CASE Kind[c] \in {"set", "run"}
  <2> DEFINE r == Going(c, Required[Sidecar[c]], Empty)
  <2>1. Required[Sidecar[c]] \in Seq(Keys) /\ Empty \in Data
    BY <1>1, SecretsAssumption, EmptyType
  <2>2. /\ r \in Act /\ r.payload = NoFile /\ r.for = "none" /\ r.key = act[c].key
        /\ r.pc \in {"done", "prompt", "look", "read"} /\ (r.pc # "done" => r.todo # <<>>)
        /\ (r.pc = "prompt" => Kind[c] = "set") /\ (r.pc = "look" => Kind[c] = "run")
    BY <2>1, GoingIs
  <2>3. Becomes(c, r) /\ UNCHANGED <<file, keyfile, want, slips>>
    BY <1>1 DEF Start
  <2> HIDE DEF r
  <2>4. act'[c] = r
    BY <2>2, <2>3, OthersStay
  <2>5. RunOK(c)' /\ ~ Writing(c)'
    BY <2>2, <2>4, EmptyType DEF RunOK, Writing
  <2> QED
    BY <2>2, <2>3, <2>5, AtRest
<1>2. CASE Kind[c] \notin {"set", "run"}
  <2> DEFINE r == [act[c] EXCEPT !.pc = "list"]
  <2>1. /\ r \in Act /\ r.pc = "list" /\ r.for = act[c].for /\ r.todo = act[c].todo
        /\ r.payload = act[c].payload /\ r.key = act[c].key
    BY PcSet DEF Pcs
  <2>2. Becomes(c, r) /\ UNCHANGED <<file, keyfile, want, slips>> /\ act[c].pc = "idle"
    BY <1>2 DEF Start, Goto
  <2> HIDE DEF r
  <2>3. act'[c] = r
    BY <2>1, <2>2, OthersStay
  <2>4. RunOK(c)' /\ ~ Writing(c)'
    BY <1>r, <2>1, <2>2, <2>3 DEF RunOK, Writing
  <2> QED
    BY <2>1, <2>2, <2>4, AtRest
<1> QED
  BY <1>1, <1>2

LEMMA EnterKeeps ==
  ASSUME TypeInv, StoreInv, NEW c \in Commands, Enter(c) PROVE TypeInv' /\ StoreInv'
<1> DEFINE l == IF Kind[c] = "set" THEN "read" ELSE "write"
           r == [act[c] EXCEPT !.pc = l]
<1>r. RunOK(c) /\ act[c].pc = "prompt"
  BY DEF StoreInv, Enter
<1>1. /\ r \in Act /\ r.pc = l /\ r.for = act[c].for /\ r.todo = act[c].todo
      /\ r.payload = act[c].payload /\ r.copy = act[c].copy /\ r.key = act[c].key
  <2>1. l \in Pcs
    BY DEF Pcs
  <2> HIDE DEF l
  <2> QED
    BY <2>1, PcSet
<1>2. Becomes(c, r) /\ UNCHANGED <<file, keyfile, want, slips>>
  BY DEF Enter, Goto
<1> HIDE DEF r
<1>3. act'[c] = r
  BY <1>1, <1>2, OthersStay
<1>4. RunOK(c)'
  BY <1>r, <1>1, <1>3 DEF RunOK, Asks
<1>5. (Writing(c)' => Writing(c)) /\ ~ Reading(c)'
  BY <1>r, <1>1, <1>3 DEF RunOK, Writing, Reading
<1>6. ~ Overlap' => PartOK(c)'
  BY <1>1, <1>2, <1>3, <1>5 DEF StoreInv, PartInv, PartOK, PartOf, Overlap
<1>7. Sound' => WholeOK(c)'
  <2> SUFFICES ASSUME Sound' PROVE WholeOK(c)'
    OBVIOUS
  <2>1. WholeOK(c)
    BY <1>2 DEF StoreInv, WholeInv, Sound
  <2> QED
    BY <1>1, <1>2, <1>3, <1>5, <2>1 DEF WholeOK
<1> QED
  BY <1>1, <1>2, <1>4, <1>6, <1>7, Quiet

\* A command that ends, by itself or not.
LEMMA EndKeeps ==
  ASSUME TypeInv, StoreInv, NEW c \in Commands, Goto(c, "done"),
         UNCHANGED <<file, keyfile, want>>, slips \subseteq slips'
  PROVE  TypeInv' /\ StoreInv'
<1> DEFINE r == [act[c] EXCEPT !.pc = "done"]
<1>r. RunOK(c)
  BY DEF StoreInv
<1>1. /\ r \in Act /\ r.pc = "done" /\ r.for = act[c].for /\ r.todo = act[c].todo
      /\ r.payload = act[c].payload /\ r.key = act[c].key
  BY PcSet DEF Pcs
<1>2. Becomes(c, r)
  BY DEF Goto
<1> HIDE DEF r
<1>3. act'[c] = r
  BY <1>1, <1>2, OthersStay
<1>4. RunOK(c)' /\ ~ Writing(c)'
  BY <1>r, <1>1, <1>3 DEF RunOK, Writing
<1> QED
  BY <1>1, <1>2, <1>4, AtRest

LEMMA FetchKeeps ==
  ASSUME TypeInv, StoreInv, NEW c \in Commands, Fetch(c) PROVE TypeInv' /\ StoreInv'
<1> DEFINE l == IF file.form = "none" \/ act[c].key # NoKey THEN "open" ELSE "key"
           r == [act[c] EXCEPT !.payload = file, !.for = act[c].pc, !.pc = l]
<1>r. RunOK(c) /\ act[c].pc \in {"list", "look", "read"} /\ FormInv
  BY DEF StoreInv, Fetch
<1>1. /\ r \in Act /\ r.pc = l /\ r.for = act[c].pc /\ r.todo = act[c].todo
      /\ r.payload = file /\ r.copy = act[c].copy /\ r.key = act[c].key
  <2>1. act[c] \in Act /\ file \in File /\ act[c].pc \in Fors /\ l \in Pcs
    BY <1>r DEF TypeInv, Fors, Pcs
  <2> HIDE DEF l
  <2> QED
    BY <2>1 DEF Act
<1>2. Becomes(c, r) /\ UNCHANGED <<file, keyfile, want, slips>>
  BY DEF Fetch
<1> HIDE DEF r
<1>3. act'[c] = r
  BY <1>1, <1>2, OthersStay
<1>4. RunOK(c)'
  BY <1>r, <1>1, <1>3 DEF RunOK, FormInv
<1>5. ~ Writing(c)'
  BY <1>r, <1>1, <1>3 DEF Writing
<1>6. ~ Overlap' => PartOK(c)'
  BY <1>1, <1>2, <1>3, <1>5 DEF StoreInv, PartInv, PartOK, PartOf, Overlap
<1>7. Sound' => WholeOK(c)'
  <2> SUFFICES ASSUME Sound' PROVE WholeOK(c)'
    OBVIOUS
  <2>1. WholeOK(c)
    BY <1>2 DEF StoreInv, WholeInv, Sound
  <2> QED
    BY <1>1, <1>2, <1>3, <1>5, <2>1 DEF WholeOK
<1> QED
  BY <1>1, <1>2, <1>4, <1>6, <1>7, Quiet

LEMMA FetchFailsKeeps ==
  ASSUME TypeInv, StoreInv, NEW c \in Commands, FetchFails(c) PROVE TypeInv' /\ StoreInv'
<1> DEFINE r == [act[c] EXCEPT !.payload = NoFile, !.for = act[c].pc, !.pc = "open"]
<1>r. RunOK(c) /\ act[c].pc \in {"list", "look", "read"}
  BY DEF StoreInv, FetchFails
<1>1. /\ r \in Act /\ r.pc = "open" /\ r.for = act[c].pc /\ r.todo = act[c].todo
      /\ r.payload = NoFile /\ r.copy = act[c].copy /\ r.key = act[c].key
  <2>1. act[c] \in Act /\ NoFile \in File /\ act[c].pc \in Fors /\ "open" \in Pcs
    BY <1>r, EmptyType DEF TypeInv, Fors, Pcs
  <2> QED
    BY <2>1 DEF Act
<1>2. /\ Becomes(c, r) /\ UNCHANGED <<file, keyfile, want>> /\ slips \subseteq slips'
      /\ Asks(c) => "blind" \in slips'
  BY DEF FetchFails, Blind, Asks
<1> HIDE DEF r
<1>3. act'[c] = r
  BY <1>1, <1>2, OthersStay
<1>4. RunOK(c)'
  BY <1>r, <1>1, <1>3, EmptyType DEF RunOK
<1>5. ~ Writing(c)'
  BY <1>r, <1>1, <1>3 DEF Writing
<1>6. PartOK(c)'
  BY <1>1, <1>3, <1>5, EmptyType DEF PartOK, PartOf, Empty
<1>7. Sound' => WholeOK(c)'
  <2> SUFFICES ASSUME Sound' PROVE WholeOK(c)'
    OBVIOUS
  <2>1. WholeOK(c) /\ ~ Asks(c)
    BY <1>2 DEF StoreInv, WholeInv, Sound
  <2> QED
    BY <1>1, <1>2, <1>3, <1>5, <2>1 DEF WholeOK, Asks
<1> QED
  BY <1>1, <1>2, <1>4, <1>6, <1>7, Quiet

\* What c makes of the file it opens is what was entered, if that was read.
LEMMA OpenedIs ==
  ASSUME TypeInv, StoreInv, NEW c \in Commands, act[c].pc = "open"
  PROVE  /\ Opened(c) \in Data
         /\ ~ Overlap /\ Reading(c) => PartOf(Opened(c))
         /\ Sound /\ Reading(c) =>
              \/ Opened(c) = want /\ act[c].key # Bare
              \/ Opened(c) = Empty /\ ~ Asks(c)
         /\ Opened(c) # Empty => act[c].key # NoKey
<1>1. act[c].payload \in File /\ act[c].payload.data \in Data
  BY DEF TypeInv, Act, File
<1>2. Opened(c) = act[c].payload.data \/ Opened(c) = Empty
  BY DEF Opened
<1>3. ~ Overlap /\ Reading(c) => PartOf(Opened(c))
  <2> SUFFICES ASSUME ~ Overlap, Reading(c) PROVE PartOf(Opened(c))
    OBVIOUS
  <2>1. PartOf(act[c].payload.data) /\ PartOf(Empty)
    BY DEF StoreInv, PartInv, PartOK, PartOf, Empty
  <2> QED
    BY <1>2, <2>1
<1>4. Sound /\ Reading(c) =>
        \/ Opened(c) = want /\ act[c].key # Bare
        \/ Opened(c) = Empty /\ ~ Asks(c)
  <2> SUFFICES ASSUME Sound, Reading(c)
               PROVE  \/ Opened(c) = want /\ act[c].key # Bare
                      \/ Opened(c) = Empty /\ ~ Asks(c)
    OBVIOUS
  <2>1. /\ file.data = want /\ (file.form = "none" \/ file.by = keyfile)
        /\ act[c].payload = file \/ (act[c].payload = NoFile /\ ~ Asks(c))
        /\ act[c].key \in {NoKey, keyfile} \/ (act[c].key = Bare /\ ~ Asks(c))
    BY DEF StoreInv, WholeInv, WholeOK
  <2>2. CASE act[c].payload = NoFile
    <3>1. Opened(c) = Empty /\ NoKey # Bare
      BY <1>2, <2>2, EmptyType, SecretsAssumption
    <3>2. Asks(c) => Opened(c) = want /\ act[c].key # Bare
      <4> SUFFICES ASSUME Asks(c) PROVE Opened(c) = want /\ act[c].key # Bare
        OBVIOUS
      <4>1. file = NoFile /\ act[c].key \in {NoKey, keyfile}
        BY <2>1, <2>2
      <4> QED
        BY <2>1, <3>1, <4>1, EmptyType DEF TypeInv
    <3> QED
      BY <3>1, <3>2
  <2>3. CASE act[c].payload # NoFile
    <3>1. act[c].payload = file /\ file.form # "none" /\ act[c].key # NoKey
      BY <2>1, <2>3 DEF StoreInv, FormInv, RunOK
    <3>2. CASE act[c].key = keyfile
      BY <2>1, <3>1, <3>2 DEF Opened, TypeInv
    <3>3. CASE act[c].key = Bare /\ ~ Asks(c)
      BY <2>1, <3>1, <3>3 DEF Opened, TypeInv
    <3> QED
      BY <2>1, <3>1, <3>2, <3>3
  <2> QED
    BY <2>2, <2>3
<1>5. Opened(c) # Empty => act[c].key # NoKey
  <2>1. act[c].payload.form = "none" => Opened(c) = Empty
    BY <1>2, EmptyType DEF StoreInv, RunOK
  <2> QED
    BY <2>1 DEF StoreInv, RunOK
<1> QED
  BY <1>1, <1>2, <1>3, <1>4, <1>5, EmptyType

LEMMA OpenKeeps ==
  ASSUME TypeInv, StoreInv, NEW c \in Commands, Open(c) PROVE TypeInv' /\ StoreInv'
<1>r. RunOK(c) /\ act[c].pc = "open" /\ act[c] \in Act
  BY DEF StoreInv, Open, TypeInv
<1>o. /\ Opened(c) \in Data
      /\ ~ Overlap /\ Reading(c) => PartOf(Opened(c))
      /\ Sound /\ Reading(c) =>
           \/ Opened(c) = want /\ act[c].key # Bare
           \/ Opened(c) = Empty /\ ~ Asks(c)
      /\ Opened(c) # Empty => act[c].key # NoKey
  BY <1>r, OpenedIs
<1>u. UNCHANGED <<file, keyfile, want, slips>>
  BY DEF Open
<1>1. CASE act[c].payload.form = "legacy" /\ act[c].payload.by = act[c].key
  <2> DEFINE r == [act[c] EXCEPT !.pc = "rewrite", !.copy = Opened(c)]
  <2>1. /\ r \in Act /\ r.pc = "rewrite" /\ r.for = act[c].for /\ r.todo = act[c].todo
        /\ r.payload = act[c].payload /\ r.copy = Opened(c) /\ r.key = act[c].key
    <3>1. "rewrite" \in Pcs
      BY DEF Pcs
    <3> QED
      BY <1>r, <1>o, <3>1 DEF Act
  <2>2. Becomes(c, r)
    BY <1>1 DEF Open
  <2> HIDE DEF r
  <2>3. act'[c] = r
    BY <2>1, <2>2, OthersStay
  <2>4. Reading(c) /\ ~ Reading(c)'
    BY <1>r, <1>1, <2>1, <2>3 DEF Reading, RunOK
  <2>5. RunOK(c)'
    BY <1>r, <1>1, <2>1, <2>3 DEF RunOK
  <2>6. ~ Overlap' => PartOK(c)'
    BY <1>o, <1>u, <2>1, <2>3, <2>4 DEF PartOK, PartOf, Overlap
  <2>7. Sound' => WholeOK(c)'
    <3> SUFFICES ASSUME Sound' PROVE WholeOK(c)'
      OBVIOUS
    <3>0. /\ WholeOK(c) /\ Reading(c) /\ file.data = want
          /\ file.form = "none" \/ file.by = keyfile
      BY <1>u, <2>4 DEF StoreInv, WholeInv, Sound
    <3>2. act[c].payload = file /\ act[c].key # Bare
      BY <1>1, <3>0, EmptyType DEF WholeOK, TypeInv
    <3>1. WholeOK(c) /\ Opened(c) = want /\ act[c].key # Bare
      BY <1>1, <3>0, <3>2 DEF Opened
    <3> QED
      BY <1>u, <2>1, <2>3, <2>4, <3>1 DEF WholeOK
  <2> QED
    BY <1>u, <2>1, <2>2, <2>5, <2>6, <2>7, Quiet
<1>2. CASE ~ (act[c].payload.form = "legacy" /\ act[c].payload.by = act[c].key)
  <2> DEFINE r == With(c, Opened(c))
  <2>1. /\ r \in Act /\ r.payload = NoFile /\ r.for = "none" /\ r.key = act[c].key
        /\ r.pc \in {"done", "prompt", "look", "read", "write"}
        /\ r.pc # "done" => r.todo # <<>>
        /\ r.pc = "prompt" => Kind[c] \in {"set", "run"}
        /\ r.pc = "look" => Kind[c] = "run"
        /\ r.pc = "write" \/ (r.pc = "prompt" /\ Kind[c] = "run")
            => act[c].for # "list" /\ r.copy = Opened(c)
        /\ r.pc = "write" => Asks(c) \/ Opened(c) # Empty
    <3>1. act[c].for # "list" => act[c].todo # <<>>
      BY <1>r DEF RunOK
    <3> QED
      BY <1>r, <1>o, <3>1, WithIs
  <2>2. Becomes(c, r)
    BY <1>2 DEF Open
  <2> HIDE DEF r
  <2>3. act'[c] = r
    BY <2>1, <2>2, OthersStay
  <2>4. /\ ~ Reading(c)' /\ r.pc # "fill"
        /\ Writing(c)' => Reading(c) /\ act'[c].copy = Opened(c)
    BY <1>r, <2>1, <2>3 DEF Reading, Writing, RunOK
  <2>5. RunOK(c)'
    BY <1>o, <2>1, <2>3, EmptyType DEF RunOK, Asks
  <2>6. ~ Overlap' => PartOK(c)'
    BY <1>o, <1>u, <2>4 DEF PartOK, PartOf, Overlap
  <2>7. Sound' => WholeOK(c)'
    <3> SUFFICES ASSUME Sound' PROVE WholeOK(c)'
      OBVIOUS
    <3>0. WholeOK(c) /\ Sound
      BY <1>u DEF StoreInv, WholeInv, Sound
    <3>2. Writing(c)' => Asks(c) \/ Opened(c) # Empty
      BY <2>1, <2>3 DEF Writing, Asks
    <3>1. WholeOK(c) /\ (Writing(c)' => Opened(c) = want /\ act[c].key # Bare)
      BY <1>o, <2>4, <3>0, <3>2
    <3> QED
      BY <1>u, <2>1, <2>3, <2>4, <3>1 DEF WholeOK
  <2> QED
    BY <1>u, <2>1, <2>2, <2>4, <2>5, <2>6, <2>7, Quiet
<1> QED
  BY <1>1, <1>2

-----------------------------------------------------------------------------
(* The key.                                                                *)

LEMMA DerivedIs ==
  ASSUME TypeInv, NEW c \in Commands, NEW k \in MasterKeys, NEW marks, Derived(c, k, marks)
  PROVE  /\ act' \in [Commands -> Act]
         /\ act'[c].pc = IF act[c].for = "write" THEN "write" ELSE "open"
         /\ act'[c].key = k \/ (act'[c].key = Bare /\ (Asks(c) => "blind" \in slips'))
         /\ act'[c].for = act[c].for /\ act'[c].todo = act[c].todo
         /\ act'[c].payload = act[c].payload /\ act'[c].copy = act[c].copy
         /\ \A e \in Commands \ {c} : act'[e] = act[e]
         /\ \E r \in Act : Becomes(c, r) /\ act'[c] = r
         /\ slips \cup marks \subseteq slips'
<1> DEFINE l == IF act[c].for = "write" THEN "write" ELSE "open"
           r(n) == [act[c] EXCEPT !.pc = l, !.key = n]
<1>1. act[c] \in Act /\ l \in Pcs /\ Bare \in MasterKeys
  BY DEF TypeInv, Pcs, MasterKeys
<1>2. PICK n \in MasterKeys : /\ n = k \/ (n = Bare /\ (Asks(c) => "blind" \in slips'))
                              /\ Becomes(c, r(n)) /\ slips \cup marks \subseteq slips'
  <2>1. PICK bare \in BOOLEAN :
          /\ Becomes(c, r(IF bare THEN Bare ELSE k))
          /\ slips' = slips \cup marks \cup (IF bare THEN {"nomachine"} \cup Blind(c) ELSE {})
    BY DEF Derived
  <2>2. CASE bare
    <3>1. Becomes(c, r(Bare)) /\ slips' = slips \cup marks \cup ({"nomachine"} \cup Blind(c))
      BY <2>1, <2>2
    <3>2. Asks(c) => "blind" \in slips'
      BY <3>1 DEF Blind, Asks
    <3> QED
      BY <1>1, <3>1, <3>2
  <2>3. CASE ~ bare
    BY <2>1, <2>3
  <2> QED
    BY <2>2, <2>3
<1>3. l = IF act[c].for = "write" THEN "write" ELSE "open"
  OBVIOUS
<1> HIDE DEF l
<1>4. /\ r(n) \in Act /\ r(n).pc = l /\ r(n).key = n /\ r(n).for = act[c].for
      /\ r(n).todo = act[c].todo
      /\ r(n).payload = act[c].payload /\ r(n).copy = act[c].copy
  BY <1>1 DEF Act
<1>5. PICK q \in Act : q = r(n)
  BY <1>4
<1>6. /\ Becomes(c, q) /\ q.pc = l /\ q.key = n /\ q.for = act[c].for /\ q.todo = act[c].todo
      /\ q.payload = act[c].payload /\ q.copy = act[c].copy
  BY <1>2, <1>4, <1>5
<1> HIDE DEF r
<1> QED
  BY <1>2, <1>3, <1>6, OthersStay

\* The keyfile there is goes into the key.
LEMMA ReadKeyfileKeeps ==
  ASSUME TypeInv, StoreInv, NEW c \in Commands, ReadKeyfile(c), keyfile # NoKey
  PROVE  TypeInv' /\ StoreInv'
<1>r. /\ RunOK(c) /\ act[c].pc = "key" /\ keyfile \in MasterKeys /\ keyfile # Bare
      /\ Bare # NoKey
  BY SecretsAssumption DEF StoreInv, ReadKeyfile, TypeInv
<1>u. UNCHANGED <<file, keyfile, want>> /\ Derived(c, keyfile, {})
  BY DEF ReadKeyfile
<1>2. PICK r \in Act : Becomes(c, r) /\ act'[c] = r
  BY <1>r, <1>u, DerivedIs
<1>3. /\ r.pc = IF act[c].for = "write" THEN "write" ELSE "open"
      /\ r.key = keyfile \/ (r.key = Bare /\ (Asks(c) => "blind" \in slips'))
      /\ r.for = act[c].for /\ r.todo = act[c].todo
      /\ r.payload = act[c].payload /\ r.copy = act[c].copy /\ slips \subseteq slips'
  BY <1>r, <1>u, <1>2, DerivedIs
<1>4. (Writing(c)' => Writing(c)) /\ (Reading(c)' => Reading(c)) /\ RunOK(c)'
  BY <1>r, <1>2, <1>3 DEF RunOK, Writing, Reading
<1>5. ~ Overlap' => PartOK(c)'
  <2>1. ~ Overlap' => PartOK(c)
    BY <1>3 DEF StoreInv, PartInv, Overlap
  <2> QED
    BY <1>u, <1>2, <1>3, <1>4, <2>1 DEF PartOK, PartOf
<1>6. Sound' => WholeOK(c)'
  <2> SUFFICES ASSUME Sound' PROVE WholeOK(c)'
    OBVIOUS
  <2>1. WholeOK(c) /\ (r.key = Bare => ~ Asks(c))
    BY <1>r, <1>3 DEF StoreInv, WholeInv, Sound
  <2>2. Writing(c)' => Asks(c)
    BY <1>r, <1>2, <1>3, <1>4 DEF Writing, RunOK
  <2> QED
    BY <1>u, <1>2, <1>3, <1>4, <2>1, <2>2 DEF WholeOK, Asks
<1>7. r.pc # "fill"
  BY <1>3
<1> QED
  BY <1>u, <1>2, <1>3, <1>4, <1>5, <1>6, <1>7, Quiet

\* It is not there, or cannot be read.
LEMMA NoKeyfileKeeps ==
  ASSUME TypeInv, StoreInv, NEW c \in Commands, act[c].pc = "key", Goto(c, "create"),
         UNCHANGED <<file, keyfile, want>>, slips \subseteq slips'
  PROVE  TypeInv' /\ StoreInv'
<1> DEFINE r == [act[c] EXCEPT !.pc = "create"]
<1>r. RunOK(c)
  BY DEF StoreInv
<1>1. /\ r \in Act /\ r.pc = "create" /\ r.for = act[c].for /\ r.todo = act[c].todo
      /\ r.payload = act[c].payload /\ r.copy = act[c].copy /\ r.key = act[c].key
  BY PcSet DEF Pcs
<1>2. Becomes(c, r)
  BY DEF Goto
<1> HIDE DEF r
<1>3. act'[c] = r
  BY <1>1, <1>2, OthersStay
<1>4. (Writing(c)' => Writing(c)) /\ (Reading(c)' => Reading(c)) /\ RunOK(c)'
  BY <1>r, <1>1, <1>3 DEF RunOK, Writing, Reading, Asks
<1>5. ~ Overlap' => PartOK(c)'
  <2>1. ~ Overlap' => PartOK(c)
    BY DEF StoreInv, PartInv, Overlap
  <2> QED
    BY <1>1, <1>3, <1>4, <2>1 DEF PartOK, PartOf
<1>6. Sound' => WholeOK(c)'
  <2>1. Sound' => WholeOK(c)
    BY DEF StoreInv, WholeInv, Sound
  <2> QED
    BY <1>1, <1>3, <1>4, <2>1 DEF WholeOK, Asks
<1> QED
  BY <1>1, <1>2, <1>4, <1>5, <1>6, Quiet

\* A keyfile that was not there: nothing is encrypted, and nobody has a key.
LEMMA NoKeyYet ==
  ASSUME TypeInv, StoreInv, Sound, keyfile = NoKey
  PROVE  /\ file.form = "none" /\ file.data = want
         /\ \A e \in Commands : /\ act[e].key \in {NoKey, Bare} /\ act[e].pc # "fill"
                                /\ WholeOK(e)
<1>1. FormInv /\ (file.form = "none" \/ file.by = keyfile) /\ file.data = want
      /\ \A e \in Commands : WholeOK(e)
  BY DEF StoreInv, WholeInv
<1>2. NoKey # Unfilled
  BY SecretsAssumption
<1> QED
  BY <1>1, <1>2 DEF FormInv, WholeOK

LEMMA CreateKeyfileKeeps ==
  ASSUME TypeInv, StoreInv, NEW c \in Commands, CreateKeyfile(c) PROVE TypeInv' /\ StoreInv'
<1>r. RunOK(c) /\ act[c].pc = "create"
  BY DEF StoreInv, CreateKeyfile
<1>u. UNCHANGED <<file, want, slips>>
  BY DEF CreateKeyfile
<1>1. CASE keyfile # NoKey
  BY <1>1, <1>u, EndKeeps DEF CreateKeyfile
<1>2. CASE keyfile = NoKey
  <2> DEFINE r == [act[c] EXCEPT !.pc = "fill"]
  <2>1. /\ r \in Act /\ r.pc = "fill" /\ r.for = act[c].for /\ r.todo = act[c].todo
        /\ r.payload = act[c].payload /\ r.copy = act[c].copy /\ r.key = act[c].key
    BY PcSet DEF Pcs
  <2>2. Becomes(c, r) /\ keyfile' = Unfilled
    BY <1>2 DEF CreateKeyfile, Goto
  <2> HIDE DEF r
  <2>3. /\ act' \in [Commands -> Act] /\ act'[c] = r
        /\ \A e \in Commands \ {c} : act'[e] = act[e]
    BY <2>1, <2>2, OthersStay
  <2>4. TypeInv'
    BY <1>u, <2>2, <2>3, SecretsAssumption DEF TypeInv, MasterKeys
  <2>5. \A e \in Commands : /\ Writing(e)' => Writing(e)
                            /\ Reading(e)' => Reading(e)
                            /\ act'[e].copy = act[e].copy /\ act'[e].payload = act[e].payload
                            /\ act'[e].key = act[e].key
    BY <1>r, <2>1, <2>3 DEF Writing, Reading
  <2>6. \A e \in Commands : RunOK(e)'
    <3>1. RunOK(c)'
      BY <1>r, <2>1, <2>3 DEF RunOK
    <3>2. \A e \in Commands \ {c} : RunOK(e)'
      BY <2>3 DEF RunOK, StoreInv
    <3> QED
      BY <3>1, <3>2
  <2>7. FormInv'
    BY <1>u DEF StoreInv, FormInv
  <2>8. PartInv'
    BY <1>u, <2>5 DEF StoreInv, PartInv, PartOK, PartOf, Overlap
  <2>9. WholeInv'
    <3> SUFFICES ASSUME Sound
                 PROVE  /\ file'.data = want' /\ (file'.form = "none" \/ file'.by = keyfile')
                        /\ OneFills' /\ \A e \in Commands : WholeOK(e)'
      BY <1>u DEF WholeInv, Sound
    <3>1. /\ file.form = "none" /\ file.data = want
          /\ \A e \in Commands : /\ act[e].key \in {NoKey, Bare} /\ act[e].pc # "fill"
                                 /\ WholeOK(e)
      BY <1>2, NoKeyYet
    <3>2. OneFills'
      BY <2>3, <3>1 DEF OneFills
    <3>3. \A e \in Commands : WholeOK(e)'
      BY <1>2, <1>u, SecretsAssumption, <2>2, <2>5, <3>1 DEF WholeOK, Asks
    <3> QED
      BY <1>u, <3>1, <3>2, <3>3
  <2> QED
    BY <2>4, <2>6, <2>7, <2>8, <2>9 DEF StoreInv
<1> QED
  BY <1>1, <1>2

LEMMA FillKeyfileKeeps ==
  ASSUME TypeInv, StoreInv, NEW c \in Commands, FillKeyfile(c) PROVE TypeInv' /\ StoreInv'
<1>r. /\ RunOK(c) /\ act[c].pc = "fill" /\ c \in MasterKeys /\ c # NoKey /\ c # Bare
      /\ Bare # NoKey
  BY SecretsAssumption DEF StoreInv, FillKeyfile, MasterKeys
<1> DEFINE marks == IF file.by = Unfilled \/ \E d \in Commands : act[d].key = Unfilled
                    THEN {"overlap"} ELSE {}
<1>0. Derived(c, c, marks) /\ keyfile' = c /\ UNCHANGED <<file, want>>
  BY DEF FillKeyfile
<1> HIDE DEF marks
<1>1. /\ act' \in [Commands -> Act]
      /\ act'[c].key = c \/ (act'[c].key = Bare /\ (Asks(c) => "blind" \in slips'))
      /\ act'[c].pc = IF act[c].for = "write" THEN "write" ELSE "open"
      /\ act'[c].for = act[c].for /\ act'[c].todo = act[c].todo
      /\ act'[c].payload = act[c].payload /\ act'[c].copy = act[c].copy
      /\ \A e \in Commands \ {c} : act'[e] = act[e]
  BY <1>r, <1>0, DerivedIs
<1>2. /\ keyfile' = c /\ UNCHANGED <<file, want>> /\ slips \subseteq slips'
      /\ file.by = Unfilled \/ (\E d \in Commands : act[d].key = Unfilled) => Overlap'
  <2>1. slips \cup marks \subseteq slips'
    BY <1>r, <1>0, DerivedIs
  <2> QED
    BY <1>0, <2>1 DEF marks, Overlap
<1>3. TypeInv'
  BY <1>r, <1>1, <1>2 DEF TypeInv
<1>4. \A e \in Commands : /\ Writing(e)' => Writing(e)
                          /\ Reading(e)' => Reading(e)
                          /\ act'[e].copy = act[e].copy /\ act'[e].payload = act[e].payload
                          /\ act'[e].key = act[e].key \/ (e = c /\ act'[e].key \in {c, Bare})
  BY <1>r, <1>1 DEF Writing, Reading
<1>5. \A e \in Commands : RunOK(e)'
  <2>1. RunOK(c)'
    BY <1>r, <1>1 DEF RunOK
  <2>2. \A e \in Commands \ {c} : RunOK(e)'
    BY <1>1 DEF RunOK, StoreInv
  <2> QED
    BY <2>1, <2>2
<1>6. FormInv'
  BY <1>2 DEF StoreInv, FormInv
<1>7. PartInv'
  BY <1>2, <1>4 DEF StoreInv, PartInv, PartOK, PartOf, Overlap
<1>8. WholeInv'
  <2> SUFFICES ASSUME Sound'
               PROVE  /\ file'.data = want' /\ (file'.form = "none" \/ file'.by = keyfile')
                      /\ OneFills' /\ \A e \in Commands : WholeOK(e)'
    BY DEF WholeInv
  <2>1. Sound /\ ~ Overlap'
    BY <1>2 DEF Sound, Overlap
  <2>2. /\ file.data = want /\ (file.form = "none" \/ file.by = keyfile)
        /\ OneFills /\ \A e \in Commands : WholeOK(e)
    BY <2>1 DEF StoreInv, WholeInv
  <2>3. keyfile = Unfilled
    BY <1>r, <2>2 DEF WholeOK
  <2>4. /\ file.form = "none"
        /\ \A e \in Commands : act[e].key = NoKey \/ (act[e].key = Bare /\ ~ Asks(e))
    BY <1>2, <2>1, <2>2, <2>3 DEF WholeOK
  <2>5. \A e \in Commands : act'[e].pc # "fill"
    BY <1>r, <1>1, <2>2 DEF OneFills
  <2>6. \A e \in Commands : WholeOK(e)'
    <3>1. act'[c].key = Bare => ~ Asks(c)
      BY <1>r, <1>1 DEF Sound
    <3>2. Writing(c)' => Asks(c)
      BY <1>r, <1>1, <1>4 DEF Writing, RunOK
    <3>3. \A e \in Commands : Asks(e)' = Asks(e)
      BY DEF Asks
    <3>4. WholeOK(c)'
      BY <1>1, <1>2, <1>4, <2>2, <2>5, <3>1, <3>2, <3>3 DEF WholeOK
    <3>5. \A e \in Commands \ {c} : WholeOK(e)'
      BY <1>1, <1>2, <1>4, <2>2, <2>4, <2>5, <3>3 DEF WholeOK
    <3> QED
      BY <3>4, <3>5
  <2> QED
    BY <1>2, <2>2, <2>4, <2>5, <2>6 DEF OneFills
<1> QED
  BY <1>3, <1>5, <1>6, <1>7, <1>8 DEF StoreInv

-----------------------------------------------------------------------------
(* The file is replaced.                                                   *)

\* Whoever has read and not written yet overlaps with who replaces the file.
LEMMA HoldsIs ==
  ASSUME NEW e \in Commands, Writing(e) \/ Reading(e) PROVE Holds(e)
BY DEF Writing, Reading, Holds

LEMMA ChangedIs ==
  ASSUME NEW c \in Commands, NEW data \in Data
  PROVE  /\ Changed(c, data) \in Data
         /\ \A k \in Keys : Changed(c, data)[k] =
              IF k = This(c) THEN (IF Kind[c] \in {"set", "run"} THEN c ELSE NoValue) ELSE data[k]
BY DEF Changed, Data

\* Replacing the file by what was entered last, under the key there is, keeps
\* the invariant: if anybody else is between reading and writing that is an
\* overlap, and what is said of the others binds no longer.
LEMMA Replaced ==
  ASSUME TypeInv, StoreInv, NEW c \in Commands, NEW data \in Data, Replace(c, data),
         act[c].key # NoKey, want' \in Data, UNCHANGED keyfile,
         NEW r \in Act, Becomes(c, r), RunOK(c)', ~ Reading(c)', r.pc # "fill", r.key = act[c].key,
         Sound => act[c].key # Bare,
         ~ Overlap =>
           \A k \in Keys :
             /\ data[k] \in {want'[k], NoValue}
             /\ Writing(c)' => r.copy[k] \in {want'[k], NoValue},
         Sound => data = want' /\ (Writing(c)' => r.copy = want')
  PROVE  TypeInv' /\ StoreInv'
<1>1. /\ act' \in [Commands -> Act] /\ act'[c] = r
      /\ \A e \in Commands \ {c} : act'[e] = act[e]
  BY OthersStay
<1>2. /\ file' \in File /\ file'.form = "token" /\ file'.by = act[c].key /\ file'.data = data
      /\ slips \subseteq slips'
      /\ (\E d \in Commands \ {c} : Holds(d)) => Overlap'
  BY DEF Replace, File, TypeInv, Act, Overlap
<1>3. TypeInv'
  BY <1>1, <1>2 DEF TypeInv
<1>4. FormInv'
  BY <1>2 DEF FormInv
<1>5. (~ Overlap' => ~ Overlap) /\ (Sound' => Sound /\ ~ Overlap')
  BY <1>2 DEF Overlap, Sound
<1>6. ~ Overlap' => \A e \in Commands \ {c} : ~ Writing(e)' /\ ~ Reading(e)'
  <2> SUFFICES ASSUME ~ Overlap', NEW e \in Commands \ {c} PROVE ~ Writing(e)' /\ ~ Reading(e)'
    OBVIOUS
  <2>1. ~ Writing(e) /\ ~ Reading(e)
    BY <1>2, HoldsIs
  <2> QED
    BY <1>1, <2>1 DEF Writing, Reading
<1>7. \A e \in Commands : RunOK(e)'
  <2>1. \A e \in Commands \ {c} : RunOK(e)'
    BY <1>1 DEF RunOK, StoreInv
  <2> QED
    BY <2>1
<1>8. PartInv'
  <2> SUFFICES ASSUME ~ Overlap' PROVE PartOf(file.data)' /\ \A e \in Commands : PartOK(e)'
    BY DEF PartInv
  <2>0. \A k \in Keys :
           /\ data[k] \in {want'[k], NoValue}
           /\ Writing(c)' => r.copy[k] \in {want'[k], NoValue}
    BY <1>5
  <2>1. PartOf(file.data)'
    BY <1>2, <2>0 DEF PartOf
  <2>2. PartOK(c)'
    <3>1. Writing(c)' => PartOf(act[c].copy)'
      BY <1>1, <2>0 DEF PartOf
    <3> QED
      BY <3>1 DEF PartOK
  <2>3. \A e \in Commands \ {c} : PartOK(e)'
    BY <1>6 DEF PartOK
  <2> QED
    BY <2>1, <2>2, <2>3
<1>9. WholeInv'
  <2> SUFFICES ASSUME Sound'
               PROVE  /\ file'.data = want' /\ (file'.form = "none" \/ file'.by = keyfile')
                      /\ OneFills' /\ \A e \in Commands : WholeOK(e)'
    BY DEF WholeInv
  <2>1. OneFills /\ \A e \in Commands : WholeOK(e)
    BY <1>5 DEF StoreInv, WholeInv
  <2>2. act[c].key = keyfile
    BY <1>5, <2>1 DEF WholeOK
  <2>3. WholeOK(c)'
    BY <1>1, <1>5, <2>2 DEF WholeOK
  <2>4. \A e \in Commands \ {c} : WholeOK(e)'
    BY <1>1, <1>5, <1>6, <2>1 DEF WholeOK
  <2>5. OneFills'
    BY <1>1, <2>1 DEF OneFills
  <2> QED
    BY <1>2, <1>5, <2>2, <2>3, <2>4, <2>5
<1> QED
  BY <1>3, <1>4, <1>7, <1>8, <1>9 DEF StoreInv

LEMMA RewriteKeeps ==
  ASSUME TypeInv, StoreInv, NEW c \in Commands, Rewrite(c) PROVE TypeInv' /\ StoreInv'
<1> DEFINE r == With(c, act[c].copy)
<1>r. RunOK(c) /\ act[c].pc = "rewrite" /\ act[c].copy \in Data /\ Writing(c)
  BY DEF StoreInv, Rewrite, TypeInv, Act, Writing
<1>1. /\ r \in Act /\ r.payload = NoFile /\ r.for = "none" /\ r.key = act[c].key
      /\ r.pc \in {"done", "prompt", "look", "read", "write"}
      /\ r.pc # "done" => r.todo # <<>>
      /\ r.pc = "prompt" => Kind[c] \in {"set", "run"}
      /\ r.pc = "look" => Kind[c] = "run"
      /\ r.pc = "write" \/ (r.pc = "prompt" /\ Kind[c] = "run") => r.copy = act[c].copy
  <2>1. act[c].for # "list" => act[c].todo # <<>>
    BY <1>r DEF RunOK
  <2> QED
    BY <1>r, <2>1, WithIs
<1>2. Becomes(c, r) /\ Replace(c, act[c].copy) /\ UNCHANGED <<keyfile, want>>
  BY DEF Rewrite
<1> HIDE DEF r
<1>3. act'[c] = r
  BY <1>1, <1>2, OthersStay
<1>4. /\ ~ Reading(c)' /\ r.pc # "fill" /\ RunOK(c)'
      /\ Writing(c)' => r.copy = act[c].copy
  BY <1>r, <1>1, <1>3, EmptyType DEF Reading, Writing, RunOK
<1>5. ~ Overlap => \A k \in Keys : /\ act[c].copy[k] \in {want'[k], NoValue}
                                   /\ Writing(c)' => r.copy[k] \in {want'[k], NoValue}
  <2>1. ~ Overlap => PartOf(act[c].copy)
    BY <1>r DEF StoreInv, PartInv, PartOK
  <2>2. ~ Overlap => \A k \in Keys : act[c].copy[k] \in {want[k], NoValue}
    BY <2>1 DEF PartOf
  <2> QED
    BY <1>2, <1>4, <2>2
<1>6. Sound => act[c].copy = want' /\ (Writing(c)' => r.copy = want')
  BY <1>r, <1>2, <1>4 DEF StoreInv, WholeInv, WholeOK
<1>7. act[c].key # NoKey /\ want' \in Data /\ (Sound => act[c].key # Bare)
  BY <1>r, <1>2 DEF RunOK, TypeInv, StoreInv, WholeInv, WholeOK
<1> QED
  BY <1>r, <1>1, <1>2, <1>4, <1>5, <1>6, <1>7, Replaced

LEMMA WriteKeeps ==
  ASSUME TypeInv, StoreInv, NEW c \in Commands, Write(c) PROVE TypeInv' /\ StoreInv'
<1>r. /\ RunOK(c) /\ act[c].pc = "write" /\ act[c].copy \in Data /\ want \in Data
      /\ act[c] \in Act /\ Writing(c)
  BY DEF StoreInv, Write, TypeInv, Act, Writing
<1>1. CASE act[c].key = NoKey
  <2> DEFINE r == [act[c] EXCEPT !.pc = "key", !.for = "write"]
  <2>1. /\ r \in Act /\ r.pc = "key" /\ r.for = "write" /\ r.todo = act[c].todo
        /\ r.payload = act[c].payload /\ r.copy = act[c].copy /\ r.key = act[c].key
    <3>1. "key" \in Pcs /\ "write" \in Fors
      BY DEF Pcs, Fors
    <3> QED
      BY <1>r, <3>1 DEF Act
  <2>2. Becomes(c, r) /\ UNCHANGED <<file, keyfile, want, slips>>
    BY <1>1 DEF Write
  <2> HIDE DEF r
  <2>3. act'[c] = r
    BY <2>1, <2>2, OthersStay
  <2>4. ~ Reading(c)' /\ RunOK(c)'
    BY <1>1, <1>r, <2>1, <2>3 DEF Reading, RunOK, Asks
  <2>5. ~ Overlap' => PartOK(c)'
    BY <1>r, <2>1, <2>2, <2>3, <2>4 DEF StoreInv, PartInv, PartOK, PartOf, Overlap
  <2>6. Sound' => WholeOK(c)'
    <3> SUFFICES ASSUME Sound' PROVE WholeOK(c)'
      OBVIOUS
    <3>1. WholeOK(c)
      BY <2>2 DEF StoreInv, WholeInv, Sound
    <3> QED
      BY <1>r, <2>1, <2>2, <2>3, <2>4, <3>1 DEF WholeOK
  <2> QED
    BY <2>1, <2>2, <2>4, <2>5, <2>6, Quiet
<1>2. CASE act[c].key # NoKey
  <2>t. Tail(act[c].todo) \in Seq(Keys) /\ Empty \in Data
    BY <1>r, TailType, EmptyType DEF RunOK, Act
  <2>l. PICK left \in Seq(Keys) : left = Tail(act[c].todo)
    BY <2>t
  <2> DEFINE r == Going(c, left, Empty)
             data == Changed(c, act[c].copy)
  <2>1. /\ r \in Act /\ r.payload = NoFile /\ r.for = "none" /\ r.key = act[c].key
        /\ r.pc \in {"done", "prompt", "look", "read"} /\ (r.pc # "done" => r.todo # <<>>)
        /\ (r.pc = "prompt" => Kind[c] = "set") /\ (r.pc = "look" => Kind[c] = "run")
    BY <2>t, GoingIs
  <2>2. /\ Becomes(c, r) /\ Replace(c, data) /\ want' = Changed(c, want) /\ UNCHANGED keyfile
    BY <1>2, <2>l DEF Write
  <2>3. /\ data \in Data /\ want' \in Data
        /\ \A k \in Keys :
             /\ data[k] = act[c].copy[k] /\ want'[k] = want[k]
             \/ data[k] = want'[k]
    BY <1>r, <2>2, ChangedIs
  <2>4. Sound => data = want' /\ act[c].key # Bare
    BY <1>r, <2>2 DEF StoreInv, WholeInv, WholeOK
  <2> HIDE DEF r, data
  <2>5. act'[c] = r
    BY <2>1, <2>2, OthersStay
  <2>6. ~ Reading(c)' /\ ~ Writing(c)' /\ r.pc # "fill" /\ RunOK(c)'
    BY <2>1, <2>5, EmptyType DEF Reading, Writing, RunOK
  <2>7. ~ Overlap => \A k \in Keys : data[k] \in {want'[k], NoValue}
    <3>1. ~ Overlap => \A k \in Keys : act[c].copy[k] \in {want[k], NoValue}
      BY <1>r DEF StoreInv, PartInv, PartOK, PartOf
    <3> QED
      BY <2>3, <3>1
  <2> QED
    BY <1>2, <2>1, <2>2, <2>3, <2>4, <2>6, <2>7, Replaced
<1> QED
  BY <1>1, <1>2

-----------------------------------------------------------------------------
(* The theorems.                                                           *)

LEMMA LoseKeyfileKeeps ==
  ASSUME TypeInv, StoreInv, LoseKeyfile PROVE TypeInv' /\ StoreInv'
<1>1. /\ UNCHANGED <<file, act, want>> /\ keyfile' = NoKey /\ slips \subseteq slips'
      /\ "lostkey" \in slips'
  BY DEF LoseKeyfile
<1>2. TypeInv' /\ FormInv' /\ \A c \in Commands : RunOK(c)'
  BY <1>1, SecretsAssumption DEF TypeInv, MasterKeys, StoreInv, FormInv, RunOK
<1>3. PartInv'
  BY <1>1 DEF StoreInv, PartInv, PartOK, PartOf, Writing, Reading, Overlap
<1>4. WholeInv'
  BY <1>1 DEF WholeInv, Sound
<1> QED
  BY <1>2, <1>3, <1>4 DEF StoreInv

LEMMA InitKeeps == Init => TypeInv /\ StoreInv
<1> SUFFICES ASSUME Init PROVE TypeInv /\ StoreInv
  OBVIOUS
<1>1. PICK h \in Hosts, crew \in Crews :
        /\ file = h.file /\ keyfile = h.keyfile /\ want = h.file.data /\ slips = {}
        /\ act = [c \in Commands |->
                    [pc |-> IF c \in crew THEN "idle" ELSE "done", for |-> "none",
                     todo |-> <<>>, payload |-> NoFile, copy |-> Empty, key |-> NoKey]]
  BY DEF Init
<1>2. /\ h.file \in File /\ h.keyfile \in {Found, NoKey, Unfilled}
      /\ h.file = NoFile \/ (h.file.form # "none" /\ h.file.by = h.keyfile /\ h.keyfile # NoKey)
  BY HostsAssumption
<1>3. \A c \in Commands :
        /\ act[c] \in Act /\ act[c].pc \in {"idle", "done"} /\ act[c].for = "none"
        /\ act[c].payload = NoFile /\ act[c].key = NoKey
  <2>1. "idle" \in Pcs /\ "done" \in Pcs /\ "none" \in Fors /\ <<>> \in Seq(Keys)
        /\ NoKey \in MasterKeys
    BY DEF Pcs, Fors, MasterKeys
  <2> QED
    BY <1>1, <2>1, EmptyType DEF Act
<1>4. TypeInv
  <2>1. act \in [Commands -> Act]
    BY <1>1, <1>3
  <2> QED
    BY <1>1, <1>2, <2>1, SecretsAssumption DEF TypeInv, File, MasterKeys
<1>5. \A c \in Commands : RunOK(c) /\ ~ Writing(c) /\ ~ Reading(c)
  BY <1>3, EmptyType DEF RunOK, Writing, Reading
<1>6. FormInv /\ (file.form = "none" \/ file.by = keyfile)
  BY <1>1, <1>2, EmptyType DEF FormInv
<1>7. PartInv
  BY <1>1, <1>5 DEF PartInv, PartOK, PartOf
<1>8. WholeInv
  BY <1>1, <1>3, <1>5, <1>6 DEF WholeInv, WholeOK, OneFills
<1> QED
  BY <1>4, <1>5, <1>6, <1>7, <1>8 DEF StoreInv

LEMMA NextKeeps ==
  ASSUME TypeInv, StoreInv, [Next]_vars PROVE TypeInv' /\ StoreInv'
<1>1. CASE UNCHANGED vars
  BY <1>1 DEF vars, TypeInv, StoreInv, FormInv, PartInv, PartOK, PartOf, WholeInv, WholeOK,
              OneFills, RunOK, Writing, Reading, Overlap, Sound
<1>2. ASSUME NEW c \in Commands, Step(c) PROVE TypeInv' /\ StoreInv'
  <2>1. CASE GiveUp(c)
    BY <2>1, EndKeeps DEF GiveUp
  <2>2. CASE ReadKeyfile(c) \/ ReadKeyfileFails(c)
    BY <2>2, ReadKeyfileKeeps, NoKeyfileKeeps DEF ReadKeyfile, ReadKeyfileFails
  <2> QED
    BY <1>2, <2>1, <2>2, StartKeeps, EnterKeeps, FetchKeeps, FetchFailsKeeps, OpenKeeps, RewriteKeeps, WriteKeeps,
       CreateKeyfileKeeps, FillKeyfileKeeps DEF Step
<1>3. ASSUME NEW c \in Commands, Kill(c) PROVE TypeInv' /\ StoreInv'
  BY <1>3, EndKeeps DEF Kill
<1> QED
  BY <1>1, <1>2, <1>3, LoseKeyfileKeeps DEF Next, Finished

\* Every variable stays in its type, and what each command holds fits the file
\* and the keyfile: read_all and write_all (store.py) between any of their steps.
THEOREM StoreInvHolds == Spec => [](TypeInv /\ StoreInv)
<1>1. TypeInv /\ StoreInv /\ [Next]_vars => (TypeInv /\ StoreInv)'
  BY NextKeeps
<1> QED
  BY <1>1, InitKeeps, PTL DEF Spec

\* The invariant says of each secret what SecretsKept says of the whole file.
LEMMA StoreIsKept == ASSUME TypeInv, StoreInv PROVE SecretsKept
<1>1. Sound => Content = want
  <2> SUFFICES ASSUME Sound PROVE Content = want
    OBVIOUS
  <2>1. file.data = want /\ (file.form = "none" \/ file.by = keyfile)
    BY DEF StoreInv, WholeInv
  <2>2. file.form = "none" => file.data = Empty
    BY EmptyType DEF StoreInv, FormInv
  <2> QED
    BY <2>1, <2>2 DEF Content
<1>2. ~ Overlap => \A k \in Keys : Content[k] \in {want[k], NoValue}
  <2> SUFFICES ASSUME ~ Overlap PROVE \A k \in Keys : Content[k] \in {want[k], NoValue}
    OBVIOUS
  <2>1. \A k \in Keys : file.data[k] \in {want[k], NoValue} /\ Empty[k] = NoValue
    BY DEF StoreInv, PartInv, PartOf, Empty
  <2> QED
    BY <2>1 DEF Content
<1> QED
  BY <1>1, <1>2 DEF SecretsKept, Sound, Overlap

\* SecretsKept: a secret that was entered and not deleted is in the store, through
\* a change of format, the making of the key and a command's end anywhere, unless
\* two commands overlap, the keyfile is lost, or a `set` or a launch goes on after
\* it could not read the file or the machine-id; a deletion that could read neither
\* loses nothing, for it writes only if it has found what it deletes; and none of
\* these but an overlap brings a secret back.
THEOREM SecretsKeptHolds == Spec => []SecretsKept
<1>1. TypeInv /\ StoreInv => SecretsKept
  BY StoreIsKept
<1> QED
  BY <1>1, StoreInvHolds, PTL
=============================================================================
