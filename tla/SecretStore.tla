---------------------------- MODULE SecretStore -----------------------------
(***************************************************************************)
(* The encrypted store of the sidecars' secrets (domain/secrets) and the   *)
(* commands that read and write it: `agent secrets set`, `clear`,          *)
(* `cleanup` and `check`, and an `agent run` that asks for what is         *)
(* missing.  There is no lock: a command reads the whole file, changes one *)
(* key and replaces the file.                                              *)
(***************************************************************************)
EXTENDS SequencesExt, FiniteSets, Integers

CONSTANTS
  Commands,  \* the processes
  Kind,      \* Kind[c]: "set", "clear", "cleanup", "check" or "run"
  Sidecar,   \* Sidecar[c]: the sidecar that c names, or whose secrets it runs on
  Crews,     \* which commands there are, one choice for each behaviour
  Keys,      \* the names secrets are stored under
  Prefix,    \* Prefix[k]: the sidecar in front of the colon
  Required,  \* Required[s]: the keys that sidecar s, if it is known, asks for
  Hosts,     \* what a behaviour may find: [file, keyfile]
  Events,    \* the kinds of mishap, of "kill", "lostkey", "unread" and "nomachine"
  Found,     \* the keyfile there is, and who entered what is there
  NoKey,     \* no keyfile, no key derived
  Unfilled,  \* a keyfile that is not written yet: it is empty
  Bare,      \* the master key of who could not read /etc/machine-id
  NoValue    \* no such secret

\* A secret stands for who entered it.
Data == [Keys -> Commands \cup {Found, NoValue}]
Empty == [k \in Keys |-> NoValue]
MasterKeys == Commands \cup {Found, NoKey, Unfilled, Bare}
File == [form : {"none", "legacy", "token"}, by : MasterKeys, data : Data]
NoFile == [form |-> "none", by |-> NoKey, data |-> Empty]
Known == DOMAIN Required

ASSUME SecretsAssumption ==
  /\ Kind \in [Commands -> {"set", "clear", "cleanup", "check", "run"}]
  /\ IsFiniteSet(Keys)
  /\ \A s \in Known : /\ Required[s] \in Seq(Keys)
                      /\ \A i \in DOMAIN Required[s] : Prefix[Required[s][i]] = s
  \* `set` ends on a name it does not know, and a launch has a provider.
  /\ \A c \in Commands : Kind[c] \in {"set", "run"} => Sidecar[c] \in Known
  /\ Found # NoKey /\ Found # Unfilled /\ NoKey # Unfilled
  /\ Bare \notin {Found, NoKey, Unfilled}
  /\ {Found, NoKey, Unfilled, Bare} \cap Commands = {}

\* What is there before fits together: a file has the keyfile it was encrypted
\* with; a keyfile may be there without a file, also one that was never filled.
ASSUME HostsAssumption ==
  \A h \in Hosts :
    /\ h.file \in File /\ h.keyfile \in {Found, NoKey, Unfilled}
    /\ h.file = NoFile \/ (h.file.form # "none" /\ h.file.by = h.keyfile /\ h.keyfile # NoKey)

VARIABLES
  file,     \* secrets.enc: its format, the key it was encrypted with, its content
  keyfile,  \* whose random bytes are in the keyfile
  act,      \* act[c]: what c does, the read or write that it is for, the keys it
            \* has left, the file it read, what was in it, and its master key
  want,     \* what was entered and not deleted since
  slips     \* what excuses a secret that is not there

vars == <<file, keyfile, act, want, slips>>

Init ==
  \E h \in Hosts, crew \in Crews :
    /\ file = h.file /\ keyfile = h.keyfile /\ want = h.file.data
    /\ act = [c \in Commands |->
                [pc |-> IF c \in crew THEN "idle" ELSE "done", for |-> "none",
                 todo |-> <<>>, payload |-> NoFile, copy |-> Empty, key |-> NoKey]]
    /\ slips = {}

Becomes(c, r) == act' = [act EXCEPT ![c] = r]
Goto(c, l) == Becomes(c, [act[c] EXCEPT !.pc = l])
This(c) == Head(act[c].todo)

\* c will write what it has read, whatever the file says by then.
Holds(c) ==
  \/ act[c].pc \in {"rewrite", "write"} \/ (act[c].pc = "prompt" /\ Kind[c] = "run")
  \/ /\ act[c].pc \in {"key", "create", "fill", "open"}
     /\ act[c].for # "list" \/ act[c].payload.form = "legacy"

\* The file is replaced as a whole, by the last one to rename.
Replace(c, data) ==
  /\ file' = [form |-> "token", by |-> act[c].key, data |-> data]
  /\ slips' = slips \cup (IF \E d \in Commands \ {c} : Holds(d) THEN {"overlap"} ELSE {})

\* c will go on as if the store were empty, and may write.
Blind(c) == IF Kind[c] \in {"set", "run"} THEN {"blind"} ELSE {}

-----------------------------------------------------------------------------
(* The key, derived once in a process, when it is needed first.            *)

\* A read goes on with what it has read, a write writes.  Without a readable
\* machine-id, after a warning, the key is another, for as long as c runs.
Derived(c, k, marks) ==
  \E bare \in BOOLEAN :
    /\ bare => "nomachine" \in Events \ slips
    /\ Becomes(c, [act[c] EXCEPT !.pc = IF act[c].for = "write" THEN "write" ELSE "open",
                                 !.key = IF bare THEN Bare ELSE k])
    /\ slips' = slips \cup marks \cup (IF bare THEN {"nomachine"} \cup Blind(c) ELSE {})

\* An empty keyfile is as good as any.
ReadKeyfile(c) ==
  /\ act[c].pc = "key"
  /\ IF keyfile = NoKey THEN Goto(c, "create") /\ UNCHANGED slips ELSE Derived(c, keyfile, {})
  /\ UNCHANGED <<file, keyfile, want>>

\* One that cannot be read is taken for missing.
ReadKeyfileFails(c) ==
  /\ act[c].pc = "key"
  /\ "unread" \in Events \ slips /\ keyfile # NoKey
  /\ slips' = slips \cup {"unread"}
  /\ Goto(c, "create")
  /\ UNCHANGED <<file, keyfile, want>>

\* O_EXCL: who comes second has an error nobody catches.
CreateKeyfile(c) ==
  /\ act[c].pc = "create"
  /\ IF keyfile = NoKey THEN keyfile' = Unfilled /\ Goto(c, "fill")
     ELSE Goto(c, "done") /\ UNCHANGED keyfile
  /\ UNCHANGED <<file, want, slips>>

\* What was derived from the empty one in between decrypts nothing any more.
FillKeyfile(c) ==
  /\ act[c].pc = "fill"
  /\ keyfile' = c
  /\ Derived(c, c, IF file.by = Unfilled \/ \E d \in Commands : act[d].key = Unfilled
                   THEN {"overlap"} ELSE {})
  /\ UNCHANGED <<file, want>>

-----------------------------------------------------------------------------
(* What each command makes of what it reads, for "list", "look" or "read". *)

\* The keys `clear` and `cleanup` delete.
Listed(c, data) ==
  SetToSeq({k \in Keys :
    /\ data[k] # NoValue
    /\ IF Kind[c] = "clear" THEN Prefix[k] = Sidecar[c]
       ELSE \A s \in Known : k \notin Range(Required[s])})

\* How c goes on when `left` is to be done.
Going(c, left, data) ==
  [act[c] EXCEPT !.todo = left, !.copy = data, !.payload = NoFile, !.for = "none",
    !.pc = CASE left = <<>> \/ Kind[c] = "check" -> "done"
             [] left # <<>> /\ Kind[c] = "set" -> "prompt"
             [] left # <<>> /\ Kind[c] = "run" -> "look"
             [] OTHER -> "read"]

\* A launch asks for what is missing, a deletion passes over what is gone.
With(c, data) ==
  LET there == act[c].todo # <<>> /\ data[This(c)] # NoValue
      at(l) == [Going(c, act[c].todo, data) EXCEPT !.pc = l]
  IN CASE act[c].for = "list" -> Going(c, Listed(c, data), Empty)
       [] act[c].for = "look" -> IF there THEN Going(c, Tail(act[c].todo), Empty) ELSE at("prompt")
       [] OTHER -> IF there \/ Kind[c] = "set" THEN at("write")
                   ELSE Going(c, Tail(act[c].todo), Empty)

Start(c) ==
  /\ act[c].pc = "idle"
  /\ IF Kind[c] \in {"set", "run"} THEN Becomes(c, Going(c, Required[Sidecar[c]], Empty))
     ELSE Goto(c, "list")
  /\ UNCHANGED <<file, keyfile, want, slips>>

\* The user enters a secret, once or twice as may be, or gives up.
Enter(c) ==
  /\ act[c].pc = "prompt"
  /\ Goto(c, IF Kind[c] = "set" THEN "read" ELSE "write")
  /\ UNCHANGED <<file, keyfile, want, slips>>

GiveUp(c) ==
  /\ act[c].pc = "prompt"
  /\ Goto(c, "done")
  /\ UNCHANGED <<file, keyfile, want, slips>>

-----------------------------------------------------------------------------
(* read_all and write_all.                                                 *)

Fetch(c) ==
  /\ act[c].pc \in {"list", "look", "read"}
  /\ Becomes(c, [act[c] EXCEPT !.payload = file, !.for = act[c].pc,
                  !.pc = IF file.form = "none" \/ act[c].key # NoKey THEN "open" ELSE "key"])
  /\ UNCHANGED <<file, keyfile, want, slips>>

\* A file that cannot be read counts as none: who writes next writes one key.
FetchFails(c) ==
  /\ act[c].pc \in {"list", "look", "read"}
  /\ "unread" \in Events \ slips /\ file.form # "none"
  /\ slips' = slips \cup {"unread"} \cup Blind(c)
  /\ Becomes(c, [act[c] EXCEPT !.payload = NoFile, !.for = act[c].pc, !.pc = "open"])
  /\ UNCHANGED <<file, keyfile, want>>

\* Mutant of Opened: only a token, as after the release that drops the other.
OpenedToken(c) ==
  IF act[c].payload.form = "token" /\ act[c].payload.by = act[c].key
  THEN act[c].payload.data ELSE Empty

\* What the key does not fit reads as empty, with a warning.
Opened(c) == IF act[c].payload.by = act[c].key THEN act[c].payload.data ELSE Empty

\* A file of the older format is written anew by whoever reads it.
Open(c) ==
  /\ act[c].pc = "open"
  /\ IF act[c].payload.form = "legacy" /\ act[c].payload.by = act[c].key
     THEN Becomes(c, [act[c] EXCEPT !.pc = "rewrite", !.copy = Opened(c)])
     ELSE Becomes(c, With(c, Opened(c)))
  /\ UNCHANGED <<file, keyfile, want, slips>>

Rewrite(c) ==
  /\ act[c].pc = "rewrite"
  /\ Replace(c, act[c].copy)
  /\ Becomes(c, With(c, act[c].copy))
  /\ UNCHANGED <<keyfile, want>>

\* One key is changed, of the copy.
Changed(c, data) ==
  [data EXCEPT ![This(c)] = IF Kind[c] \in {"set", "run"} THEN c ELSE NoValue]

Write(c) ==
  /\ act[c].pc = "write"
  /\ IF act[c].key = NoKey
     THEN /\ Becomes(c, [act[c] EXCEPT !.pc = "key", !.for = "write"])
          /\ UNCHANGED <<file, want, slips>>
     ELSE /\ Replace(c, Changed(c, act[c].copy))
          /\ want' = Changed(c, want)
          /\ Becomes(c, Going(c, Tail(act[c].todo), Empty))
  /\ UNCHANGED keyfile

-----------------------------------------------------------------------------
(* Mishaps, each of them once.                                             *)

\* Between two steps: a write that is cut short leaves the file as it was.
Kill(c) ==
  /\ "kill" \in Events \ slips /\ act[c].pc \notin {"idle", "done"}
  /\ slips' = slips \cup {"kill"}
  /\ Goto(c, "done")
  /\ UNCHANGED <<file, keyfile, want>>

LoseKeyfile ==
  /\ "lostkey" \in Events \ slips /\ keyfile # NoKey
  /\ slips' = slips \cup {"lostkey"}
  /\ keyfile' = NoKey
  /\ UNCHANGED <<file, act, want>>

Step(c) ==
  \/ Start(c) \/ Enter(c) \/ GiveUp(c) \/ Fetch(c) \/ FetchFails(c) \/ Open(c)
  \/ Rewrite(c) \/ Write(c) \/ ReadKeyfile(c) \/ ReadKeyfileFails(c)
  \/ CreateKeyfile(c) \/ FillKeyfile(c)

Finished == (\A c \in Commands : act[c].pc = "done") /\ UNCHANGED vars

Next == (\E c \in Commands : Step(c) \/ Kill(c)) \/ LoseKeyfile \/ Finished

Spec == Init /\ [][Next]_vars

-----------------------------------------------------------------------------
\* What the next command reads.
Content == IF file.by = keyfile THEN file.data ELSE Empty

\* SecretsKept: the store holds what was entered last under each name and not
\* deleted, through a change of format, the making of the key and the end of a
\* command anywhere ("test_write_preserves_other_keys").  Three things lose
\* secrets: one command replaces the file while another is between its read and
\* its write; the keyfile is lost; and a `set` or a launch goes on, blind, where
\* it could not read the file (read_all: "except OSError: return {}") or derived
\* another key for want of the machine-id.  A `clear`, a `cleanup` or a `check`
\* that reads nothing, for either reason, loses nothing; and without an overlap
\* none of this ever brings back a secret that was replaced or deleted.
SecretsKept ==
  /\ slips \cap {"overlap", "lostkey", "blind"} = {} => Content = want
  /\ "overlap" \notin slips => \A k \in Keys : Content[k] \in {want[k], NoValue}
=============================================================================
