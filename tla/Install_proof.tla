---------------------------- MODULE Install_proof ----------------------------
(***************************************************************************)
(* Proofs about Install, for every set of commands, every history of the   *)
(* branch, every number of migrations and images, and everything that may  *)
(* go wrong.                                                               *)
(***************************************************************************)
EXTENDS Install, FiniteSetTheorems, NaturalsInduction, TLAPS

-----------------------------------------------------------------------------
(* The versions.                                                           *)

Updating == {"prompt", "look", "stopviewer", "merge"}
Opening == {"backup", "migrate"}
Building == {"askbase", "buildbase", "restamp", "askproject", "buildproject", "built"}
PcStates == Updating \cup Opening \cup Building \cup Ended \cup
            {"idle", "open", "autostart", "update", "propagate", "provision", "image",
             "prepare", "ready", "running", "survey", "confirm", "remove"}

\* What an update is about to merge is a version.
TreeInv ==
  /\ pc \in [Commands -> PcStates] /\ code \in [Commands -> Versions]
  /\ head \in Versions /\ fetched \in Versions /\ upstream \in Versions
  /\ upd \in [Commands -> [target : Versions \cup {NoVersion}, before : Nat,
                           premd : {"missing", "matches", "customized"}]]
  /\ \A c \in Commands : pc[c] \in Updating => upd[c].target \in Versions

\* A nonempty set of numbers with a bound has a greatest one.
LEMMA Greatest ==
  ASSUME NEW n \in Nat, NEW S \in SUBSET (0..n), S # {}
  PROVE  Max(S) \in S
<1> DEFINE Rest == {n - s : s \in S}
<1>1. Rest \subseteq Nat /\ Rest # {}
  <2>1. \A s \in S : n - s \in Nat
    OBVIOUS
  <2>2. PICK s \in S : TRUE
    OBVIOUS
  <2>3. n - s \in Rest
    BY <2>2
  <2> QED
    BY <2>1, <2>3
<1>2. PICK r \in Rest : \A q \in Rest : ~ (<<q, r>> \in OpToRel(<, Nat))
  <2>1. IsWellFoundedOn(OpToRel(<, Nat), Nat)
    BY NatLessThanWellFounded
  <2> HIDE DEF Rest
  <2> QED
    BY <1>1, <2>1, WFMin
<1>3. \A q \in Rest : ~ (q < r)
  BY <1>1, <1>2 DEF OpToRel
<1>4. PICK s \in S : r = n - s
  OBVIOUS
<1>5. \A t \in S : s >= t
  <2> TAKE t \in S
  <2>1. ~ (n - t < r)
    BY <1>3
  <2> QED
    BY <1>4, <2>1
<1> QED
  BY <1>5 DEF Max

LEMMA TagIsVersion ==
  ASSUME NEW v \in Versions
  PROVE  LatestTag(v) \in Versions \cup {0}
<1> DEFINE S == {0} \cup {t \in Tagged : t <= v}
<1>1. S \in SUBSET (0..v) /\ S # {} /\ S \subseteq Versions \cup {0} /\ v \in Nat
  <2>1. v \in Nat /\ Versions \subseteq Nat /\ Tagged \subseteq Versions
    BY CheckoutAssumption DEF Versions
  <2>2. \A t \in S : t \in 0..v /\ t \in Versions \cup {0}
    BY <2>1
  <2>3. 0 \in S
    OBVIOUS
  <2> HIDE DEF S
  <2> QED
    BY <2>1, <2>2, <2>3
<1>2. LatestTag(v) = Max(S)
  BY DEF LatestTag
<1> HIDE DEF S
<1> QED
  BY <1>1, <1>2, Greatest

\* What is offered is a version, or nothing.
LEMMA OfferedType ==
  ASSUME TreeInv
  PROVE  Offered(upstream) \in Versions \cup {NoVersion}
<1>1. LatestTag(upstream) \in Versions \cup {0}
  BY TagIsVersion DEF TreeInv
<1>2. upstream \in Nat /\ head \in Nat
  BY CheckoutAssumption DEF TreeInv, Versions
<1> QED
  BY <1>1, <1>2 DEF Offered, TreeInv

LEMMA InitTree == Init => TreeInv
BY CheckoutAssumption
   DEF Init, CheckoutInit, TreeInv, PcStates, Ended, Updating, NoUpdate, Versions

\* The kinds of step that leave the checkout and its updates alone: they move
\* one command, from anywhere, to a place outside an update.
LEMMA OtherTree ==
  ASSUME TreeInv, NEW c \in Commands, NEW l \in PcStates \ Updating,
         pc' = [pc EXCEPT ![c] = l], UNCHANGED <<code, head, fetched, upstream>>,
         UNCHANGED upd \/ upd' = [upd EXCEPT ![c] = NoUpdate]
  PROVE  TreeInv'
BY DEF TreeInv, NoUpdate

LEMMA UpdateTree ==
  ASSUME TreeInv, NEW c \in Commands, OfCheckout(c)
  PROVE  TreeInv'
<1> USE CheckoutAssumption
<1>v. Versions \subseteq Nat
  BY DEF Versions
<1>1. CASE Autostart(c)
  BY <1>1, OtherTree DEF Autostart, Goto, tree, PcStates, Updating
<1>2. CASE CheckBehind(c)
  <2>1. Offered(upstream) \in Versions \cup {NoVersion}
    BY OfferedType
  <2>2. upd' = [upd EXCEPT ![c].target = Offered(upstream)]
    BY <1>2 DEF CheckBehind
  <2>3. upd'[c].target = Offered(upstream) /\ \A d \in Commands \ {c} : upd'[d] = upd[d]
    BY <2>2 DEF TreeInv
  <2>4. upd' \in [Commands -> [target : Versions \cup {NoVersion}, before : Nat,
                               premd : {"missing", "matches", "customized"}]]
    BY <2>1, <2>2 DEF TreeInv
  <2>5. pc' \in [Commands -> PcStates]
    BY <1>2 DEF CheckBehind, Goto, Proceed, TreeInv, PcStates, Updating, Ended
  <2>6. \A d \in Commands : pc'[d] \in Updating => upd'[d].target \in Versions
    <3> TAKE d \in Commands
    <3>1. CASE d = c
      BY <1>2, <2>1, <2>3, <3>1 DEF CheckBehind, Goto, Proceed, TreeInv, Updating
    <3>2. CASE d # c
      BY <1>2, <2>3, <3>2 DEF CheckBehind, Goto, TreeInv
    <3> QED
      BY <3>1, <3>2
  <2> QED
    BY <1>2, <2>4, <2>5, <2>6 DEF CheckBehind, TreeInv
<1>3. CASE Answered(c)
  <2>1. CASE Goto(c, "look") /\ UNCHANGED upd
    BY <1>3, <2>1 DEF Answered, Goto, tree, TreeInv, PcStates, Updating
  <2>2. CASE Goto(c, Proceed(c)) /\ upd' = [upd EXCEPT ![c] = NoUpdate]
    BY <1>3, <2>2, OtherTree DEF Answered, Goto, tree, Proceed, PcStates, Updating, Ended
  <2> QED
    BY <1>3, <2>1, <2>2 DEF Answered
<1>4. CASE Look(c) \/ LookFails(c)
  <2>1. CASE pc' = [pc EXCEPT ![c] = "done"] /\ upd' = [upd EXCEPT ![c] = NoUpdate]
    BY <1>4, <2>1, OtherTree DEF Look, LookFails, tree, PcStates, Updating, Ended
  <2>2. CASE pc' = [pc EXCEPT ![c] = "stopviewer"]
             /\ upd' = [upd EXCEPT ![c].before = head, ![c].premd = PreState]
    <3>1. PreState \in {"missing", "matches", "customized"}
      BY DEF PreState
    <3>2. pc[c] = "look" /\ UNCHANGED tree /\ UNCHANGED code
      BY <1>4 DEF Look, LookFails
    <3>3. head \in Nat
      BY <1>v DEF TreeInv
    <3> DEFINE Update1 == [target : Versions \cup {NoVersion}, before : Nat,
                           premd : {"missing", "matches", "customized"}]
    <3> DEFINE marked == [upd EXCEPT ![c].before = head]
    <3>6. upd' = [marked EXCEPT ![c].premd = PreState]
      BY <2>2
    <3>7. marked \in [Commands -> Update1] /\ \A d \in Commands : marked[d].target = upd[d].target
      BY <3>3 DEF TreeInv
    <3> HIDE DEF marked
    <3>4. upd' \in [Commands -> Update1]
      BY <3>1, <3>6, <3>7
    <3>5. \A d \in Commands : upd'[d].target = upd[d].target
      BY <3>6, <3>7
    <3> QED
      BY <2>2, <3>2, <3>4, <3>5 DEF TreeInv, tree, PcStates, Updating
  <2> QED
    BY <1>4, <2>1, <2>2 DEF Look, LookFails, Goto
<1>5. CASE StopViewer(c)
  BY <1>5 DEF StopViewer, Goto, tree, TreeInv, PcStates, Updating
<1>6. CASE Merge(c)
  <2>1. Resolved(upd[c].target) \in Versions
    BY <1>6 DEF Merge, Resolved, TreeInv, Updating
  <2>2. Max({head, Resolved(upd[c].target)}) \in {head, Resolved(upd[c].target)}
    <3> DEFINE m == Resolved(upd[c].target)
               S == {head, m}
    <3>1. S \in SUBSET (0..MaxVersion) /\ S # {}
      BY <2>1 DEF TreeInv, Versions
    <3> HIDE DEF S
    <3>2. Max(S) \in S
      BY <3>1, Greatest
    <3> QED
      BY <3>2 DEF S
  <2>3. head' \in Versions
    BY <1>6, <2>1, <2>2 DEF Merge, TreeInv
  <2>4. PICK l \in {"done", "propagate"} : pc' = [pc EXCEPT ![c] = l]
    BY <1>6 DEF Merge, Goto
  <2> QED
    BY <1>6, <2>3, <2>4 DEF Merge, TreeInv, PcStates, Updating, Ended
<1>7. CASE PropagateMd(c)
  BY <1>7, OtherTree DEF PropagateMd, Goto, PcStates, Updating
<1>8. CASE Provision(c) \/ ProvisionFails(c) \/ MergeFails(c) \/ CheckFails(c)
  BY <1>8, OtherTree DEF Provision, ProvisionFails, MergeFails, CheckFails, Goto, tree,
                         Proceed, PcStates, Updating, Ended
<1> QED
  BY <1>1, <1>2, <1>3, <1>4, <1>5, <1>6, <1>7, <1>8 DEF OfCheckout, Update, UpdateFails

LEMMA DatabaseTree ==
  ASSUME TreeInv, NEW c \in Commands, OfDatabase(c)
  PROVE  TreeInv'
<1>1. UNCHANGED <<code, head, fetched, upstream, upd>>
  BY DEF OfDatabase, tree
<1>2. PICK l \in {"backup", "survey", "autostart", "migrate", "failed"} :
        pc' = [pc EXCEPT ![c] = l]
  BY DEF OfDatabase, OpenDatabase, Connect, BackUp, Migrate, MigrationFails, Opened, Goto
<1> QED
  BY <1>1, <1>2, OtherTree DEF PcStates, Opening, Updating, Ended

LEMMA ImagesTree ==
  ASSUME TreeInv, NEW c \in Commands, OfImages(c)
  PROVE  TreeInv'
<1>1. UNCHANGED <<code, head, fetched, upstream, upd>>
  BY DEF OfImages, tree
<1>2. CASE OrphanBuilds(c)
  BY <1>1, <1>2 DEF OrphanBuilds, TreeInv
<1>3. CASE ~ OrphanBuilds(c)
  <2>1. PICK l \in Building \cup {"confirm", "remove", "prepare", "done", "failed"} :
          pc' = [pc EXCEPT ![c] = l]
    <3>1. CASE EnsureImages(c)
      BY <3>1 DEF EnsureImages, LockBuild, AskBase, AskBaseOf, BuildBase, Restamp, AskProject,
                  AskProjectOf, BuildProject, UnlockBuild, Goto, Building
    <3>2. CASE EnsureFails(c) \/ BuildFails(c)
      BY <3>2 DEF EnsureFails, BuildFails, DockerDown, AskBaseFails, AskBaseOf, RestampFails,
                  AskProjectFails, AskProjectOf, Goto, Building
    <3>3. CASE CleanImages(c)
      BY <3>3 DEF CleanImages, Survey, Confirmed, RemoveImage, Goto
    <3> QED
      BY <1>3, <3>1, <3>2, <3>3 DEF OfImages
  <2> QED
    BY <1>1, <2>1, OtherTree DEF PcStates, Building, Updating, Ended
<1> QED
  BY <1>2, <1>3

LEMMA NextTree == TreeInv /\ [Next]_vars => TreeInv'
<1> SUFFICES ASSUME TreeInv, [Next]_vars PROVE TreeInv'
  OBVIOUS
<1> USE CheckoutAssumption
<1>1. ASSUME NEW c \in Commands, Start(c) PROVE TreeInv'
  BY <1>1 DEF Start, Goto, tree, TreeInv, PcStates, Updating
<1>2. ASSUME NEW c \in Commands, Prepare(c) PROVE TreeInv'
  BY <1>2, OtherTree DEF Prepare, Goto, PcStates, Updating
<1>3. ASSUME NEW c \in Commands, RunAgent(c) PROVE TreeInv'
  BY <1>3, OtherTree DEF RunAgent, Goto, tree, PcStates, Updating, Ended
<1>4. ASSUME NEW c \in Commands, AgentExits(c) PROVE TreeInv'
  <2>1. CASE pc[c] = "running"
    BY <1>4, <2>1, OtherTree DEF AgentExits, tree, PcStates, Updating, Ended
  <2>2. CASE pc[c] # "running"
    <3>1. pc' = pc
      BY <1>4, <2>2 DEF AgentExits, TreeInv
    <3> QED
      BY <1>4, <3>1 DEF AgentExits, tree, TreeInv
  <2> QED
    BY <2>1, <2>2
<1>5. ASSUME NEW c \in Commands, Kill(c) PROVE TreeInv'
  BY <1>5, OtherTree DEF Kill, Goto, tree, PcStates, Updating, Ended
<1>6. CASE (Commit \/ EditMd) /\ UNCHANGED <<dbVars, imageVars>>
  BY <1>6 DEF Commit, EditMd, TreeInv, Versions
<1>7. CASE UNCHANGED vars
  BY <1>7 DEF vars, checkoutVars, tree, TreeInv
<1> QED
  BY <1>1, <1>2, <1>3, <1>4, <1>5, <1>6, <1>7, UpdateTree, DatabaseTree, ImagesTree DEF Next
-----------------------------------------------------------------------------
(* The database.                                                           *)

\* The tables of the database are those of the versions up to its own; a
\* command on its way through the migrations has read a version that was the
\* database's and is not past it, and if it still is, what it is about to
\* change has been backed up.
DatabaseInv ==
  /\ userVersion \in Nat /\ schema = 1..userVersion
  /\ current \in [Commands -> Nat] /\ due \in [Commands -> Nat]
  /\ \A c \in Commands :
       /\ pc[c] \notin {"open"} \cup Opening \cup Ended => due[c] <= userVersion
       /\ pc[c] \in Opening => current[c] < due[c] /\ current[c] <= userVersion
       /\ pc[c] = "migrate" /\ current[c] = userVersion /\ userVersion > 0 =>
            [name |-> userVersion, holds |-> schema] \in backups

LEMMA InitDatabase == Init => DatabaseInv
<1> SUFFICES ASSUME Init PROVE DatabaseInv
  OBVIOUS
<1>1. Scripts[1] \in Nat
  BY CheckoutAssumption, MigrationsAssumption DEF Versions
<1> QED
  BY <1>1 DEF Init, CheckoutInit, MigrationsInit, DatabaseInv, Opening, Ended

\* Any other step of a command takes it to its end, or moves it where it has
\* the database behind it, or does not need it, or has yet to open it.
Elsewhere(c) ==
  \/ pc'[c] = pc[c]
  \/ pc'[c] \in Ended
  \/ pc[c] \notin {"open"} \cup Opening \cup Ended /\ pc'[c] \notin Opening

LEMMA ElsewhereDatabase ==
  ASSUME TreeInv, DatabaseInv, UNCHANGED dbVars, \A c \in Commands : Elsewhere(c)
  PROVE  DatabaseInv'
BY DEF DatabaseInv, dbVars, Elsewhere, Opening, Ended

LEMMA OneElsewhere ==
  ASSUME TreeInv, DatabaseInv, UNCHANGED dbVars, NEW c \in Commands, NEW l,
         pc' = [pc EXCEPT ![c] = l],
         l \in Ended \/ (pc[c] \notin {"open"} \cup Opening \cup Ended /\ l \notin Opening)
  PROVE  DatabaseInv'
<1>1. \A d \in Commands : Elsewhere(d)
  BY DEF Elsewhere, TreeInv
<1> QED
  BY <1>1, ElsewhereDatabase

LEMMA ConnectKeeps ==
  ASSUME TreeInv, DatabaseInv, NEW c \in Commands, Connect(c)
  PROVE  DatabaseInv'
<1>1. Scripts[head] \in Nat
  BY MigrationsAssumption DEF TreeInv
<1>2. Opened(c) \in {"survey", "autostart"}
  BY DEF Opened
<1>3. \A d \in Commands \ {c} : pc'[d] = pc[d] /\ current'[d] = current[d] /\ due'[d] = due[d]
  BY DEF Connect, Goto, TreeInv, DatabaseInv
<1>4. /\ current'[c] = userVersion /\ due'[c] = Scripts[head]
      /\ pc'[c] = IF userVersion < Scripts[head] THEN "backup" ELSE Opened(c)
      /\ current' \in [Commands -> Nat] /\ due' \in [Commands -> Nat]
      /\ UNCHANGED <<schema, userVersion, backups>>
  BY <1>1 DEF Connect, Goto, TreeInv, DatabaseInv
<1>5. ASSUME NEW d \in Commands
      PROVE  /\ pc'[d] \notin {"open"} \cup Opening \cup Ended => due'[d] <= userVersion'
             /\ pc'[d] \in Opening => current'[d] < due'[d] /\ current'[d] <= userVersion'
             /\ pc'[d] = "migrate" /\ current'[d] = userVersion' /\ userVersion' > 0 =>
                  [name |-> userVersion', holds |-> schema'] \in backups'
  <2>1. CASE d = c
    BY <1>1, <1>2, <1>4, <2>1 DEF DatabaseInv, Opening, Ended
  <2>2. CASE d # c
    BY <1>3, <1>4, <2>2 DEF DatabaseInv
  <2> QED
    BY <2>1, <2>2
<1> QED
  BY <1>4, <1>5 DEF DatabaseInv

LEMMA BackUpKeeps ==
  ASSUME TreeInv, DatabaseInv, NEW c \in Commands, BackUp(c)
  PROVE  DatabaseInv'
<1>1. /\ \A d \in Commands \ {c} : pc'[d] = pc[d]
      /\ pc[c] = "backup" /\ pc'[c] = "migrate"
      /\ UNCHANGED <<schema, userVersion, current, due>>
  BY DEF BackUp, Goto, TreeInv
<1>2. backups \subseteq backups'
  BY DEF BackUp
<1>3. current[c] = userVersion /\ userVersion > 0 =>
        [name |-> userVersion, holds |-> schema] \in backups'
  <2> SUFFICES ASSUME current[c] = userVersion, userVersion > 0
               PROVE  [name |-> userVersion, holds |-> schema] \in backups'
    OBVIOUS
  <2>1. 1 \in schema
    BY DEF DatabaseInv
  <2> QED
    BY <2>1 DEF BackUp
<1> QED
  BY <1>1, <1>2, <1>3 DEF DatabaseInv, Opening, Ended

\* Only a command that reads the database's own version can apply a script.
LEMMA MigrateKeeps ==
  ASSUME TreeInv, DatabaseInv, NEW c \in Commands, Migrate(c)
  PROVE  DatabaseInv'
<1>1. CASE current[c] + 1 \in schema
  BY <1>1, OneElsewhere DEF Migrate, Goto, dbVars, Ended
<1>2. CASE current[c] + 1 \notin schema
  <2>1. current[c] = userVersion
    BY <1>2 DEF Migrate, DatabaseInv, Opening
  <2>2. /\ schema' = 1..(userVersion + 1) /\ userVersion' = userVersion + 1
        /\ UNCHANGED <<backups, due>>
        /\ current' = [current EXCEPT ![c] = userVersion + 1]
        /\ pc' = [pc EXCEPT ![c] = IF userVersion + 1 < due[c] THEN "backup" ELSE Opened(c)]
    <3>1. (1..userVersion) \cup {userVersion + 1} = 1..(userVersion + 1)
      BY DEF DatabaseInv
    <3>2. /\ schema' = schema \cup {userVersion + 1} /\ userVersion' = userVersion + 1
          /\ UNCHANGED <<backups, due>>
          /\ current' = [current EXCEPT ![c] = current[c] + 1]
          /\ pc' = [pc EXCEPT ![c] = IF userVersion + 1 < due[c] THEN "backup" ELSE Opened(c)]
      BY <1>2, <2>1 DEF Migrate, Goto
    <3> QED
      BY <2>1, <3>1, <3>2 DEF DatabaseInv
  <2>3. Opened(c) \in {"survey", "autostart"}
    BY DEF Opened
  <2>4. /\ \A d \in Commands \ {c} : pc'[d] = pc[d] /\ current'[d] = current[d]
        /\ current'[c] = userVersion + 1 /\ current' \in [Commands -> Nat]
        /\ pc'[c] = IF userVersion + 1 < due[c] THEN "backup" ELSE Opened(c)
    BY <2>2 DEF TreeInv, DatabaseInv
  <2> QED
    BY <2>2, <2>3, <2>4 DEF DatabaseInv, Opening, Ended
<1> QED
  BY <1>1, <1>2

LEMMA NextDatabase == TreeInv /\ DatabaseInv /\ [Next]_vars => DatabaseInv'
<1> SUFFICES ASSUME TreeInv, DatabaseInv, [Next]_vars PROVE DatabaseInv'
  OBVIOUS
<1> USE DEF Opening, Ended
<1>1. ASSUME NEW c \in Commands, Start(c) PROVE DatabaseInv'
  BY <1>1, OneElsewhere DEF Start, Goto
<1>2. ASSUME NEW c \in Commands, OfCheckout(c) PROVE DatabaseInv'
  <2>1. UNCHANGED dbVars
    BY <1>2 DEF OfCheckout
  <2>2. PICK l : /\ pc' = [pc EXCEPT ![c] = l] /\ l \notin {"backup", "migrate"}
                 /\ pc[c] \in Updating \cup {"autostart", "update", "propagate", "provision"}
    BY <1>2 DEF OfCheckout, Autostart, Update, UpdateFails, CheckBehind, CheckFails, Answered,
                Look, LookFails, StopViewer, Merge, MergeFails, PropagateMd, Provision,
                ProvisionFails, Goto, Proceed, Updating
  <2> QED
    BY <2>1, <2>2, OneElsewhere DEF Updating
<1>3. ASSUME NEW c \in Commands, OfDatabase(c) PROVE DatabaseInv'
  <2>1. CASE MigrationFails(c)
    BY <2>1, OneElsewhere DEF MigrationFails, Goto
  <2> QED
    BY <1>3, <2>1, ConnectKeeps, BackUpKeeps, MigrateKeeps DEF OfDatabase, OpenDatabase
<1>4. ASSUME NEW c \in Commands, OfImages(c) PROVE DatabaseInv'
  <2>1. CASE OrphanBuilds(c)
    <3>1. UNCHANGED <<pc, dbVars>>
      BY <1>4, <2>1 DEF OfImages, OrphanBuilds, EnsureFails, BuildFails
    <3> QED
      BY <3>1, ElsewhereDatabase DEF Elsewhere
  <2>2. CASE ~ OrphanBuilds(c)
    <3>1. UNCHANGED dbVars
      BY <1>4 DEF OfImages
    <3>2. PICK l : /\ pc' = [pc EXCEPT ![c] = l] /\ l \notin {"backup", "migrate"}
                   /\ pc[c] \in Building \cup {"image", "survey", "confirm", "remove"}
      <4>1. CASE EnsureImages(c)
        BY <4>1 DEF EnsureImages, LockBuild, AskBase, AskBaseOf, BuildBase, Restamp, AskProject,
                    AskProjectOf, BuildProject, UnlockBuild, Goto, Building
      <4>2. CASE EnsureFails(c) \/ BuildFails(c)
        BY <4>2 DEF EnsureFails, BuildFails, DockerDown, AskBaseFails, AskBaseOf, RestampFails,
                    AskProjectFails, AskProjectOf, Goto, Building
      <4>3. CASE CleanImages(c)
        BY <4>3 DEF CleanImages, Survey, Confirmed, RemoveImage, Goto
      <4> QED
        BY <1>4, <2>2, <4>1, <4>2, <4>3 DEF OfImages
    <3> QED
      BY <3>1, <3>2, OneElsewhere DEF Building
  <2> QED
    BY <2>1, <2>2
<1>5. ASSUME NEW c \in Commands, Prepare(c) \/ RunAgent(c) \/ Kill(c) PROVE DatabaseInv'
  <2>1. UNCHANGED dbVars
    BY <1>5 DEF Prepare, RunAgent, Kill
  <2>2. PICK l : /\ pc' = [pc EXCEPT ![c] = l]
                 /\ \/ l = "killed"
                    \/ l \in {"ready", "running", "failed"} /\ pc[c] \in {"prepare", "ready"}
    <3>1. CASE Prepare(c)
      BY <3>1 DEF Prepare, Goto
    <3>2. CASE RunAgent(c)
      BY <3>2 DEF RunAgent, Goto
    <3>3. CASE Kill(c)
      BY <3>3 DEF Kill, Goto
    <3> QED
      BY <1>5, <3>1, <3>2, <3>3
  <2> QED
    BY <2>1, <2>2, OneElsewhere
<1>6. ASSUME NEW c \in Commands, AgentExits(c) PROVE DatabaseInv'
  <2>1. UNCHANGED dbVars /\ \A d \in Commands : Elsewhere(d)
    BY <1>6 DEF AgentExits, Elsewhere, TreeInv
  <2> QED
    BY <2>1, ElsewhereDatabase
<1>7. CASE (Commit \/ EditMd) /\ UNCHANGED <<dbVars, imageVars>>
  BY <1>7, ElsewhereDatabase DEF Commit, EditMd, Elsewhere
<1>8. CASE UNCHANGED vars
  BY <1>8, ElsewhereDatabase DEF vars, checkoutVars, Elsewhere
<1> QED
  BY <1>1, <1>2, <1>3, <1>4, <1>5, <1>6, <1>7, <1>8 DEF Next

\* DatabaseConverges holds: the stamped version is the version of the tables, a
\* command past opening finds every table of its own scripts, and what a
\* migration changes was backed up, for any number of commands that open the
\* database at once and fail anywhere (MigrationRunner.run).
THEOREM DatabaseConvergesHolds == Spec => []DatabaseConverges
<1>1. DatabaseInv => DatabaseConverges
  BY DEF DatabaseInv, DatabaseConverges, Opening, Ended
<1> QED
  BY <1>1, InitTree, InitDatabase, NextTree, NextDatabase, PTL DEF Spec
-----------------------------------------------------------------------------
(* The images.                                                             *)

Reasons == {"forced", "missing", "unstamped", "iteration", "base", "current"}
BaseExists == \E i \in images : i.tag = Base

\* A tag names one image, no cleanup has the base in its scope, and the base is
\* there for whoever is about to build on it.
HostInv ==
  /\ images \in SUBSET Image /\ IsFiniteSet(images)
  /\ \A i, j \in images : i.tag = j.tag /\ i.tag \in Tags => i = j
  /\ registered \subseteq Projects
  /\ base \in [Commands -> Image \cup {NoImage}]
  /\ why \in [Commands -> [reason : Reasons, rebuilt : BOOLEAN]]
  /\ orphan \subseteq Commands \X Tags
  /\ scope \in [Commands -> SUBSET Image]
  /\ \A c \in Commands : \A row \in scope[c] : row.tag # Base
  /\ \A c \in Commands :
       /\ pc[c] \in {"askproject", "buildproject"} => Target[c] # Base
       /\ pc[c] \in {"restamp", "askproject", "buildproject"} => BaseExists
       /\ \A t \in Projects : <<c, t>> \in orphan => BaseExists

\* What an image is labelled with is what it was built from, unless an update or
\* a docker that did not answer came between.
LabelsInv ==
  /\ slips \cap {"mixed", "orphan"} = {} =>
       \A i \in images : i.tag = Base /\ i.iter # NoLabel => i.recipe = i.iter
  /\ slips \cap {"unknown", "orphan"} = {} =>
       \A i \in images : i.tag \in Projects /\ i.baseId # NoLabel => i.parent = i.baseId

UnderLock(c) == pc[c] \in Building => buildLock = c

\* From its build of the base on, or its finding it current, a builder knows the
\* base that stands.
KnowsBase(c) ==
  "orphan" \notin slips =>
    /\ pc[c] \in {"buildbase", "restamp"} => why[c].rebuilt
    /\ pc[c] \in {"restamp", "askproject", "buildproject"} =>
         Stamped(Base).iter = Iteration[code[c]]
    /\ pc[c] \in {"askproject", "buildproject"} =>
         base[c] = Stamped(Base) \/ (base[c] = NoImage /\ why[c].rebuilt)

Ready(c) == pc[c] = "built" /\ slips \cap {"mixed", "unknown", "orphan", "removed"} = {} => Fresh(c)

\* What was stale when it was asked about is stale when it is built.
BaseIsDue(c) ==
  BaseReason(Stamped(Base), Iteration[code[c]], "none", FALSE) # "current"
ProjectIsDue(c) ==
  ProjectReason(Stamped(Target[c]), Stamped(Base), why[c].rebuilt, "none") # "current"
Due(c) ==
  why[c].reason # "forced" /\ slips \cap {"unasked", "unknown", "orphan"} = {} =>
    /\ pc[c] = "buildbase" => BaseIsDue(c)
    /\ pc[c] = "buildproject" => ProjectIsDue(c)

BuilderInv == \A c \in Commands : UnderLock(c) /\ KnowsBase(c) /\ Ready(c) /\ Due(c)

LEMMA StampedIs ==
  ASSUME HostInv, NEW i \in images, i.tag \in Tags
  PROVE  Stamped(i.tag) = i
BY DEF HostInv, Stamped

LEMMA StampedType ==
  ASSUME HostInv, NEW tag \in Tags
  PROVE  /\ Stamped(tag) \in Image \cup {NoImage}
         /\ Stamped(tag) # NoImage <=> \E i \in images : i.tag = tag
         /\ Stamped(tag) # NoImage => Stamped(tag) \in images /\ Stamped(tag).tag = tag
<1>1. CASE \E i \in images : i.tag = tag
  <2>1. PICK i \in images : i.tag = tag
    BY <1>1
  <2>2. Stamped(tag) = i
    BY <2>1, StampedIs
  <2> QED
    BY <2>1, <2>2, FoundAssumption DEF HostInv
<1>2. CASE ~ \E i \in images : i.tag = tag
  BY <1>2 DEF Stamped
<1> QED
  BY <1>1, <1>2

LEMMA StampedSame ==
  ASSUME HostInv, HostInv', NEW tag \in Tags,
         \A i \in Image : i.tag = tag => (i \in images' <=> i \in images)
  PROVE  Stamped(tag)' = Stamped(tag)
<1>1. CASE \E i \in images : i.tag = tag
  <2>1. PICK i \in images : i.tag = tag
    BY <1>1
  <2>2. i \in images' /\ Stamped(tag) = i
    BY <2>1, StampedIs DEF HostInv
  <2>3. Stamped(tag)' = i
    BY <2>1, <2>2 DEF HostInv, Stamped
  <2> QED
    BY <2>2, <2>3
<1>2. CASE ~ \E i \in images : i.tag = tag
  <2>1. ~ \E i \in images' : i.tag = tag
    BY <1>2 DEF HostInv
  <2> QED
    BY <1>2, <2>1 DEF Stamped
<1> QED
  BY <1>1, <1>2

LEMMA FiniteImage ==
  ASSUME NEW S, IsFiniteSet(S), NEW g, DOMAIN g = S
  PROVE  IsFiniteSet({g[x] : x \in S})
<1> DEFINE T == {g[x] : x \in S}
           h == [x \in S |-> g[x]]
<1>1. h \in Surjection(S, T)
  BY DEF Surjection
<1> HIDE DEF T, h
<1> QED
  BY <1>1, FS_Surjection DEF T

\* An image that loses its tag, and what else it loses when it is removed.
LEMMA Retag ==
  ASSUME NEW i \in Image, NEW t
  PROVE  [i EXCEPT !.tag = t] =
           [id |-> i.id, tag |-> t, recipe |-> i.recipe, parent |-> i.parent,
            iter |-> i.iter, baseId |-> i.baseId, name |-> i.name]
BY DEF Image

LEMMA Unname ==
  ASSUME NEW i \in Image
  PROVE  [i EXCEPT !.name = NoLabel] =
           [id |-> i.id, tag |-> i.tag, recipe |-> i.recipe, parent |-> i.parent,
            iter |-> i.iter, baseId |-> i.baseId, name |-> NoLabel]
BY DEF Image

LEMMA Unparent ==
  ASSUME NEW i \in Image
  PROVE  [i EXCEPT !.parent = 0] =
           [id |-> i.id, tag |-> i.tag, recipe |-> i.recipe, parent |-> 0,
            iter |-> i.iter, baseId |-> i.baseId, name |-> i.name]
BY DEF Image

LEMMA RemovedIsUntagged ==
  ASSUME NEW i \in Image
  PROVE  Removed(i) \in Image /\ Removed(i).tag = Untagged
<1> DEFINE bare == [i EXCEPT !.tag = Untagged]
           nameless == [bare EXCEPT !.name = NoLabel]
<1>1. bare \in Image /\ bare.tag = Untagged
  <2> HIDE DEF bare
  <2>1. bare = [id |-> i.id, tag |-> Untagged, recipe |-> i.recipe, parent |-> i.parent,
                iter |-> i.iter, baseId |-> i.baseId, name |-> i.name]
    BY Retag DEF bare
  <2> QED
    BY <2>1, ImagesAssumption DEF Image
<1>2. Removed(i) = [nameless EXCEPT !.parent = 0]
  BY DEF Removed
<1> HIDE DEF bare
<1>3. nameless \in Image /\ nameless.tag = Untagged
  BY <1>1, Unname DEF Image
<1> HIDE DEF nameless
<1> QED
  BY <1>2, <1>3, Unparent, ImagesAssumption DEF Image

\* The tag of a build goes to the new image, and no other tag moves.
LEMMA RetaggedImages ==
  ASSUME HostInv, NEW new \in Image, new.tag \in Tags, images' = Retagged(new)
  PROVE  /\ images' \in SUBSET Image /\ IsFiniteSet(images')
         /\ \A i, j \in images' : i.tag = j.tag /\ i.tag \in Tags => i = j
         /\ new \in images' /\ \A i \in images' : i.tag = new.tag => i = new
         /\ \A i \in Image : i.tag \in Tags \ {new.tag} => (i \in images' <=> i \in images)
<1> DEFINE g == [i \in images |-> [i EXCEPT !.tag = IF i.tag = new.tag THEN Untagged ELSE i.tag]]
           kept == {g[i] : i \in images}
<1>1. images' = kept \cup {new}
  BY DEF Retagged
<1>2. IsFiniteSet(images')
  <2>1. DOMAIN g = images /\ IsFiniteSet(images)
    BY DEF HostInv
  <2> HIDE DEF g
  <2>2. IsFiniteSet(kept)
    BY <2>1, FiniteImage
  <2> HIDE DEF kept
  <2> QED
    BY <1>1, <2>2, FS_AddElement
<1>3. \A i \in images :
        /\ g[i] \in Image
        /\ i.tag = new.tag => g[i].tag = Untagged
        /\ i.tag # new.tag => g[i] = i
  <2> TAKE i \in images
  <2> DEFINE t == IF i.tag = new.tag THEN Untagged ELSE i.tag
  <2>1. i \in Image
    BY DEF HostInv
  <2>2. g[i] = [i EXCEPT !.tag = t]
    OBVIOUS
  <2> HIDE DEF g, t
  <2>3. g[i] = [id |-> i.id, tag |-> t, recipe |-> i.recipe, parent |-> i.parent,
                iter |-> i.iter, baseId |-> i.baseId, name |-> i.name]
    BY <2>1, <2>2, Retag
  <2> QED
    BY <2>1, <2>3 DEF Image, t
<1> HIDE DEF g
<1>4. \A i \in kept : i.tag \in Tags => i \in images /\ i.tag # new.tag
  BY <1>3, ImagesAssumption
<1>5. \A i \in images : i.tag # new.tag => i \in kept
  BY <1>3
<1>6. kept \subseteq Image
  BY <1>3
<1> HIDE DEF kept
<1> QED
  BY <1>1, <1>2, <1>4, <1>5, <1>6 DEF HostInv

\* A removal takes images that have a tag a cleanup was shown, never the base's.
Gone(row) == {i \in Named(row) : Removable(i)}

LEMMA RemovedImages ==
  ASSUME HostInv, NEW row \in Image, row.tag # Base,
         images' = (images \ Gone(row)) \cup {Removed(i) : i \in Gone(row)}
  PROVE  /\ images' \in SUBSET Image /\ IsFiniteSet(images')
         /\ \A i, j \in images' : i.tag = j.tag /\ i.tag \in Tags => i = j
         /\ \A i \in Image : i.tag \in Tags /\ i.tag # row.tag => (i \in images' <=> i \in images)
         /\ \A i \in images' : i.tag \in Tags => i \in images
         /\ \A i \in Image : i.tag \in Tags /\ i \in images /\ i \notin images' => i \in Gone(row)
<1> DEFINE g == [i \in Gone(row) |-> Removed(i)]
           bare == {g[i] : i \in Gone(row)}
           rest == images \ Gone(row)
<1>1. images' = rest \cup bare
  OBVIOUS
<1>2. Gone(row) \subseteq images
  BY DEF Gone, Named
<1>3. IsFiniteSet(images')
  <2>1. IsFiniteSet(Gone(row)) /\ IsFiniteSet(rest)
    BY <1>2, FS_Subset DEF HostInv
  <2>2. DOMAIN g = Gone(row)
    OBVIOUS
  <2> HIDE DEF g, rest
  <2>3. IsFiniteSet(bare)
    BY <2>1, <2>2, FiniteImage
  <2> HIDE DEF bare
  <2> QED
    BY <1>1, <2>1, <2>3, FS_Union
<1>4. \A i \in bare : i \in Image /\ i.tag = Untagged
  <2>1. \A i \in Gone(row) : g[i] = Removed(i) /\ i \in Image
    BY <1>2 DEF HostInv
  <2> HIDE DEF g
  <2> QED
    BY <2>1, RemovedIsUntagged
<1>5. \A i \in Gone(row) : i.tag \in Tags => i.tag = row.tag
  BY ImagesAssumption DEF Gone, Named
<1> HIDE DEF bare
<1> QED
  BY <1>1, <1>2, <1>3, <1>4, <1>5, ImagesAssumption DEF HostInv

\* The image of the base, and of a project on the base that stands.
LEMMA BaseImageType ==
  ASSUME TreeInv, HostInv, NEW c \in Commands, FreshId <= MaxImages
  PROVE  BaseImage(c) \in Image /\ BaseImage(c).tag = Base
<1>1. FreshId \in 1..MaxImages
  BY FS_CardinalityType, ImagesAssumption DEF HostInv, FreshId
<1>2. Iteration[head] \in Nat /\ Iteration[code[c]] \in Nat
  BY ImagesAssumption DEF TreeInv
<1> QED
  BY <1>1, <1>2, ImagesAssumption DEF BaseImage, Image, Labels, Tags

LEMMA ProjectImageType ==
  ASSUME TreeInv, HostInv, NEW c \in Commands, FreshId <= MaxImages, BaseExists
  PROVE  ProjectImage(c) \in Image /\ ProjectImage(c).tag = Target[c]
<1>1. FreshId \in 1..MaxImages
  BY FS_CardinalityType, ImagesAssumption DEF HostInv, FreshId
<1>2. Iteration[code[c]] \in Nat /\ Target[c] \in Tags
  BY ImagesAssumption DEF TreeInv
<1>3. Stamped(Base) \in Image
  BY StampedType DEF BaseExists, Tags, HostInv
<1>4. (IF base[c] = NoImage THEN Blank ELSE base[c].id) \in Labels
  BY DEF HostInv, Image, Labels
<1> HIDE DEF FreshId
<1> QED
  BY <1>1, <1>2, <1>3, <1>4 DEF ProjectImage, Image

Types ==
  /\ base \in [Commands -> Image \cup {NoImage}]
  /\ why \in [Commands -> [reason : Reasons, rebuilt : BOOLEAN]]
  /\ registered \subseteq Projects
  /\ orphan \subseteq Commands \X Tags
  /\ scope \in [Commands -> SUBSET Image]
  /\ \A c \in Commands : \A row \in scope[c] : row.tag # Base

LEMMA InitHost == Init => HostInv /\ LabelsInv /\ BuilderInv
<1> SUFFICES ASSUME Init PROVE HostInv /\ LabelsInv /\ BuilderInv
  OBVIOUS
<1>1. \A c \in Commands : pc[c] \in {"idle", "done"}
  BY DEF Init, CheckoutInit
<1>2. PICK found \in FoundImages : images = found
  BY DEF Init, ImagesInit
<1>3. HostInv
  BY <1>1, <1>2, FoundAssumption, ImagesAssumption
     DEF Init, ImagesInit, HostInv, Reasons, Tags
<1>4. LabelsInv
  BY <1>2, FoundAssumption DEF LabelsInv
<1>5. BuilderInv
  BY <1>1 DEF BuilderInv, UnderLock, KnowsBase, Ready, Due, Building
<1> QED
  BY <1>3, <1>4, <1>5

\* Nothing is asked of a command that does not build.
LEMMA NoBuilder ==
  ASSUME NEW c, pc'[c] \notin Building
  PROVE  (UnderLock(c) /\ KnowsBase(c) /\ Ready(c) /\ Due(c))'
BY DEF UnderLock, KnowsBase, Ready, Due, Building

\* Who builds, builds alone.
LEMMA OneBuilder ==
  ASSUME TreeInv, BuilderInv, NEW c \in Commands, pc[c] \in Building, NEW l,
         pc' = [pc EXCEPT ![c] = l]
  PROVE  /\ pc'[c] = l
         /\ \A d \in Commands \ {c} : pc'[d] = pc[d] /\ pc'[d] \notin Building
BY DEF TreeInv, BuilderInv, UnderLock

LEMMA StampedUnchanged ==
  ASSUME UNCHANGED images
  PROVE  \A tag : Stamped(tag)' = Stamped(tag)
BY DEF Stamped

\* A step that leaves the images and the builders alone, whatever else it does.
LEMMA Aside ==
  ASSUME TreeInv, HostInv, LabelsInv, BuilderInv, Types',
         UNCHANGED <<images, slips>>,
         \A c \in Commands : pc'[c] \in Building =>
            /\ pc'[c] = pc[c] /\ code'[c] = code[c] /\ base'[c] = base[c] /\ why'[c] = why[c]
            /\ buildLock' = buildLock,
         \A c \in Commands, t \in Projects : <<c, t>> \in orphan' => BaseExists
  PROVE  HostInv' /\ LabelsInv' /\ BuilderInv'
<1>1. HostInv'
  BY DEF HostInv, Types, BaseExists, Building
<1>2. LabelsInv'
  BY DEF LabelsInv
<1>3. ASSUME NEW c \in Commands PROVE (UnderLock(c) /\ KnowsBase(c) /\ Ready(c) /\ Due(c))'
  <2>1. CASE pc'[c] \notin Building
    BY <2>1, NoBuilder
  <2>2. CASE pc'[c] \in Building
    <3>1. /\ pc'[c] = pc[c] /\ code'[c] = code[c] /\ base'[c] = base[c] /\ why'[c] = why[c]
          /\ buildLock' = buildLock
      BY <2>2
    <3>2. Stamped(Base)' = Stamped(Base) /\ Stamped(Target[c])' = Stamped(Target[c])
      BY StampedUnchanged
    <3>3. UnderLock(c) /\ KnowsBase(c) /\ Ready(c) /\ Due(c)
      BY DEF BuilderInv
    <3>4. UnderLock(c)' /\ KnowsBase(c)'
      BY <3>1, <3>2, <3>3 DEF UnderLock, KnowsBase
    <3>5. Ready(c)'
      BY <3>1, <3>2, <3>3 DEF Ready, Fresh
    <3>6. Due(c)'
      BY <3>1, <3>2, <3>3 DEF Due, BaseIsDue, ProjectIsDue
    <3> QED
      BY <3>4, <3>5, <3>6
  <2> QED
    BY <2>1, <2>2
<1> QED
  BY <1>1, <1>2, <1>3 DEF BuilderInv

HostOK == HostInv /\ LabelsInv /\ BuilderInv

LEMMA ReasonTypes ==
  /\ \A stamp, iteration, force, isTarget : BaseReason(stamp, iteration, force, isTarget) \in Reasons
  /\ \A stamp, bstamp, baseRebuilt, force :
       ProjectReason(stamp, bstamp, baseRebuilt, force) \in Reasons
BY DEF BaseReason, ProjectReason, Reasons

LEMMA LockBuildKeeps ==
  ASSUME TreeInv, HostOK, NEW c \in Commands, LockBuild(c), UNCHANGED code
  PROVE  HostOK'
<1>1. \A d \in Commands : pc[d] \notin Building
  BY ImagesAssumption DEF LockBuild, HostOK, BuilderInv, UnderLock
<1>2. /\ pc'[c] = "askbase" /\ \A d \in Commands \ {c} : pc'[d] = pc[d]
      /\ UNCHANGED <<images, registered, base, why, orphan, scope, slips>>
      /\ buildLock' = c
  BY DEF LockBuild, Goto, TreeInv
<1>3. HostInv' /\ LabelsInv'
  BY <1>1, <1>2 DEF HostOK, HostInv, LabelsInv, BaseExists, Building
<1>4. ASSUME NEW d \in Commands PROVE (UnderLock(d) /\ KnowsBase(d) /\ Ready(d) /\ Due(d))'
  <2>1. CASE d = c
    BY <1>2, <2>1 DEF UnderLock, KnowsBase, Ready, Due
  <2>2. CASE d # c
    BY <1>1, <1>2, <2>2, NoBuilder
  <2> QED
    BY <2>1, <2>2
<1> QED
  BY <1>3, <1>4 DEF HostOK, BuilderInv

\* What a builder learns of the base: what there is, or nothing.
LEMMA AskBaseKeeps ==
  ASSUME TreeInv, HostOK, NEW c \in Commands, NEW stamp \in {Stamped(Base), NoImage},
         AskBaseOf(c, stamp), UNCHANGED code
  PROVE  HostOK'
<1> DEFINE reason == BaseReason(stamp, Iteration[code[c]], Forced(c), Target[c] = Base)
<1>1. reason \in Reasons
  BY ReasonTypes
<1>2. pc[c] = "askbase" /\ buildLock = c
  BY DEF AskBaseOf, HostOK, BuilderInv, UnderLock, Building
<1>3. /\ pc' = [pc EXCEPT ![c] = IF reason # "current" THEN "buildbase"
                                 ELSE IF Target[c] = Base THEN "built" ELSE "askproject"]
      /\ base' = [base EXCEPT ![c] = stamp]
      /\ why' = [why EXCEPT ![c] = [reason |-> reason, rebuilt |-> reason # "current"]]
      /\ slips' = IF stamp # Stamped(Base) THEN slips \cup {"unasked"} ELSE slips
      /\ UNCHANGED <<images, registered, buildLock, orphan, scope>>
  BY DEF AskBaseOf, Goto
<1>4. reason = "current" => /\ stamp = Stamped(Base) /\ stamp # NoImage
                            /\ stamp.iter = Iteration[code[c]] /\ stamp.iter # NoLabel
  BY DEF BaseReason
<1>5. reason # "forced" /\ reason # "current" /\ stamp = Stamped(Base) =>
        BaseReason(Stamped(Base), Iteration[code[c]], "none", FALSE) # "current"
  BY DEF BaseReason
<1> HIDE DEF reason
<1>6. /\ \A d \in Commands \ {c} : pc'[d] = pc[d] /\ pc'[d] \notin Building
      /\ pc'[c] = IF reason # "current" THEN "buildbase"
                  ELSE IF Target[c] = Base THEN "built" ELSE "askproject"
  BY <1>2, <1>3, OneBuilder DEF HostOK, Building
<1>7. why'[c].reason = reason /\ why'[c].rebuilt = (reason # "current") /\ base'[c] = stamp
  BY <1>3 DEF HostOK, HostInv
<1>8. Base \in Tags /\ Stamped(Base) \in Image \cup {NoImage}
  BY StampedType DEF HostOK, Tags
<1>9. \A tag : Stamped(tag)' = Stamped(tag)
  BY <1>3, StampedUnchanged
<1>10. HostInv' /\ LabelsInv'
  <2>1. pc'[c] \in {"buildbase", "built", "askproject"} /\ (pc'[c] = "askproject" => Target[c] # Base)
    BY <1>6
  <2>2. pc'[c] = "askproject" => BaseExists
    BY <1>4, <1>6, <1>8, StampedType DEF HostOK, BaseExists, Tags
  <2>3. base' \in [Commands -> Image \cup {NoImage}]
    BY <1>3, <1>8 DEF HostOK, HostInv
  <2>4. why' \in [Commands -> [reason : Reasons, rebuilt : BOOLEAN]]
    BY <1>1, <1>3 DEF HostOK, HostInv
  <2>5. HostInv'
    BY <1>3, <1>6, <2>1, <2>2, <2>3, <2>4 DEF HostOK, HostInv, BaseExists
  <2>6. LabelsInv'
    BY <1>3 DEF HostOK, LabelsInv
  <2> QED
    BY <2>5, <2>6
<1>11. Iteration[code[c]] \in Nat
  BY ImagesAssumption DEF TreeInv
<1>12. (UnderLock(c) /\ KnowsBase(c) /\ Ready(c) /\ Due(c))'
  <2>1. UnderLock(c)'
    BY <1>2, <1>3 DEF UnderLock
  <2>2. KnowsBase(c)'
    BY <1>4, <1>6, <1>7, <1>9 DEF KnowsBase
  <2>3. Ready(c)'
    <3> SUFFICES ASSUME pc'[c] = "built", slips' \cap {"mixed", "unknown", "orphan", "removed"} = {}
                 PROVE  Fresh(c)'
      BY DEF Ready
    <3>1. Target[c] = Base /\ stamp = Stamped(Base) /\ stamp # NoImage
          /\ stamp.iter = Iteration[code[c]] /\ stamp.iter # NoLabel
      BY <1>4, <1>6
    <3>2. stamp.recipe = stamp.iter
      <4>1. slips \cap {"mixed", "orphan"} = {}
        BY <1>3
      <4>2. stamp \in images /\ stamp.tag = Base
        BY <1>8, <3>1, StampedType DEF HostOK
      <4> QED
        BY <3>1, <4>1, <4>2 DEF HostOK, LabelsInv
    <3> QED
      BY <1>9, <3>1, <3>2 DEF Fresh
  <2>4. Due(c)'
    <3>1. pc'[c] = "buildbase" => reason # "current"
      BY <1>6
    <3>2. "unasked" \notin slips' => stamp = Stamped(Base)
      BY <1>3
    <3> QED
      BY <1>5, <1>6, <1>7, <1>9, <3>1, <3>2 DEF Due, BaseIsDue
  <2> QED
    BY <2>1, <2>2, <2>3, <2>4
<1> QED
  BY <1>6, <1>10, <1>12, NoBuilder DEF HostOK, BuilderInv

LEMMA RestampKeeps ==
  ASSUME TreeInv, HostOK, NEW c \in Commands, pc[c] = "restamp",
         NEW stamp \in {Stamped(Base), NoImage}, base' = [base EXCEPT ![c] = stamp],
         pc' = [pc EXCEPT ![c] = IF Target[c] = Base THEN "built" ELSE "askproject"],
         UNCHANGED <<code, images, registered, buildLock, why, orphan, scope, slips>>
  PROVE  HostOK'
<1>1. /\ \A d \in Commands \ {c} : pc'[d] = pc[d] /\ pc'[d] \notin Building
      /\ pc'[c] = IF Target[c] = Base THEN "built" ELSE "askproject"
  BY OneBuilder DEF HostOK, Building
<1>2. Base \in Tags /\ Stamped(Base) \in Image /\ Stamped(Base) \in images /\ Stamped(Base).tag = Base
  BY StampedType DEF HostOK, HostInv, BaseExists, Tags
<1>3. \A tag : Stamped(tag)' = Stamped(tag)
  BY StampedUnchanged
<1>4. HostInv' /\ LabelsInv'
  <2>1. base' \in [Commands -> Image \cup {NoImage}]
    BY <1>2 DEF HostOK, HostInv
  <2>2. HostInv'
    BY <1>1, <2>1 DEF HostOK, HostInv, BaseExists
  <2>3. LabelsInv'
    BY DEF HostOK, LabelsInv
  <2> QED
    BY <2>2, <2>3
<1>5. UnderLock(c) /\ KnowsBase(c)
  BY DEF HostOK, BuilderInv
<1>6. (UnderLock(c) /\ KnowsBase(c) /\ Ready(c) /\ Due(c))'
  <2>1. UnderLock(c)'
    BY <1>5 DEF UnderLock, Building
  <2>2. KnowsBase(c)'
    <3>1. base'[c] = stamp
      BY DEF HostOK, HostInv
    <3> QED
      BY <1>1, <1>3, <1>5, <3>1 DEF KnowsBase
  <2>3. Ready(c)'
    <3> SUFFICES ASSUME pc'[c] = "built", slips' \cap {"mixed", "unknown", "orphan", "removed"} = {}
                 PROVE  Fresh(c)'
      BY DEF Ready
    <3>1. Target[c] = Base /\ Stamped(Base).iter = Iteration[code[c]]
      BY <1>1, <1>5 DEF KnowsBase
    <3>2. Iteration[code[c]] \in Nat
      BY ImagesAssumption DEF TreeInv
    <3>3. Stamped(Base).recipe = Stamped(Base).iter
      BY <1>2, <3>1, <3>2, ImagesAssumption DEF HostOK, LabelsInv
    <3> QED
      BY <1>2, <1>3, <3>1, <3>3, FoundAssumption DEF Fresh
  <2>4. Due(c)'
    BY <1>1 DEF Due
  <2> QED
    BY <2>1, <2>2, <2>3, <2>4
<1> QED
  BY <1>1, <1>4, <1>6, NoBuilder DEF HostOK, BuilderInv

LEMMA AskProjectKeeps ==
  ASSUME TreeInv, HostOK, NEW c \in Commands, NEW stamp \in {Stamped(Target[c]), NoImage},
         AskProjectOf(c, stamp), UNCHANGED code
  PROVE  HostOK'
<1> DEFINE reason == ProjectReason(stamp, base[c], why[c].rebuilt, Forced(c))
<1>1. reason \in Reasons
  BY ReasonTypes
<1>2. pc[c] = "askproject" /\ UnderLock(c) /\ KnowsBase(c)
  BY DEF AskProjectOf, HostOK, BuilderInv
<1>3. /\ pc' = [pc EXCEPT ![c] = IF reason = "current" THEN "built" ELSE "buildproject"]
      /\ why' = [why EXCEPT ![c].reason = reason]
      /\ slips' = IF stamp # Stamped(Target[c]) THEN slips \cup {"unasked"} ELSE slips
      /\ UNCHANGED <<images, registered, buildLock, base, orphan, scope>>
  BY DEF AskProjectOf, Goto
<1>4. /\ \A d \in Commands \ {c} : pc'[d] = pc[d] /\ pc'[d] \notin Building
      /\ pc'[c] = IF reason = "current" THEN "built" ELSE "buildproject"
  BY <1>2, <1>3, OneBuilder DEF HostOK, Building
<1>5. reason = "current" =>
        /\ ~ why[c].rebuilt /\ stamp # NoImage /\ stamp.baseId # NoLabel
        /\ base[c] # NoImage => stamp.baseId = base[c].id
  BY DEF ProjectReason
<1>6. reason # "forced" /\ reason # "current" =>
        ProjectReason(stamp, base[c], why[c].rebuilt, "none") # "current"
  BY DEF ProjectReason
<1> HIDE DEF reason
<1>7. why'[c].reason = reason /\ why'[c].rebuilt = why[c].rebuilt
      /\ why' \in [Commands -> [reason : Reasons, rebuilt : BOOLEAN]]
  BY <1>1, <1>3 DEF HostOK, HostInv
<1>8. /\ Base \in Tags /\ Stamped(Base) \in Image
      /\ Stamped(Base) \in images /\ Stamped(Base).tag = Base /\ Stamped(Base) # NoImage
  BY <1>2, FoundAssumption, StampedType DEF HostOK, HostInv, BaseExists, Tags
<1>9. \A tag : Stamped(tag)' = Stamped(tag)
  BY <1>3, StampedUnchanged
<1>10. HostInv' /\ LabelsInv'
  <2>1. HostInv'
    BY <1>2, <1>3, <1>4, <1>7 DEF HostOK, HostInv, BaseExists
  <2>2. LabelsInv'
    BY <1>3 DEF HostOK, LabelsInv
  <2> QED
    BY <2>1, <2>2
<1>11. Target[c] \in Projects
  BY <1>2, ImagesAssumption DEF HostOK, HostInv, Tags
<1>12. (UnderLock(c) /\ KnowsBase(c) /\ Ready(c) /\ Due(c))'
  <2>1. UnderLock(c)'
    BY <1>2, <1>3 DEF UnderLock, Building
  <2>2. KnowsBase(c)'
    BY <1>2, <1>3, <1>4, <1>7, <1>9 DEF KnowsBase
  <2>3. Ready(c)'
    <3> SUFFICES ASSUME pc'[c] = "built", slips' \cap {"mixed", "unknown", "orphan", "removed"} = {}
                 PROVE  Fresh(c)'
      BY DEF Ready
    <3>1. reason = "current" /\ slips \cap {"mixed", "unknown", "orphan", "removed"} = {}
      BY <1>3, <1>4
    <3>2. base[c] = Stamped(Base) /\ stamp = Stamped(Target[c]) /\ stamp.baseId = Stamped(Base).id
      BY <1>2, <1>5, <1>8, <3>1 DEF KnowsBase
    <3>3. stamp \in images /\ stamp.tag = Target[c]
      BY <1>5, <1>11, <3>1, <3>2, StampedType DEF HostOK, Tags
    <3>4. stamp.parent = stamp.baseId
      BY <1>5, <1>11, <3>1, <3>3 DEF HostOK, LabelsInv
    <3>5. Stamped(Base).iter = Iteration[code[c]] /\ Iteration[code[c]] \in Nat
      BY <1>2, <3>1, ImagesAssumption DEF KnowsBase, TreeInv
    <3>6. Stamped(Base).recipe = Stamped(Base).iter
      BY <1>8, <3>1, <3>5, ImagesAssumption DEF HostOK, LabelsInv
    <3> QED
      BY <1>5, <1>8, <1>9, <3>1, <3>2, <3>4, <3>5, <3>6 DEF Fresh
  <2>4. Due(c)'
    <3> SUFFICES ASSUME pc'[c] = "buildproject", why'[c].reason # "forced",
                        slips' \cap {"unasked", "unknown", "orphan"} = {}
                 PROVE  ProjectIsDue(c)'
      BY <1>4 DEF Due
    <3>1. /\ stamp = Stamped(Target[c]) /\ reason # "forced" /\ reason # "current"
          /\ "orphan" \notin slips
      BY <1>3, <1>4, <1>7
    <3>2. ProjectReason(stamp, base[c], why[c].rebuilt, "none") # "current"
      BY <1>6, <3>1
    <3>3. CASE base[c] = Stamped(Base)
      BY <1>7, <1>9, <3>1, <3>2, <3>3 DEF ProjectIsDue
    <3>4. CASE why[c].rebuilt
      BY <1>7, <3>4 DEF ProjectIsDue, ProjectReason
    <3> QED
      BY <1>2, <3>1, <3>3, <3>4 DEF KnowsBase
  <2> QED
    BY <2>1, <2>2, <2>3, <2>4
<1> QED
  BY <1>4, <1>10, <1>12, NoBuilder DEF HostOK, BuilderInv

LEMMA BuildBaseKeeps ==
  ASSUME TreeInv, HostOK, NEW c \in Commands, BuildBase(c), UNCHANGED code
  PROVE  HostOK'
<1> DEFINE new == BaseImage(c)
<1>1. /\ pc[c] = "buildbase" /\ FreshId <= MaxImages /\ images' = Retagged(new)
      /\ slips' = IF code[c] # head THEN slips \cup {"mixed"} ELSE slips
      /\ pc' = [pc EXCEPT ![c] = "restamp"]
      /\ UNCHANGED <<registered, buildLock, base, why, orphan, scope>>
  BY DEF BuildBase, Goto
<1>2. new \in Image /\ new.tag = Base /\ Base \in Tags
  BY <1>1, BaseImageType DEF HostOK, Tags
<1>3. new.recipe = Iteration[head] /\ new.iter = Iteration[code[c]]
  BY DEF BaseImage
<1> HIDE DEF new
<1>4. /\ images' \in SUBSET Image /\ IsFiniteSet(images')
      /\ \A i, j \in images' : i.tag = j.tag /\ i.tag \in Tags => i = j
      /\ new \in images' /\ \A i \in images' : i.tag = new.tag => i = new
      /\ \A i \in Image : i.tag \in Tags \ {new.tag} => (i \in images' <=> i \in images)
  BY <1>1, <1>2, RetaggedImages DEF HostOK
<1>5. /\ \A d \in Commands \ {c} : pc'[d] = pc[d] /\ pc'[d] \notin Building
      /\ pc'[c] = "restamp"
  BY <1>1, OneBuilder DEF HostOK, Building
<1>6. HostInv'
  BY <1>1, <1>2, <1>4, <1>5 DEF HostOK, HostInv, BaseExists
<1>7. Stamped(Base)' = new
  BY <1>2, <1>4 DEF Stamped
<1>8. LabelsInv'
  <2>1. slips' \cap {"mixed", "orphan"} = {} => new.recipe = new.iter
    BY <1>1, <1>3
  <2>2. \A i \in images' : i.tag \in Projects => i \in images
    BY <1>2, <1>4, ImagesAssumption DEF Tags
  <2> QED
    BY <1>1, <1>2, <1>4, <2>1, <2>2 DEF HostOK, LabelsInv
<1>9. UnderLock(c) /\ KnowsBase(c)
  BY DEF HostOK, BuilderInv
<1>10. (UnderLock(c) /\ KnowsBase(c) /\ Ready(c) /\ Due(c))'
  <2>1. UnderLock(c)' /\ Ready(c)' /\ Due(c)'
    BY <1>1, <1>5, <1>9 DEF UnderLock, Building, Ready, Due
  <2>2. KnowsBase(c)'
    BY <1>1, <1>3, <1>5, <1>7, <1>9 DEF KnowsBase
  <2> QED
    BY <2>1, <2>2
<1> QED
  BY <1>5, <1>6, <1>8, <1>10, NoBuilder DEF HostOK, BuilderInv

LEMMA BuildProjectKeeps ==
  ASSUME TreeInv, HostOK, NEW c \in Commands, BuildProject(c), UNCHANGED code
  PROVE  HostOK'
<1> DEFINE new == ProjectImage(c)
<1>1. /\ pc[c] = "buildproject" /\ FreshId <= MaxImages /\ images' = Retagged(new)
      /\ slips' = IF base[c] = NoImage THEN slips \cup {"unknown"} ELSE slips
      /\ pc' = [pc EXCEPT ![c] = "built"]
      /\ UNCHANGED <<registered, buildLock, base, why, orphan, scope>>
  BY DEF BuildProject, Goto
<1>2. BaseExists /\ Target[c] \in Projects /\ Target[c] \in Tags
  BY <1>1, ImagesAssumption DEF HostOK, HostInv, Tags
<1>3. new \in Image /\ new.tag = Target[c]
  BY <1>1, <1>2, ProjectImageType DEF HostOK
<1>4. /\ new.parent = Stamped(Base).id
      /\ base[c] # NoImage => new.baseId = base[c].id
  BY DEF ProjectImage
<1> HIDE DEF new
<1>5. /\ images' \in SUBSET Image /\ IsFiniteSet(images')
      /\ \A i, j \in images' : i.tag = j.tag /\ i.tag \in Tags => i = j
      /\ new \in images' /\ \A i \in images' : i.tag = new.tag => i = new
      /\ \A i \in Image : i.tag \in Tags \ {new.tag} => (i \in images' <=> i \in images)
  BY <1>1, <1>2, <1>3, RetaggedImages DEF HostOK
<1>6. /\ \A d \in Commands \ {c} : pc'[d] = pc[d] /\ pc'[d] \notin Building
      /\ pc'[c] = "built"
  BY <1>1, OneBuilder DEF HostOK, Building
<1>7. Base \in Tags /\ Base # new.tag
  BY <1>2, <1>3, ImagesAssumption DEF Tags
<1>8. HostInv'
  <2>1. BaseExists'
    BY <1>2, <1>5, <1>7 DEF BaseExists, HostOK, HostInv
  <2> QED
    BY <1>1, <1>5, <1>6, <2>1 DEF HostOK, HostInv
<1>9. Stamped(Base)' = Stamped(Base)
  BY <1>5, <1>7, <1>8, StampedSame DEF HostOK
<1>10. Stamped(Target[c])' = new
  BY <1>3, <1>5 DEF Stamped
<1>11. UnderLock(c) /\ KnowsBase(c)
  BY DEF HostOK, BuilderInv
<1>12. LabelsInv'
  <2>1. slips' \cap {"unknown", "orphan"} = {} => new.parent = new.baseId
    BY <1>1, <1>4, <1>11 DEF KnowsBase
  <2>2. \A i \in images' : i = new \/ (i.tag \in Tags => i \in images)
    BY <1>5
  <2> QED
    BY <1>1, <1>7, <2>1, <2>2 DEF HostOK, LabelsInv, Tags
<1>13. (UnderLock(c) /\ KnowsBase(c) /\ Ready(c) /\ Due(c))'
  <2>1. UnderLock(c)' /\ KnowsBase(c)' /\ Due(c)'
    BY <1>1, <1>6, <1>11 DEF UnderLock, Building, KnowsBase, Due
  <2>2. Ready(c)'
    <3> SUFFICES ASSUME slips' \cap {"mixed", "unknown", "orphan", "removed"} = {}
                 PROVE  Fresh(c)'
      BY DEF Ready
    <3>1. /\ slips \cap {"mixed", "unknown", "orphan", "removed"} = {}
          /\ base[c] = Stamped(Base) /\ base[c] # NoImage
          /\ Stamped(Base).iter = Iteration[code[c]]
      BY <1>1, <1>11 DEF KnowsBase
    <3>2. Stamped(Base) \in images /\ Stamped(Base).tag = Base /\ Iteration[code[c]] \in Nat
      BY <1>7, <3>1, ImagesAssumption, StampedType DEF HostOK, TreeInv
    <3>3. Stamped(Base).recipe = Stamped(Base).iter
      BY <3>1, <3>2, ImagesAssumption DEF HostOK, LabelsInv
    <3>4. new # NoImage
      BY <1>3, FoundAssumption
    <3> QED
      BY <1>4, <1>9, <1>10, <3>1, <3>3, <3>4 DEF Fresh
  <2> QED
    BY <2>1, <2>2
<1> QED
  BY <1>6, <1>8, <1>12, <1>13, NoBuilder DEF HostOK, BuilderInv

\* A build whose command is gone changes what builders rely on, and says so.
LEMMA OrphanKeeps ==
  ASSUME TreeInv, HostOK, NEW c \in Commands, OrphanBuilds(c), UNCHANGED code
  PROVE  HostOK'
<1>1. /\ slips' = slips \cup {"orphan"}
      /\ UNCHANGED <<pc, registered, buildLock, base, why, scope>>
      /\ FreshId <= MaxImages /\ orphan' \subseteq orphan
  BY DEF OrphanBuilds
<1>2. PICK new \in Image : images' = Retagged(new) /\ new.tag \in Tags
  <2>1. CASE <<c, Base>> \in orphan /\ images' = Retagged(BaseImage(c))
    BY <1>1, <2>1, BaseImageType DEF HostOK, Tags
  <2>2. CASE <<c, Target[c]>> \in orphan /\ Target[c] # Base /\ images' = Retagged(ProjectImage(c))
    <3>1. BaseExists /\ Target[c] \in Tags
      BY <2>2, ImagesAssumption DEF HostOK, HostInv, Tags
    <3> QED
      BY <1>1, <2>2, <3>1, ProjectImageType DEF HostOK
  <2> QED
    BY <2>1, <2>2 DEF OrphanBuilds
<1>3. /\ images' \in SUBSET Image /\ IsFiniteSet(images')
      /\ \A i, j \in images' : i.tag = j.tag /\ i.tag \in Tags => i = j
      /\ new \in images' /\ \A i \in images' : i.tag = new.tag => i = new
      /\ \A i \in Image : i.tag \in Tags \ {new.tag} => (i \in images' <=> i \in images)
  BY <1>2, RetaggedImages DEF HostOK
<1>4. BaseExists => BaseExists'
  BY <1>3 DEF BaseExists, HostOK, HostInv, Tags
<1>5. HostInv'
  BY <1>1, <1>3, <1>4 DEF HostOK, HostInv
<1>6. LabelsInv'
  BY <1>1 DEF LabelsInv
<1>7. ASSUME NEW d \in Commands PROVE (UnderLock(d) /\ KnowsBase(d) /\ Ready(d) /\ Due(d))'
  <2>1. UnderLock(d)
    BY DEF HostOK, BuilderInv
  <2> QED
    BY <1>1, <2>1 DEF UnderLock, KnowsBase, Ready, Due
<1> QED
  BY <1>5, <1>6, <1>7 DEF HostOK, BuilderInv

LEMMA RemoveKeeps ==
  ASSUME TreeInv, HostOK, NEW c \in Commands, RemoveImage(c), UNCHANGED code
  PROVE  HostOK'
<1>1. PICK row \in scope[c] :
        /\ images' = (images \ Gone(row)) \cup {Removed(i) : i \in Gone(row)}
        /\ scope' = [scope EXCEPT ![c] = @ \ {row}]
        /\ slips' = IF \E i \in Gone(row), d \in Commands :
                         i.tag = Target[d] /\ pc[d] \in {"built", "prepare", "ready"}
                    THEN slips \cup {"removed"} ELSE slips
        /\ pc' = [pc EXCEPT ![c] = IF scope[c] = {row} THEN "done" ELSE "remove"]
  BY DEF RemoveImage, Gone, Goto
<1>2. pc[c] = "remove" /\ UNCHANGED <<registered, buildLock, base, why, orphan>>
  BY DEF RemoveImage
<1>3. row \in Image /\ row.tag # Base
  BY DEF HostOK, HostInv
<1>4. /\ images' \in SUBSET Image /\ IsFiniteSet(images')
      /\ \A i, j \in images' : i.tag = j.tag /\ i.tag \in Tags => i = j
      /\ \A i \in Image : i.tag \in Tags /\ i.tag # row.tag => (i \in images' <=> i \in images)
      /\ \A i \in images' : i.tag \in Tags => i \in images
      /\ \A i \in Image : i.tag \in Tags /\ i \in images /\ i \notin images' => i \in Gone(row)
  BY <1>1, <1>3, RemovedImages DEF HostOK
<1>5. pc'[c] \in {"done", "remove"} /\ \A d \in Commands \ {c} : pc'[d] = pc[d]
  BY <1>1 DEF TreeInv
<1>6. HostInv'
  <2>1. BaseExists => BaseExists'
    BY <1>3, <1>4 DEF BaseExists, HostOK, HostInv, Tags
  <2>2. scope' \in [Commands -> SUBSET Image]
        /\ \A d \in Commands : scope'[d] \subseteq scope[d]
    BY <1>1 DEF HostOK, HostInv
  <2> QED
    BY <1>2, <1>4, <1>5, <2>1, <2>2 DEF HostOK, HostInv
<1>7. LabelsInv'
  BY <1>1, <1>4 DEF HostOK, LabelsInv, Tags
<1>8. Stamped(Base)' = Stamped(Base)
  BY <1>3, <1>4, <1>6, StampedSame DEF HostOK, Tags
<1>9. ASSUME NEW d \in Commands PROVE (UnderLock(d) /\ KnowsBase(d) /\ Ready(d) /\ Due(d))'
  <2>1. CASE d = c
    BY <1>5, <2>1, NoBuilder DEF Building
  <2>2. CASE d # c
    <3>1. UnderLock(d) /\ KnowsBase(d) /\ Ready(d) /\ Due(d) /\ pc'[d] = pc[d]
      BY <1>5, <2>2 DEF HostOK, BuilderInv
    <3>2. Target[d] \in Tags
      BY ImagesAssumption
    <3>3. CASE Stamped(Target[d])' = Stamped(Target[d])
      <4>1. UnderLock(d)' /\ KnowsBase(d)'
        BY <1>1, <1>2, <1>8, <3>1 DEF UnderLock, KnowsBase
      <4>2. Ready(d)'
        BY <1>1, <1>8, <3>1, <3>3 DEF Ready, Fresh
      <4>3. Due(d)'
        BY <1>1, <1>2, <1>8, <3>1, <3>3 DEF Due, BaseIsDue, ProjectIsDue
      <4> QED
        BY <4>1, <4>2, <4>3
    <3>4. CASE Stamped(Target[d])' # Stamped(Target[d])
      <4>1. /\ Stamped(Target[d])' = NoImage
            /\ \E i \in Gone(row) : i.tag = Target[d]
        <5>1. PICK i \in Image : /\ i.tag = Target[d] /\ i \in images /\ i \notin images'
          BY <1>4, <1>6, <3>2, <3>4, StampedSame DEF HostOK
        <5>2. ~ \E j \in images' : j.tag = Target[d]
          BY <1>4, <3>2, <5>1 DEF HostOK, HostInv
        <5> QED
          BY <1>4, <3>2, <5>1, <5>2 DEF Stamped
      <4>2. UnderLock(d)' /\ KnowsBase(d)'
        BY <1>1, <1>2, <1>8, <3>1 DEF UnderLock, KnowsBase
      <4>3. Ready(d)'
        BY <1>1, <3>1, <4>1 DEF Ready
      <4>4. Due(d)'
        BY <1>1, <1>2, <1>8, <3>1, <4>1 DEF Due, BaseIsDue, ProjectIsDue, ProjectReason
      <4> QED
        BY <4>2, <4>3, <4>4
    <3> QED
      BY <3>3, <3>4
  <2> QED
    BY <2>1, <2>2
<1> QED
  BY <1>6, <1>7, <1>9 DEF HostOK, BuilderInv

\* A cleanup is shown superseded builds and images of projects.
LEMMA ScopeType ==
  ASSUME HostInv, NEW iteration
  PROVE  CleanupScope(iteration) \in SUBSET Image /\ \A row \in CleanupScope(iteration) : row.tag # Base
<1>1. StaleProjects(iteration) \subseteq Projects
  BY DEF StaleProjects, HostInv
<1> QED
  BY <1>1, ImagesAssumption DEF CleanupScope, HostInv, Tags

LEMMA ImagesKeep ==
  ASSUME TreeInv, HostOK, NEW c \in Commands, OfImages(c)
  PROVE  HostOK'
<1>0. UNCHANGED code
  BY DEF OfImages
<1>t. Types
  BY DEF HostOK, HostInv, Types
<1>1. CASE LockBuild(c) \/ BuildBase(c) \/ BuildProject(c) \/ OrphanBuilds(c) \/ RemoveImage(c)
  BY <1>0, <1>1, LockBuildKeeps, BuildBaseKeeps, BuildProjectKeeps, OrphanKeeps, RemoveKeeps
<1>2. CASE AskBase(c) \/ AskBaseFails(c)
  BY <1>0, <1>2, AskBaseKeeps DEF AskBase, AskBaseFails
<1>3. CASE Restamp(c) \/ RestampFails(c)
  <2>1. PICK stamp \in {Stamped(Base), NoImage} : base' = [base EXCEPT ![c] = stamp]
    BY <1>3 DEF Restamp, RestampFails
  <2> QED
    BY <1>0, <1>3, <2>1, RestampKeeps DEF Restamp, RestampFails, Goto
<1>4. CASE AskProject(c) \/ AskProjectFails(c)
  BY <1>0, <1>4, AskProjectKeeps DEF AskProject, AskProjectFails
<1>5. CASE BuildFails(c) \/ UnlockBuild(c)
  <2>1. pc[c] \in Building /\ UNCHANGED <<images, slips, registered, orphan, scope, why>>
    BY <1>5 DEF BuildFails, UnlockBuild, Building
  <2>2. PICK l \in {"failed", "prepare", "done"} : pc' = [pc EXCEPT ![c] = l]
    BY <1>5 DEF BuildFails, UnlockBuild, Goto
  <2>3. UNCHANGED base \/ base' = [base EXCEPT ![c] = NoImage]
    BY <1>5 DEF BuildFails, UnlockBuild
  <2>4. \A d \in Commands : pc'[d] \notin Building
    BY <2>1, <2>2, OneBuilder DEF HostOK, Building
  <2>5. Types'
    BY <1>t, <2>1, <2>3 DEF Types
  <2>6. \A d \in Commands, t \in Projects : <<d, t>> \in orphan' => BaseExists
    BY <2>1 DEF HostOK, HostInv
  <2> QED
    BY <2>1, <2>4, <2>5, <2>6, Aside DEF HostOK
<1>6. CASE DockerDown(c) \/ Confirmed(c) \/ Survey(c)
  <2>1. UNCHANGED <<images, slips, registered, orphan, buildLock, base, why>>
    BY <1>6 DEF DockerDown, Confirmed, Survey, imageVars
  <2>2. PICK l \in {"failed", "done", "confirm", "remove"} : pc' = [pc EXCEPT ![c] = l]
    BY <1>6 DEF DockerDown, Confirmed, Survey, Goto
  <2>3. UNCHANGED scope \/ scope' = [scope EXCEPT ![c] = CleanupScope(Iteration[code[c]])]
    BY <1>6 DEF DockerDown, Confirmed, Survey, imageVars
  <2>4. \A d \in Commands : pc'[d] \in Building => pc'[d] = pc[d]
    BY <2>2 DEF Building, TreeInv
  <2>5. Types'
    <3>1. CleanupScope(Iteration[code[c]]) \in SUBSET Image
          /\ \A row \in CleanupScope(Iteration[code[c]]) : row.tag # Base
      BY ScopeType DEF HostOK
    <3> QED
      BY <1>t, <2>1, <2>3, <3>1 DEF Types
  <2>6. \A d \in Commands, t \in Projects : <<d, t>> \in orphan' => BaseExists
    BY <2>1 DEF HostOK, HostInv
  <2> QED
    BY <1>0, <2>1, <2>4, <2>5, <2>6, Aside DEF HostOK
<1> QED
  BY <1>1, <1>2, <1>3, <1>4, <1>5, <1>6
     DEF OfImages, EnsureImages, EnsureFails, CleanImages

LEMMA KillKeeps ==
  ASSUME TreeInv, HostOK, NEW c \in Commands, Kill(c)
  PROVE  HostOK'
<1>1. /\ pc' = [pc EXCEPT ![c] = "killed"]
      /\ buildLock' = IF buildLock = c THEN NoCommand ELSE buildLock
      /\ scope' = [scope EXCEPT ![c] = {}]
      /\ UNCHANGED <<code, images, registered, base, why, slips>>
  BY DEF Kill, Goto
<1>2. \/ UNCHANGED orphan
      \/ orphan' = orphan \cup {<<c, Base>>}
      \/ pc[c] = "buildproject" /\ orphan' = orphan \cup {<<c, Target[c]>>}
  BY DEF Kill
<1>3. \A d \in Commands : pc'[d] \in Building => pc'[d] = pc[d] /\ buildLock' = buildLock
  BY <1>1 DEF TreeInv, HostOK, BuilderInv, UnderLock, Building
<1>4. Types'
  <2>1. <<c, Base>> \in Commands \X Tags /\ <<c, Target[c]>> \in Commands \X Tags
    BY ImagesAssumption DEF Tags
  <2>2. orphan' \subseteq Commands \X Tags
    BY <1>2, <2>1 DEF HostOK, HostInv
  <2> QED
    BY <1>1, <2>2 DEF Types, HostOK, HostInv
<1>5. \A d \in Commands, t \in Projects : <<d, t>> \in orphan' => BaseExists
  BY <1>2, ImagesAssumption DEF HostOK, HostInv
<1> QED
  BY <1>1, <1>3, <1>4, <1>5, Aside DEF HostOK

LEMMA NextHost == TreeInv /\ HostOK /\ [Next]_vars => HostOK'
<1> SUFFICES ASSUME TreeInv, HostOK, [Next]_vars PROVE HostOK'
  OBVIOUS
<1>t. Types
  BY DEF HostOK, HostInv, Types
<1>o. \A d \in Commands, t \in Projects : <<d, t>> \in orphan => BaseExists
  BY DEF HostOK, HostInv
<1>1. ASSUME UNCHANGED <<images, registered, buildLock, base, why, orphan, scope, slips>>,
             \A d \in Commands : pc'[d] \in Building => pc'[d] = pc[d] /\ code'[d] = code[d]
      PROVE  HostOK'
  <2>1. Types'
    BY <1>1, <1>t DEF Types
  <2> QED
    BY <1>1, <1>o, <2>1, Aside DEF HostOK
<1>2. ASSUME NEW c \in Commands, Start(c) PROVE HostOK'
  BY <1>1, <1>2 DEF Start, Goto, imageVars, TreeInv, Building
<1>3. ASSUME NEW c \in Commands, OfCheckout(c) PROVE HostOK'
  <2>1. UNCHANGED <<imageVars, code>>
    BY <1>3 DEF OfCheckout, Autostart, Update, UpdateFails, CheckBehind, CheckFails, Answered,
                Look, LookFails, StopViewer, Merge, MergeFails, PropagateMd, Provision,
                ProvisionFails
  <2>2. PICK l : pc' = [pc EXCEPT ![c] = l] /\ l \notin Building
    BY <1>3 DEF OfCheckout, Autostart, Update, UpdateFails, CheckBehind, CheckFails, Answered,
                Look, LookFails, StopViewer, Merge, MergeFails, PropagateMd, Provision,
                ProvisionFails, Goto, Proceed, Building
  <2> QED
    BY <1>1, <2>1, <2>2 DEF imageVars, TreeInv
<1>4. ASSUME NEW c \in Commands, OfDatabase(c) PROVE HostOK'
  <2>1. UNCHANGED <<imageVars, code>>
    BY <1>4 DEF OfDatabase
  <2>2. PICK l : pc' = [pc EXCEPT ![c] = l] /\ l \notin Building
    BY <1>4 DEF OfDatabase, OpenDatabase, Connect, BackUp, Migrate, MigrationFails, Opened, Goto,
                Building
  <2> QED
    BY <1>1, <2>1, <2>2 DEF imageVars, TreeInv
<1>5. ASSUME NEW c \in Commands, Prepare(c) PROVE HostOK'
  <2>1. /\ UNCHANGED <<code, images, buildLock, base, why, orphan, scope, slips>>
        /\ registered' = registered \cup ({Target[c]} \cap Projects)
        /\ pc' = [pc EXCEPT ![c] = "ready"]
    BY <1>5 DEF Prepare, Goto
  <2>2. Types'
    BY <1>t, <2>1 DEF Types
  <2>3. \A d \in Commands : pc'[d] \in Building => pc'[d] = pc[d]
    BY <2>1 DEF TreeInv, Building
  <2> QED
    BY <1>o, <2>1, <2>2, <2>3, Aside DEF HostOK
<1>6. ASSUME NEW c \in Commands, RunAgent(c) \/ AgentExits(c) PROVE HostOK'
  <2>1. UNCHANGED <<code, images, registered, buildLock, base, why, orphan, scope, slips>>
    BY <1>6 DEF RunAgent, AgentExits
  <2>2. \A d \in Commands : pc'[d] \in Building => pc'[d] = pc[d]
    BY <1>6 DEF RunAgent, AgentExits, Goto, TreeInv, Building
  <2> QED
    BY <1>1, <2>1, <2>2
<1>7. CASE (Commit \/ EditMd) /\ UNCHANGED <<dbVars, imageVars>>
  BY <1>1, <1>7 DEF Commit, EditMd, imageVars
<1>8. CASE UNCHANGED vars
  BY <1>1, <1>8 DEF vars, checkoutVars, imageVars
<1> QED
  BY <1>2, <1>3, <1>4, <1>5, <1>6, <1>7, <1>8, ImagesKeep, KillKeeps DEF Next

\* ReadyUnlessSlipped holds: for any number of builders, updates and cleanups,
\* the image a launch is given is there, is of its own recipe and stands on the
\* base of now, but for the slips it names (BuildService.ensure_images).
THEOREM ReadyUnlessSlippedHolds == Spec => []ReadyUnlessSlipped
<1>1. HostOK => ReadyUnlessSlipped
  BY DEF HostOK, BuilderInv, Ready, ReadyUnlessSlipped
<1>2. Init => HostOK
  BY InitHost DEF HostOK
<1> QED
  BY <1>1, <1>2, InitTree, NextTree, NextHost, PTL DEF Spec

BuildIsDue ==
  \A c \in Commands :
    /\ images' # images /\ pc[c] \in {"buildbase", "buildproject"} /\ pc'[c] # pc[c]
    /\ why[c].reason # "forced" /\ slips \cap {"unasked", "unknown", "orphan"} = {}
    => IF pc[c] = "buildbase"
       THEN BaseReason(Stamped(Base), Iteration[code[c]], "none", FALSE) # "current"
       ELSE ProjectReason(Stamped(Target[c]), Stamped(Base), why[c].rebuilt, "none") # "current"

\* BuildsAreDue holds: what an unforced build replaces is stale when it is
\* replaced, so of two launches that find the same image stale one builds
\* (BuildService.ensure_images).
THEOREM BuildsAreDueHolds == Spec => BuildsAreDue
<1>1. HostOK => BuildIsDue
  BY DEF HostOK, BuilderInv, Due, BaseIsDue, ProjectIsDue, BuildIsDue
<1>2. Init => HostOK
  BY InitHost DEF HostOK
<1>3. TreeInv /\ HostOK /\ [Next]_vars => [BuildIsDue]_vars
  BY <1>1
<1>4. Spec => [][BuildIsDue]_vars
  BY <1>2, <1>3, InitTree, NextTree, NextHost, PTL DEF Spec
<1> QED
  BY <1>4 DEF BuildsAreDue, BuildIsDue
=============================================================================
