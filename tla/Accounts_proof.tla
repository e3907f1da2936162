--------------------------- MODULE Accounts_proof ---------------------------
(***************************************************************************)
(* Proofs about Accounts, for every set of launches, directories, aliases  *)
(* and requests, and every plan: what `agent cleanup` removes and forgets, *)
(* and which registered path claims a log directory.                       *)
(***************************************************************************)
EXTENDS Accounts, TLAPS

-----------------------------------------------------------------------------
(* Types.                                                                  *)

LaunchPcs == {"idle", "sweep", "link", "alias", "record", "start", "up", "gone"}
CleanupPcs == {"idle", "listed", "asked", "removing", "pruning", "done"}

\* A launch that began has a directory, and a path to it.
TypeInv ==
  /\ dirs \subseteq Dirs /\ logs \subseteq Dirs /\ registry \subseteq Paths
  /\ link \in [Dirs -> Dirs \cup {NoPath}] /\ target \in [Aliases -> Dirs]
  /\ job \in [Launches -> [pc : LaunchPcs, at : Dirs \cup {NoPath}, path : Paths \cup {NoPath}]]
  /\ \A l \in Launches : job[l].pc # "idle" => job[l].at \in Dirs /\ job[l].path \in Paths
  /\ box \subseteq Launches /\ \A l \in box : job[l].pc # "idle"
  /\ state \in [Launches -> {"none", "new", "old"}] /\ live \subseteq Launches
  /\ cleanup \in [pc : CleanupPcs, scope : SUBSET Dirs, stale : SUBSET Paths, gone : SUBSET Dirs]
  /\ plan \in Plans

\* A step is one of these.
LEMMA StepIs ==
  ASSUME TypeInv, [Next]_vars
  PROVE  \/ UserStep
         \/ \E l \in Launches, p \in Paths : Prepare(l, p)
         \/ \E l \in Launches : \/ Sweep(l) \/ LinkLogs(l) \/ LinkFails(l) \/ DropAliases(l) \/ Record(l)
                                \/ RecordFails(l) \/ StartBox(l) \/ Age(l) \/ Exit(l)
                                \/ KillLaunch(l)
         \/ \E l \in Launches, q \in Requests : Request(l, q)
         \/ (\E s \in SessionsOf(disk) : IngestRead(s)) \/ IngestCommit
         \/ Survey \/ SurveyStale \/ (\E d \in Dirs : RemoveLogs(d)) \/ ForgetProjects
         \/ Prune \/ Decline \/ KillCleanup \/ UNCHANGED vars
<1>1. plan.launches \subseteq Launches /\ plan.requests \subseteq Requests
  BY AccountsAssumption DEF TypeInv
<1>2. CASE LaunchStep
  BY <1>1, <1>2 DEF LaunchStep
<1> QED
  BY <1>2 DEF Next, IngestStep, CleanupStep, CleanupRuns

LEMMA RealType ==
  ASSUME TypeInv, NEW p \in Paths PROVE Real(p) \in Dirs
BY DEF TypeInv, Real, Paths

LEMMA CalmIs == Calm => UNCHANGED plan
BY DEF Calm, counters

LEMMA HappensIs == ASSUME NEW e, Happens(e) PROVE UNCHANGED plan
BY DEF Happens

\* The user's steps change directories, links and where symlinks lead.
LEMMA UserIs ==
  ASSUME TypeInv, UserStep
  PROVE  /\ UNCHANGED <<logs, disk, indexVars, registry, jobVars, cleanup, plan>>
         /\ slips' = slips \cup {"user"}
                       \cup (IF cleanup.pc \in {"idle", "done"} THEN {} ELSE {"late"})
         /\ dirs' \subseteq Dirs /\ link' \in [Dirs -> Dirs \cup {NoPath}]
         /\ target' \in [Aliases -> Dirs]
         /\ \A e \in Dirs : link'[e] = NoPath \/ \E d \in Dirs : link'[e] = link[d]
<1>1. ByUser
  BY DEF UserStep, MakeDir, DeleteDir, Transfer, Repoint
<1>2. ASSUME NEW d \in Dirs, MakeDir(d)
      PROVE  dirs' \subseteq Dirs /\ UNCHANGED <<link, target>>
  BY <1>2 DEF MakeDir, Above, TypeInv
<1>3. ASSUME NEW d \in Dirs, DeleteDir(d)
      PROVE  /\ dirs' \subseteq Dirs /\ UNCHANGED target /\ link' \in [Dirs -> Dirs \cup {NoPath}]
             /\ \A e \in Dirs : link'[e] = NoPath \/ link'[e] = link[e]
  BY <1>3 DEF DeleteDir, TypeInv
<1>4. ASSUME NEW d \in Dirs, NEW e \in Dirs, NEW keep \in BOOLEAN, Transfer(d, e, keep)
      PROVE  /\ dirs' \subseteq Dirs /\ UNCHANGED target /\ link' \in [Dirs -> Dirs \cup {NoPath}]
             /\ \A x \in Dirs : link'[x] \in {NoPath, link[x], link[d]}
  <2>1. dirs' \subseteq Dirs /\ UNCHANGED target
    BY <1>4 DEF Transfer, Above, TypeInv
  <2>2. link' = [link EXCEPT ![e] = link[d], ![d] = IF keep THEN @ ELSE NoPath]
    BY <1>4 DEF Transfer
  <2>3. link \in [Dirs -> Dirs \cup {NoPath}] /\ d # e
    BY <1>4 DEF Transfer, TypeInv
  <2> QED
    BY <2>1, <2>2, <2>3
<1>5. ASSUME NEW a \in Aliases, NEW d \in Dirs, Repoint(a, d)
      PROVE  target' \in [Aliases -> Dirs] /\ UNCHANGED <<dirs, link>>
  BY <1>5 DEF Repoint, TypeInv
<1>6. /\ dirs' \subseteq Dirs /\ link' \in [Dirs -> Dirs \cup {NoPath}]
      /\ target' \in [Aliases -> Dirs]
      /\ \A e \in Dirs : link'[e] = NoPath \/ \E d \in Dirs : link'[e] = link[d]
  <2>1. dirs \subseteq Dirs /\ link \in [Dirs -> Dirs \cup {NoPath}] /\ target \in [Aliases -> Dirs]
    BY DEF TypeInv
  <2> QED
    BY <1>2, <1>3, <1>4, <1>5, <2>1 DEF UserStep
<1> QED
  BY <1>1, <1>6 DEF ByUser

\* A launch moves on, in the directory it was started in.
LEMMA MovesOn ==
  ASSUME TypeInv, NEW l \in Launches, job[l].pc # "idle", NEW to \in LaunchPcs \ {"idle"},
         job' = [job EXCEPT ![l].pc = to]
  PROVE  /\ job' \in [Launches -> [pc : LaunchPcs, at : Dirs \cup {NoPath},
                                   path : Paths \cup {NoPath}]]
         /\ \A m \in Launches : job'[m].pc # "idle" => job'[m].at \in Dirs /\ job'[m].path \in Paths
         /\ job'[l].pc # "idle" /\ \A m \in box : job'[m].pc # "idle"
BY DEF TypeInv

\* What the launches' steps keep of the types.
LEMMA LaunchKeepsTypes ==
  ASSUME TypeInv, NEW l \in Launches,
         \/ Sweep(l) \/ LinkLogs(l) \/ LinkFails(l) \/ DropAliases(l) \/ Record(l)
         \/ RecordFails(l) \/ StartBox(l) \/ Age(l) \/ Exit(l) \/ KillLaunch(l)
  PROVE  TypeInv'
<1> DEFINE d == job[l].at
<1>t. /\ dirs \subseteq Dirs /\ logs \subseteq Dirs /\ registry \subseteq Paths
      /\ link \in [Dirs -> Dirs \cup {NoPath}] /\ target \in [Aliases -> Dirs]
      /\ state \in [Launches -> {"none", "new", "old"}] /\ plan \in Plans /\ live \subseteq Launches
      /\ box \subseteq Launches /\ \A m \in box : job[m].pc # "idle"
      /\ job[l].pc # "idle" => d \in Dirs /\ job[l].path \in Paths
  BY DEF TypeInv
<1>c. cleanup \in [pc : CleanupPcs, scope : SUBSET Dirs, stale : SUBSET Paths, gone : SUBSET Dirs]
  BY DEF TypeInv
<1>p. {"link", "alias", "record", "start", "up", "gone"} \subseteq LaunchPcs \ {"idle"}
  BY DEF LaunchPcs
<1>1. CASE LinkLogs(l)
  <2>1. /\ job[l].pc = "link" /\ job' = [job EXCEPT ![l].pc = "alias"]
        /\ logs' = logs \cup {d} /\ link' = [link EXCEPT ![d] = d]
        /\ UNCHANGED <<dirs, target, registry, state, box, live, cleanup, plan>>
    BY <1>1, CalmIs DEF LinkLogs, Step
  <2> QED
    BY <1>t, <1>c, <1>p, <2>1, MovesOn DEF TypeInv
<1>2. CASE LinkFails(l)
  <2>1. /\ job[l].pc = "link" /\ job' = [job EXCEPT ![l].pc = "alias"]
        /\ UNCHANGED <<dirs, target, registry, state, box, live, cleanup, plan>>
    BY <1>2, HappensIs DEF LinkFails, Step
  <2>2. d \in Dirs
    BY <1>t, <2>1
  <2>3. logs' \subseteq Dirs
    BY <1>2, <1>t, <2>2 DEF LinkFails
  <2>4. link' = link \/ link' = [link EXCEPT ![d] = IF @ = d THEN d ELSE NoPath]
    BY <1>2 DEF LinkFails
  <2>5. link' \in [Dirs -> Dirs \cup {NoPath}]
    BY <1>t, <2>2, <2>4
  <2> QED
    BY <1>t, <1>c, <1>p, <2>1, <2>3, <2>5, MovesOn DEF TypeInv
<1>3. CASE DropAliases(l)
  <2>1. /\ job[l].pc = "alias" /\ job' = [job EXCEPT ![l].pc = "record"]
        /\ registry' \subseteq registry
        /\ UNCHANGED <<dirs, logs, link, target, state, box, live, cleanup, plan>>
    BY <1>3, CalmIs, HappensIs DEF DropAliases, Step, fileVars
  <2> QED
    BY <1>t, <1>c, <1>p, <2>1, MovesOn DEF TypeInv
<1>4. CASE Record(l)
  <2>1. /\ job[l].pc = "record" /\ job' = [job EXCEPT ![l].pc = "start"]
        /\ registry' = registry \cup {Spelled(l)}
        /\ UNCHANGED <<dirs, logs, link, target, state, box, live, cleanup, plan>>
    BY <1>4, CalmIs DEF Record, Step, fileVars
  <2>2. Spelled(l) \in Paths
    BY <1>t, <2>1 DEF Spelled, Paths
  <2> QED
    BY <1>t, <1>c, <1>p, <2>1, <2>2, MovesOn DEF TypeInv
<1>5. CASE RecordFails(l)
  <2>1. /\ job[l].pc # "idle" /\ job' = [job EXCEPT ![l].pc = "start"]
        /\ UNCHANGED <<dirs, logs, link, target, registry, state, box, live, cleanup, plan>>
    BY <1>5, HappensIs DEF RecordFails, fileVars
  <2> QED
    BY <1>t, <1>c, <1>p, <2>1, MovesOn DEF TypeInv
<1>6. CASE StartBox(l)
  <2>1. /\ job[l].pc # "idle" /\ job' = [job EXCEPT ![l].pc = "up"]
        /\ box' = box \cup {l}
        /\ UNCHANGED <<dirs, logs, link, target, registry, state, live, cleanup, plan>>
    BY <1>6, CalmIs DEF StartBox, Step, fileVars
  <2> QED
    BY <1>t, <1>c, <1>p, <2>1, MovesOn DEF TypeInv
<1>7. CASE Age(l)
  <2>1. /\ state' = [state EXCEPT ![l] = "old"]
        /\ UNCHANGED <<dirs, logs, link, target, registry, job, box, live, cleanup, plan>>
    BY <1>7, CalmIs, HappensIs DEF Age, fileVars
  <2> QED
    BY <1>t, <1>c, <2>1 DEF TypeInv
<1>8. CASE KillLaunch(l)
  <2>1. /\ job[l].pc # "idle" /\ job' = [job EXCEPT ![l].pc = "gone"]
        /\ UNCHANGED <<dirs, logs, link, target, registry, state, box, live, cleanup, plan>>
    BY <1>8, HappensIs DEF KillLaunch, fileVars
  <2> QED
    BY <1>t, <1>c, <1>p, <2>1, MovesOn DEF TypeInv
<1>9. CASE Exit(l)
  <2>1. /\ l \in box /\ box' = box \ {l} /\ job' = [job EXCEPT ![l].pc = "gone"]
        /\ state' = [state EXCEPT ![l] = "none"] \/ state' = state
        /\ UNCHANGED <<dirs, logs, link, target, registry, live, cleanup, plan>>
    BY <1>9, CalmIs DEF Exit, fileVars
  <2>2. state' \in [Launches -> {"none", "new", "old"}]
    BY <1>t, <2>1
  <2> QED
    BY <1>t, <1>c, <1>p, <2>1, <2>2, MovesOn DEF TypeInv
<1>10. CASE Sweep(l)
  <2>1. /\ job[l].pc # "idle" /\ job' = [job EXCEPT ![l].pc = "link"] /\ live' = {}
        /\ UNCHANGED <<dirs, logs, link, target, registry, box, cleanup, plan>>
    BY <1>10, CalmIs DEF Sweep, Step, fileVars
  <2>2. state' \in [Launches -> {"none", "new", "old"}]
    BY <1>10, <1>t DEF Sweep
  <2> QED
    BY <1>t, <1>c, <1>p, <2>1, <2>2, MovesOn DEF TypeInv
<1> QED
  BY <1>1, <1>2, <1>3, <1>4, <1>5, <1>6, <1>7, <1>8, <1>9, <1>10

LEMMA PrepareKeepsTypes ==
  ASSUME TypeInv, NEW l \in Launches, NEW p \in Paths, Prepare(l, p) PROVE TypeInv'
<1>1. /\ job' = [job EXCEPT ![l] = [pc |-> "sweep", at |-> Real(p), path |-> p]]
      /\ live' \in {box, Launches, {}}
      /\ UNCHANGED <<dirs, logs, link, target, registry, box, state, cleanup, plan>>
  BY CalmIs, HappensIs DEF Prepare, fileVars
<1>2. Real(p) \in Dirs /\ "sweep" \in LaunchPcs
  BY RealType DEF LaunchPcs
<1> QED
  BY <1>1, <1>2 DEF TypeInv

LEMMA CleanupKeepsTypes ==
  ASSUME TypeInv,
         \/ Survey \/ SurveyStale \/ (\E d \in Dirs : RemoveLogs(d)) \/ ForgetProjects
         \/ Prune \/ Decline \/ KillCleanup
  PROVE  TypeInv'
<1>t. /\ UNCHANGED <<dirs, link, target, jobVars, plan>>
  BY CalmIs, HappensIs
     DEF Survey, SurveyStale, RemoveLogs, ForgetProjects, Prune, Decline, KillCleanup, fileVars
<1>1. logs' \subseteq logs /\ registry' \subseteq registry
  BY DEF Survey, SurveyStale, RemoveLogs, ForgetProjects, Prune, Decline, KillCleanup, fileVars
<1>2. cleanup' \in [pc : CleanupPcs, scope : SUBSET Dirs, stale : SUBSET Paths, gone : SUBSET Dirs]
  <2>c. cleanup \in [pc : CleanupPcs, scope : SUBSET Dirs, stale : SUBSET Paths,
                     gone : SUBSET Dirs]
    BY DEF TypeInv
  <2>p. CleanupPcs = {"idle", "listed", "asked", "removing", "pruning", "done"}
    BY DEF CleanupPcs
  <2>1. CASE Survey
    <3>1. PICK ps \in {registry, {}} :
            cleanup' = [cleanup EXCEPT !.pc = "listed", !.scope = Orphaned(ps)]
      BY <2>1 DEF Survey
    <3>2. Orphaned(ps) \in SUBSET Dirs
      BY DEF Orphaned, TypeInv
    <3> QED
      BY <2>c, <2>p, <3>1, <3>2
  <2>2. CASE SurveyStale
    <3>1. cleanup' = [cleanup EXCEPT !.pc = "asked", !.stale = Stale(registry)]
      BY <2>2 DEF SurveyStale
    <3>2. Stale(registry) \in SUBSET Paths
      BY DEF Stale, TypeInv
    <3> QED
      BY <2>c, <2>p, <3>1, <3>2
  <2>3. ASSUME NEW d \in Dirs, RemoveLogs(d) PROVE cleanup' \in [pc : CleanupPcs,
            scope : SUBSET Dirs, stale : SUBSET Paths, gone : SUBSET Dirs]
    <3>1. \/ cleanup' = [cleanup EXCEPT !.pc = "removing", !.scope = @ \ {d}, !.gone = @ \cup {d}]
          \/ cleanup' = [cleanup EXCEPT !.pc = "removing", !.scope = @ \ {d}]
      BY <2>3 DEF RemoveLogs
    <3>2. /\ cleanup.scope \ {d} \in SUBSET Dirs /\ cleanup.gone \cup {d} \in SUBSET Dirs
          /\ "removing" \in CleanupPcs
      BY <2>c, <2>p
    <3> QED
      BY <2>c, <3>1, <3>2
  <2>4. CASE ForgetProjects
    BY <2>c, <2>p, <2>4 DEF ForgetProjects
  <2>5. CASE Prune
    BY <2>c, <2>p, <2>5 DEF Prune
  <2>6. CASE Decline
    BY <2>c, <2>p, <2>6 DEF Decline
  <2>7. CASE KillCleanup
    BY <2>c, <2>p, <2>7 DEF KillCleanup
  <2> QED
    BY <2>1, <2>2, <2>3, <2>4, <2>5, <2>6, <2>7
<1> QED
  BY <1>t, <1>1, <1>2 DEF TypeInv, jobVars

LEMMA TypeStep == ASSUME TypeInv, [Next]_vars PROVE TypeInv'
<1>1. CASE UserStep
  BY <1>1, UserIs DEF TypeInv, jobVars
<1>2. ASSUME NEW l \in Launches, NEW q \in Requests, Request(l, q) PROVE TypeInv'
  <2>1. /\ l \in box /\ logs' = logs \cup {job[l].at}
        /\ UNCHANGED <<dirs, link, target, registry, jobVars, cleanup, plan>>
    BY <1>2, CalmIs DEF Request
  <2>2. job[l].at \in Dirs
    BY <2>1 DEF TypeInv
  <2> QED
    BY <2>1, <2>2 DEF TypeInv, jobVars
<1>3. CASE (\E s \in SessionsOf(disk) : IngestRead(s)) \/ IngestCommit
  <2>1. UNCHANGED <<dirs, link, target, logs, registry, jobVars, cleanup, plan>>
    BY <1>3, CalmIs DEF IngestRead, IngestCommit, fileVars
  <2> QED
    BY <2>1 DEF TypeInv, jobVars
<1>4. CASE UNCHANGED vars
  BY <1>4 DEF TypeInv, vars, fileVars, jobVars, counters
<1> QED
  BY <1>1, <1>2, <1>3, <1>4, StepIs, PrepareKeepsTypes, LaunchKeepsTypes, CleanupKeepsTypes

LEMMA InitType == Init => TypeInv
<1> SUFFICES ASSUME Init PROVE TypeInv
  OBVIOUS
<1>1. PICK s \in Plans :
        /\ plan = s /\ dirs = s.dirs /\ registry = s.registry
        /\ link = [d \in Dirs |-> IF d \in s.dirs \cap Registered(s) THEN d ELSE NoPath]
        /\ logs = s.dirs \cap Registered(s) /\ target = Target
        /\ job = [l \in Launches |-> [pc |-> "idle", at |-> NoPath, path |-> NoPath]]
        /\ box = {} /\ state = [l \in Launches |-> "none"] /\ live = {}
        /\ cleanup = [pc |-> "idle", scope |-> {}, stale |-> {}, gone |-> {}]
  BY DEF Init
<1>2. s.dirs \subseteq Dirs /\ s.registry \subseteq Paths /\ Target \in [Aliases -> Dirs]
  BY AccountsAssumption
<1> QED
  BY <1>1, <1>2 DEF TypeInv, LaunchPcs, CleanupPcs

\* Every variable that cleanup depends on stays in its type, and a launch that has
\* begun has a directory (prepare and run_cleanup, whatever fails on the way).
THEOREM TypeCorrect == Spec => []TypeInv
<1>1. TypeInv /\ [Next]_vars => TypeInv'
  BY TypeStep
<1> QED
  BY <1>1, InitType, PTL DEF Spec

-----------------------------------------------------------------------------
(* What was removed is forgotten.                                          *)

\* What slipped stays on record.
LEMMA SlipsGrow == ASSUME TypeInv, [Next]_vars PROVE slips \subseteq slips'
<1>1. CASE UserStep
  BY <1>1, UserIs
<1>2. ASSUME NEW l \in Launches, NEW p \in Paths, Prepare(l, p) PROVE slips \subseteq slips'
  BY <1>2 DEF Prepare
<1>3. ASSUME NEW l \in Launches,
             \/ Sweep(l) \/ LinkLogs(l) \/ LinkFails(l) \/ DropAliases(l) \/ Record(l)
             \/ RecordFails(l) \/ StartBox(l) \/ Age(l) \/ Exit(l) \/ KillLaunch(l)
      PROVE  slips \subseteq slips'
  BY <1>3 DEF Sweep, LinkLogs, LinkFails, DropAliases, Record, RecordFails, StartBox, Age, Exit,
              KillLaunch, Late
<1>4. ASSUME NEW l \in Launches, NEW q \in Requests, Request(l, q) PROVE slips \subseteq slips'
  BY <1>4 DEF Request
<1>5. CASE (\E s \in SessionsOf(disk) : IngestRead(s)) \/ IngestCommit
  BY <1>5 DEF IngestRead, IngestCommit
<1>6. CASE \/ Survey \/ SurveyStale \/ (\E d \in Dirs : RemoveLogs(d)) \/ ForgetProjects
           \/ Prune \/ Decline \/ KillCleanup
  BY <1>6 DEF Survey, SurveyStale, RemoveLogs, ForgetProjects, Prune, Decline, KillCleanup
<1>7. CASE UNCHANGED vars
  BY <1>7 DEF vars
<1> QED
  BY <1>1, <1>2, <1>3, <1>4, <1>5, <1>6, <1>7, StepIs

\* A directory whose rows may be there: it exists, or cleanup is at it.
Accounted(h) == h \in logs \/ (cleanup.pc = "removing" /\ h \in cleanup.gone)
Excused == slips \cap {"overlap", "kill"} # {}

\* What a pass has in hand, or has marked as read, is accounted for as well.
ForgottenInv ==
  /\ \A x \in disk : x.session.hash \in logs
  /\ pass.batch \subseteq pass.mark
  /\ Excused \/ \A x \in rows \cup mark \cup pass.mark : Accounted(x.session.hash)

LEMMA RowSession == ASSUME NEW l, NEW q PROVE Row(l, q).session.hash = job[l].at
<1> DEFINE sess == [hash |-> job[l].at, provider |-> Info[q].provider, id |-> l]
           key  == [id |-> q, session |-> sess, line |-> 1 + Cardinality(OfSession(disk, sess))]
           read == Parse(BuildRecord(Info[q]))
<1>1. "session" \in DOMAIN key /\ key["session"].hash = job[l].at
  OBVIOUS
<1> HIDE DEF key, read
<1>2. Row(l, q) =
        [f \in DOMAIN key \cup DOMAIN read |-> IF f \in DOMAIN key THEN key[f] ELSE read[f]]
  BY DEF Row, key, read
<1>3. Row(l, q)["session"] = key["session"]
  BY <1>1, <1>2
<1> QED
  BY <1>1, <1>3

\* The steps that are neither a request's, nor the index's, nor cleanup's.
LEMMA ForgottenAside ==
  ASSUME ForgottenInv, logs \subseteq logs', slips \subseteq slips',
         UNCHANGED <<disk, indexVars, cleanup>>
  PROVE  ForgottenInv'
BY DEF ForgottenInv, Accounted, Excused, indexVars

LEMMA ForgottenStep ==
  ASSUME TypeInv, ForgottenInv, [Next]_vars PROVE ForgottenInv'
<1>s. slips \subseteq slips'
  BY SlipsGrow
<1>1. CASE UserStep
  BY <1>1, <1>s, UserIs, ForgottenAside
<1>2. ASSUME NEW l \in Launches, NEW p \in Paths, Prepare(l, p) PROVE ForgottenInv'
  BY <1>2, <1>s, ForgottenAside DEF Prepare, fileVars
<1>3. ASSUME NEW l \in Launches,
             \/ Sweep(l) \/ LinkLogs(l) \/ LinkFails(l) \/ DropAliases(l) \/ Record(l)
             \/ RecordFails(l) \/ StartBox(l) \/ Age(l) \/ Exit(l) \/ KillLaunch(l)
      PROVE  ForgottenInv'
  <2>1. logs \subseteq logs' /\ UNCHANGED <<disk, indexVars, cleanup>>
    BY <1>3 DEF Sweep, LinkLogs, LinkFails, DropAliases, Record, RecordFails, StartBox, Age, Exit,
                KillLaunch, fileVars
  <2> QED
    BY <1>s, <2>1, ForgottenAside
<1>4. ASSUME NEW l \in Launches, NEW q \in Requests, Request(l, q) PROVE ForgottenInv'
  <2>1. /\ disk' = disk \cup {Row(l, q)} /\ logs' = logs \cup {job[l].at}
        /\ UNCHANGED <<indexVars, cleanup>>
    BY <1>4 DEF Request
  <2>2. \A x \in disk' : x.session.hash \in logs'
    BY <2>1, RowSession DEF ForgottenInv
  <2> QED
    BY <1>s, <2>1, <2>2 DEF ForgottenInv, Accounted, Excused, indexVars
<1>5. ASSUME NEW s \in SessionsOf(disk), IngestRead(s) PROVE ForgottenInv'
  <2>1. UNCHANGED <<disk, logs, cleanup>>
    BY <1>5 DEF IngestRead, fileVars
  <2>2. /\ rows' \subseteq rows /\ mark' \subseteq mark
        /\ pass'.batch \subseteq pass'.mark /\ pass'.mark \subseteq disk
    BY <1>5 DEF IngestRead, OfSession
  <2>3. \A x \in disk : x.session.hash \in logs
    BY DEF ForgottenInv
  <2>4. Excused' \/ ~ Excused
    BY <1>s DEF Excused
  <2>5. ~ Excused => \A x \in rows' \cup mark' \cup pass'.mark : Accounted(x.session.hash)
    BY <2>2, <2>3 DEF ForgottenInv, Accounted
  <2>6. \A h : Accounted(h) => h \in logs' \/ (cleanup'.pc = "removing" /\ h \in cleanup'.gone)
    BY <2>1 DEF Accounted
  <2> QED
    BY <2>1, <2>2, <2>3, <2>4, <2>5, <2>6 DEF ForgottenInv, Accounted
<1>6. CASE IngestCommit
  <2>1. UNCHANGED <<disk, logs, cleanup>>
    BY <1>6 DEF IngestCommit, fileVars
  <2>2. /\ rows' \subseteq rows \cup pass.mark /\ mark' \subseteq mark \cup pass.mark
        /\ pass'.batch = {} /\ pass'.mark = {}
    BY <1>6 DEF IngestCommit, Commit, Others, ForgottenInv
  <2> QED
    BY <1>s, <2>1, <2>2 DEF ForgottenInv, Accounted, Excused
<1>7. CASE Survey \/ SurveyStale \/ Prune \/ Decline \/ KillCleanup
  <2>1. UNCHANGED <<disk, logs, indexVars>>
    BY <1>7 DEF Survey, SurveyStale, Prune, Decline, KillCleanup, fileVars
  <2>2. cleanup.pc # "removing" \/ Excused'
    BY <1>7 DEF Survey, SurveyStale, Prune, Decline, KillCleanup, Excused
  <2> QED
    BY <1>s, <2>1, <2>2 DEF ForgottenInv, Accounted, Excused, indexVars
<1>8. ASSUME NEW d \in Dirs, RemoveLogs(d) PROVE ForgottenInv'
  <2>c. cleanup \in [pc : CleanupPcs, scope : SUBSET Dirs, stale : SUBSET Paths,
                     gone : SUBSET Dirs]
    BY DEF TypeInv
  <2>u. UNCHANGED indexVars /\ cleanup.pc \in {"asked", "removing"}
    BY <1>8 DEF RemoveLogs
  <2>1. CASE /\ logs' = logs \ {d} /\ disk' = {x \in disk : x.session.hash # d}
             /\ cleanup' = [cleanup EXCEPT !.pc = "removing", !.scope = @ \ {d}, !.gone = @ \cup {d}]
    <3>1. cleanup'.pc = "removing" /\ cleanup'.gone = cleanup.gone \cup {d}
      BY <2>c, <2>1
    <3>2. \A h : Accounted(h) => h \in logs' \/ h \in cleanup'.gone
      BY <2>1, <3>1 DEF Accounted
    <3> QED
      BY <1>s, <2>u, <2>1, <3>1, <3>2 DEF ForgottenInv, Accounted, Excused, indexVars
  <2>2. CASE /\ logs' = logs /\ disk' \subseteq disk
             /\ cleanup' = [cleanup EXCEPT !.pc = "removing", !.scope = @ \ {d}]
    <3>1. cleanup'.pc = "removing" /\ cleanup'.gone = cleanup.gone
      BY <2>c, <2>2
    <3> QED
      BY <1>s, <2>u, <2>2, <3>1 DEF ForgottenInv, Accounted, Excused, indexVars
  <2> QED
    BY <1>8, <2>1, <2>2 DEF RemoveLogs
<1>9. CASE ForgetProjects
  <2>c. cleanup \in [pc : CleanupPcs, scope : SUBSET Dirs, stale : SUBSET Paths,
                     gone : SUBSET Dirs]
    BY DEF TypeInv
  <2> DEFINE Kept(S) == {x \in S : x.session.hash \notin cleanup.gone}
  <2>1. /\ rows' = Kept(rows) /\ mark' = Kept(mark) /\ UNCHANGED <<disk, logs, pass>>
        /\ slips' = IF Kept(pass.mark) = pass.mark THEN slips ELSE slips \cup {"overlap"}
    BY <1>9 DEF ForgetProjects, fileVars
  <2>2. ~ Excused' => \A x \in pass.mark : x.session.hash \notin cleanup.gone
    <3>1. ~ Excused' => Kept(pass.mark) = pass.mark
      BY <2>1 DEF Excused
    <3> QED
      BY <3>1
  <2>3. ~ Excused' => \A x \in rows' \cup mark' \cup pass'.mark : x.session.hash \in logs'
    BY <1>s, <2>1, <2>2 DEF ForgottenInv, Accounted, Excused
  <2> QED
    BY <2>1, <2>3 DEF ForgottenInv, Accounted
<1>10. CASE UNCHANGED vars
  BY <1>s, <1>10, ForgottenAside DEF vars, fileVars
<1> QED
  BY <1>1, <1>2, <1>3, <1>4, <1>5, <1>6, <1>7, <1>8, <1>9, <1>10, StepIs

\* DeletedIsForgotten: when cleanup is past a directory it removed, no row of it is
\* left in the index, whatever passes were under way and whatever failed, unless one
\* of them overlapped with the forgetting or cleanup was killed (delete_projects).
THEOREM DeletedIsForgottenHolds == Spec => []DeletedIsForgotten
<1>1. Init => ForgottenInv
  BY DEF Init, ForgottenInv
<1>2. TypeInv /\ ForgottenInv /\ [Next]_vars => ForgottenInv'
  BY ForgottenStep
<1>3. ForgottenInv => DeletedIsForgotten
  BY DEF ForgottenInv, Accounted, Excused, DeletedIsForgotten
<1> QED
  BY <1>1, <1>2, <1>3, TypeCorrect, PTL DEF Spec

-----------------------------------------------------------------------------
(* What is claimed is spared.                                              *)

\* A registered project's link leads to d.
Claims(d) == \E p \in registry : Real(p) \in dirs /\ link[Real(p)] = d /\ d \in logs

LEMMA ClaimsIs == ASSUME NEW d PROVE d \in Range(Owners(registry)) <=> Claims(d)
BY DEF Range, Owners, HasLogs, Claims

\* What is in the scope is there and unclaimed; until something is removed no link
\* dangles; so a project without logs gets them again only by a launch or the user.
SpareInv ==
  /\ cleanup.scope \subseteq logs
  /\ cleanup.pc \in {"listed", "asked", "removing"} /\ slips \cap {"late", "storage"} = {}
       => \A d \in cleanup.scope : ~ Claims(d)
  /\ cleanup.pc \in {"idle", "listed"} => \A d \in Dirs : link[d] \in logs \cup {NoPath}
  /\ cleanup.pc \in {"asked", "removing", "pruning"} /\ "late" \notin slips
       => \A p \in cleanup.stale : Real(p) \notin dirs \/ link[Real(p)] = NoPath

\* A step that makes no claim, but for a directory that was not there.
LEMMA SpareAside ==
  ASSUME TypeInv, SpareInv, slips \subseteq slips', UNCHANGED <<dirs, target, cleanup>>,
         logs \subseteq logs', registry' \subseteq registry \/ "storage" \in slips',
         \A d \in Dirs : link'[d] \in {link[d], NoPath}
  PROVE  SpareInv'
<1>1. \A p \in Paths : Real(p)' = Real(p) /\ Real(p) \in Dirs
  BY RealType DEF Real
<1>2. /\ cleanup.scope \subseteq Dirs /\ NoPath \notin Dirs /\ cleanup.stale \subseteq Paths
      /\ registry \subseteq Paths
  BY AccountsAssumption DEF TypeInv, Paths
<1>3. ASSUME cleanup.pc \in {"listed", "asked", "removing"}, slips' \cap {"late", "storage"} = {},
             NEW d \in cleanup.scope
      PROVE  ~ Claims(d)'
  <2>1. ~ Claims(d) /\ d \in logs /\ d \in Dirs /\ registry' \subseteq registry
    BY <1>2, <1>3 DEF SpareInv
  <2> SUFFICES ASSUME NEW p \in registry', Real(p)' \in dirs', link'[Real(p)'] = d PROVE FALSE
    BY DEF Claims
  <2>2. p \in registry /\ p \in Paths /\ Real(p) \in dirs /\ Real(p) \in Dirs
        /\ link'[Real(p)] = d
    BY <1>1, <1>2, <2>1
  <2>3. link[Real(p)] = d
    BY <1>2, <1>3, <2>1, <2>2
  <2> QED
    BY <2>1, <2>2, <2>3 DEF Claims
<1>4. cleanup.pc \in {"idle", "listed"} => \A d \in Dirs : link'[d] \in logs' \cup {NoPath}
  BY DEF SpareInv
<1>5. ASSUME cleanup.pc \in {"asked", "removing", "pruning"}, "late" \notin slips',
             NEW p \in cleanup.stale
      PROVE  Real(p)' \notin dirs' \/ link'[Real(p)'] = NoPath
  <2>1. Real(p) \notin dirs \/ link[Real(p)] = NoPath
    BY <1>5 DEF SpareInv
  <2>2. Real(p)' = Real(p) /\ Real(p) \in Dirs
    BY <1>1, <1>2
  <2> QED
    BY <1>5, <2>1, <2>2
<1> QED
  BY <1>3, <1>4, <1>5 DEF SpareInv

LEMMA SpareLaunch ==
  ASSUME TypeInv, SpareInv, NEW l \in Launches,
         \/ Sweep(l) \/ LinkLogs(l) \/ LinkFails(l) \/ DropAliases(l) \/ Record(l)
         \/ RecordFails(l) \/ StartBox(l) \/ Age(l) \/ Exit(l) \/ KillLaunch(l)
  PROVE  SpareInv'
<1> DEFINE d == job[l].at
<1>t. link \in [Dirs -> Dirs \cup {NoPath}] /\ registry \subseteq Paths
  BY DEF TypeInv
<1>1. CASE LinkLogs(l)
  <2>1. /\ logs' = logs \cup {d} /\ link' = [link EXCEPT ![d] = d] /\ d \in Dirs
        /\ slips' = IF cleanup.pc \in {"idle", "done"} THEN slips ELSE slips \cup {"late"}
        /\ UNCHANGED <<dirs, target, registry, cleanup>>
    BY <1>1 DEF LinkLogs, Step, Late, TypeInv
  <2>2. \A e \in Dirs : link'[e] = IF e = d THEN d ELSE link[e]
    BY <1>t, <2>1
  <2>3. CASE cleanup.pc \in {"idle", "done"}
    BY <2>1, <2>2, <2>3 DEF SpareInv
  <2>4. CASE cleanup.pc \notin {"idle", "done"}
    BY <2>1, <2>2, <2>4 DEF SpareInv
  <2> QED
    BY <2>3, <2>4
<1>2. CASE LinkFails(l)
  <2>1. /\ logs \subseteq logs' /\ UNCHANGED <<dirs, target, registry, cleanup, slips>>
        /\ link' = link \/ link' = [link EXCEPT ![d] = IF @ = d THEN d ELSE NoPath]
    BY <1>2 DEF LinkFails
  <2>2. \A e \in Dirs : link'[e] \in {link[e], NoPath}
    BY <1>t, <2>1
  <2>3. /\ slips \subseteq slips' /\ (registry' \subseteq registry \/ "storage" \in slips')
        /\ UNCHANGED <<dirs, target, cleanup>>
    BY <2>1
  <2> QED
    BY <2>1, <2>2, <2>3, SpareAside
<1>3. CASE DropAliases(l)
  <2>1. /\ UNCHANGED <<dirs, link, target, logs, cleanup>> /\ slips \subseteq slips'
        /\ registry' \subseteq registry \/ "storage" \in slips'
    BY <1>3 DEF DropAliases, fileVars
  <2>2. /\ logs \subseteq logs' /\ UNCHANGED <<dirs, target, cleanup>>
        /\ \A e \in Dirs : link'[e] \in {link[e], NoPath}
    BY <2>1
  <2> QED
    BY <2>1, <2>2, SpareAside
<1>4. CASE Record(l)
  <2>1. /\ slips' = IF cleanup.pc \in {"idle", "done"} THEN slips ELSE slips \cup {"late"}
        /\ UNCHANGED <<dirs, link, target, logs, cleanup>>
    BY <1>4 DEF Record, Late, fileVars
  <2>2. CASE cleanup.pc \in {"idle", "done"}
    BY <2>1, <2>2 DEF SpareInv
  <2>3. CASE cleanup.pc \notin {"idle", "done"}
    BY <2>1, <2>3 DEF SpareInv
  <2> QED
    BY <2>2, <2>3
<1>5. CASE Sweep(l) \/ RecordFails(l) \/ StartBox(l) \/ Age(l) \/ Exit(l) \/ KillLaunch(l)
  <2>1. UNCHANGED <<dirs, link, target, logs, registry, cleanup>> /\ slips \subseteq slips'
    BY <1>5 DEF Sweep, RecordFails, StartBox, Age, Exit, KillLaunch, fileVars
  <2>2. /\ logs \subseteq logs' /\ slips \subseteq slips' /\ registry' \subseteq registry
        /\ UNCHANGED <<dirs, target, cleanup>>
        /\ \A e \in Dirs : link'[e] \in {link[e], NoPath}
    BY <2>1
  <2> QED
    BY <2>2, SpareAside
<1> QED
  BY <1>1, <1>2, <1>3, <1>4, <1>5

LEMMA SpareCleanup ==
  ASSUME TypeInv, SpareInv,
         \/ Survey \/ SurveyStale \/ (\E d \in Dirs : RemoveLogs(d)) \/ ForgetProjects
         \/ Prune \/ Decline \/ KillCleanup
  PROVE  SpareInv'
<1>t. /\ cleanup \in [pc : CleanupPcs, scope : SUBSET Dirs, stale : SUBSET Paths,
                      gone : SUBSET Dirs]
      /\ registry \subseteq Paths /\ NoPath \notin Dirs
  BY AccountsAssumption DEF TypeInv, Paths
<1>u. /\ UNCHANGED <<dirs, link, target>> /\ \A p \in Paths : Real(p)' = Real(p)
      /\ registry' \subseteq registry /\ logs' \subseteq logs /\ slips \subseteq slips'
  BY DEF Survey, SurveyStale, RemoveLogs, ForgetProjects, Prune, Decline, KillCleanup, fileVars,
         Real
<1>c. \A d \in Dirs : Claims(d)' => Claims(d)
  BY <1>t, <1>u DEF Claims
<1>1. CASE Survey
  <2>1. /\ cleanup.pc = "idle" /\ cleanup'.pc = "listed" /\ UNCHANGED logs
        /\ \/ cleanup'.scope = Orphaned(registry)
           \/ cleanup'.scope = Orphaned({}) /\ "storage" \in slips'
    BY <1>1, <1>t DEF Survey, fileVars
  <2>2. cleanup'.scope \subseteq logs' /\ cleanup'.scope \subseteq Dirs
    BY <2>1 DEF Orphaned, TypeInv
  <2>3. \/ "storage" \in slips' \/ \A d \in cleanup'.scope : ~ Claims(d)
    BY <2>1, ClaimsIs DEF Orphaned
  <2> QED
    BY <1>u, <1>c, <2>1, <2>2, <2>3 DEF SpareInv
<1>2. CASE SurveyStale
  <2>1. /\ cleanup.pc = "listed" /\ cleanup'.pc = "asked" /\ UNCHANGED logs
        /\ cleanup'.scope = cleanup.scope /\ cleanup'.stale = Stale(registry)
    BY <1>2, <1>t DEF SurveyStale, fileVars
  <2>2. \A p \in cleanup'.stale : p \in Paths /\ (Real(p) \notin dirs \/ link[Real(p)] = NoPath)
    <3>1. \A p \in cleanup'.stale : p \in Paths /\ ~ HasLogs(p) /\ Real(p) \in Dirs
      BY <1>t, <2>1, RealType DEF Stale
    <3>2. \A d \in Dirs : link[d] \in logs \cup {NoPath}
      BY <2>1 DEF SpareInv
    <3> QED
      BY <3>1, <3>2 DEF HasLogs
  <2> QED
    BY <1>t, <1>u, <1>c, <2>1, <2>2 DEF SpareInv
<1>3. ASSUME NEW d \in Dirs, RemoveLogs(d) PROVE SpareInv'
  <2>1. /\ cleanup.pc \in {"asked", "removing"} /\ cleanup'.pc = "removing"
        /\ cleanup'.scope = cleanup.scope \ {d} /\ cleanup'.stale = cleanup.stale
        /\ logs' \in {logs, logs \ {d}}
    BY <1>3, <1>t DEF RemoveLogs
  <2> QED
    BY <1>t, <1>u, <1>c, <2>1 DEF SpareInv
<1>4. CASE ForgetProjects
  <2>1. /\ cleanup.pc \in {"asked", "removing"} /\ cleanup'.pc = "pruning" /\ UNCHANGED logs
        /\ cleanup'.scope = cleanup.scope /\ cleanup'.stale = cleanup.stale
    BY <1>4, <1>t DEF ForgetProjects, fileVars
  <2> QED
    BY <1>t, <1>u, <2>1 DEF SpareInv
<1>5. CASE Prune \/ Decline \/ KillCleanup
  <2>1. cleanup'.pc = "done" /\ UNCHANGED logs /\ cleanup'.scope = cleanup.scope
    BY <1>5, <1>t DEF Prune, Decline, KillCleanup, fileVars
  <2> QED
    BY <2>1 DEF SpareInv
<1> QED
  BY <1>1, <1>2, <1>3, <1>4, <1>5

LEMMA SpareStep ==
  ASSUME TypeInv, SpareInv, [Next]_vars PROVE SpareInv'
<1>s. slips \subseteq slips'
  BY SlipsGrow
<1>1. CASE UserStep
  <2>1. /\ UNCHANGED <<logs, cleanup>>
        /\ slips' = slips \cup {"user"}
                      \cup (IF cleanup.pc \in {"idle", "done"} THEN {} ELSE {"late"})
        /\ \A e \in Dirs : link'[e] = NoPath \/ \E d \in Dirs : link'[e] = link[d]
    BY <1>1, UserIs
  <2>2. cleanup.pc \in {"idle", "listed"} => \A d \in Dirs : link'[d] \in logs' \cup {NoPath}
    BY <2>1 DEF SpareInv
  <2>3. CASE cleanup.pc \in {"idle", "done"}
    BY <2>1, <2>2, <2>3 DEF SpareInv
  <2>4. CASE cleanup.pc \notin {"idle", "done"}
    BY <2>1, <2>2, <2>4 DEF SpareInv
  <2> QED
    BY <2>3, <2>4
<1>2. ASSUME NEW l \in Launches, NEW p \in Paths, Prepare(l, p) PROVE SpareInv'
  <2>1. UNCHANGED <<dirs, link, target, logs, registry, cleanup>>
    BY <1>2 DEF Prepare, fileVars
  <2>2. /\ logs \subseteq logs' /\ registry' \subseteq registry /\ UNCHANGED <<dirs, target, cleanup>>
        /\ \A e \in Dirs : link'[e] \in {link[e], NoPath}
    BY <2>1
  <2> QED
    BY <1>s, <2>2, SpareAside
<1>3. ASSUME NEW l \in Launches, NEW q \in Requests, Request(l, q) PROVE SpareInv'
  <2>1. logs \subseteq logs' /\ UNCHANGED <<dirs, link, target, registry, cleanup>>
    BY <1>3 DEF Request
  <2>2. /\ logs \subseteq logs' /\ registry' \subseteq registry /\ UNCHANGED <<dirs, target, cleanup>>
        /\ \A e \in Dirs : link'[e] \in {link[e], NoPath}
    BY <2>1
  <2> QED
    BY <1>s, <2>2, SpareAside
<1>4. CASE (\E s \in SessionsOf(disk) : IngestRead(s)) \/ IngestCommit
  <2>1. UNCHANGED <<dirs, link, target, logs, registry, cleanup>>
    BY <1>4 DEF IngestRead, IngestCommit, fileVars
  <2>2. /\ logs \subseteq logs' /\ registry' \subseteq registry /\ UNCHANGED <<dirs, target, cleanup>>
        /\ \A e \in Dirs : link'[e] \in {link[e], NoPath}
    BY <2>1
  <2> QED
    BY <1>s, <2>2, SpareAside
<1>5. CASE UNCHANGED vars
  <2>1. UNCHANGED <<dirs, link, target, logs, registry, cleanup>>
    BY <1>5 DEF vars, fileVars
  <2>2. /\ logs \subseteq logs' /\ registry' \subseteq registry /\ UNCHANGED <<dirs, target, cleanup>>
        /\ \A e \in Dirs : link'[e] \in {link[e], NoPath}
    BY <2>1
  <2> QED
    BY <1>s, <2>2, SpareAside
<1> QED
  BY <1>1, <1>2, <1>3, <1>4, <1>5, StepIs, SpareLaunch, SpareCleanup

LEMMA SpareInit == Init => SpareInv
<1> SUFFICES ASSUME Init PROVE SpareInv
  OBVIOUS
<1>1. PICK s \in Plans :
        /\ link = [d \in Dirs |-> IF d \in s.dirs \cap Registered(s) THEN d ELSE NoPath]
        /\ logs = s.dirs \cap Registered(s)
        /\ cleanup = [pc |-> "idle", scope |-> {}, stale |-> {}, gone |-> {}]
  BY DEF Init
<1> QED
  BY <1>1 DEF SpareInv

LEMMA SpareHolds == Spec => [](TypeInv /\ SpareInv)
<1>1. TypeInv /\ SpareInv /\ [Next]_vars => (TypeInv /\ SpareInv)'
  BY TypeStep, SpareStep
<1> QED
  BY <1>1, InitType, SpareInit, PTL DEF Spec

\* Only cleanup removes a log directory, and only it forgets a project in a step of
\* its own.
LEMMA RemovesIs ==
  ASSUME TypeInv, [Next]_vars
  PROVE  /\ \A d \in logs \ logs' : RemoveLogs(d)
         /\ registry' # registry /\ cleanup' # cleanup => Prune
<1>1. CASE UserStep
  BY <1>1, UserIs
<1>2. ASSUME NEW l \in Launches,
             \/ \E p \in Paths : Prepare(l, p)
             \/ Sweep(l) \/ LinkLogs(l) \/ LinkFails(l) \/ DropAliases(l) \/ Record(l)
             \/ RecordFails(l) \/ StartBox(l) \/ Age(l) \/ Exit(l) \/ KillLaunch(l)
             \/ \E q \in Requests : Request(l, q)
      PROVE  logs \subseteq logs' /\ UNCHANGED cleanup
  BY <1>2 DEF Prepare, Sweep, LinkLogs, LinkFails, DropAliases, Record, RecordFails, StartBox, Age, Exit,
              KillLaunch, Request, fileVars
<1>3. CASE (\E s \in SessionsOf(disk) : IngestRead(s)) \/ IngestCommit \/ UNCHANGED vars
  BY <1>3 DEF IngestRead, IngestCommit, fileVars, vars
<1>4. CASE Survey \/ SurveyStale \/ ForgetProjects \/ Prune \/ Decline \/ KillCleanup
  BY <1>4 DEF Survey, SurveyStale, ForgetProjects, Prune, Decline, KillCleanup, fileVars
<1>5. ASSUME NEW d \in Dirs, RemoveLogs(d)
      PROVE  logs \ logs' \subseteq {d} /\ UNCHANGED registry
  BY <1>5 DEF RemoveLogs
<1> QED
  BY <1>1, <1>2, <1>3, <1>4, <1>5, StepIs

\* CleanupSpares: no step of cleanup removes a log directory that a registered
\* project claims, or forgets a project that has one, unless the claim came after the
\* survey or the registry could not be read (run_cleanup).
THEOREM CleanupSparesHolds == Spec => CleanupSpares
<1>1. ASSUME TypeInv, SpareInv, [Next]_vars
      PROVE  [/\ \A d \in logs \ logs' : d \in Range(Owners(registry))
                                           => slips \cap {"late", "storage"} # {}
              /\ \A p \in registry \ registry' : cleanup' # cleanup /\ HasLogs(p)
                                                   => "late" \in slips]_vars
  <2>1. ASSUME NEW d \in logs \ logs', d \in Range(Owners(registry))
        PROVE  slips \cap {"late", "storage"} # {}
    <3>1. cleanup.pc \in {"asked", "removing"} /\ d \in cleanup.scope
      BY <1>1, <2>1, RemovesIs DEF RemoveLogs
    <3>2. Claims(d)
      BY <2>1, ClaimsIs
    <3> QED
      BY <1>1, <3>1, <3>2 DEF SpareInv
  <2>2. ASSUME NEW p \in registry \ registry', cleanup' # cleanup, HasLogs(p)
        PROVE  "late" \in slips
    <3>1. Prune
      BY <1>1, <2>2, RemovesIs
    <3>2. cleanup.pc = "pruning" /\ p \in cleanup.stale
      BY <2>2, <3>1 DEF Prune
    <3>3. NoPath \notin logs
      BY <1>1, AccountsAssumption DEF TypeInv, Paths
    <3> QED
      BY <1>1, <2>2, <3>2, <3>3 DEF SpareInv, HasLogs
  <2> QED
    BY <2>1, <2>2
<1> QED
  BY <1>1, SpareHolds, PTL DEF Spec, CleanupSpares

-----------------------------------------------------------------------------
(* Who claims a log directory.                                              *)

Astray == slips \cap {"user", "storage"} # {}

\* One launch at a time is in _prepare_config.  Until something went astray a link names
\* the directory of its own project, no directory is registered under two spellings, and
\* a launch about to record its own has met no other one.
ClaimedInv ==
  /\ \A l, m \in Locked : l = m
  /\ Astray \/ /\ \A d \in Dirs : link[d] \in {d, NoPath}
               /\ \A p, q \in registry : Real(p) = Real(q) => p = q
               /\ \A l \in Launches : job[l].pc = "record" =>
                    \A q \in registry : Real(q) = job[l].at => q = Spelled(l)

\* The steps that leave symlinks alone, register nothing and bring no launch to record.
LEMMA ClaimedAside ==
  ASSUME ClaimedInv, slips \subseteq slips', UNCHANGED target, registry' \subseteq registry,
         \A d \in Dirs : link'[d] \in {link[d], d, NoPath},
         \A l \in Launches : job'[l].pc \in {"sweep", "link", "alias", "record"} => l \in Locked,
         \A l \in Launches : job'[l].pc = "record" => job'[l] = job[l]
  PROVE  ClaimedInv'
<1>1. Locked' \subseteq Locked
  BY DEF Locked
<1>2. Astray' \/ ~ Astray
  BY DEF Astray
<1>3. \A p : Real(p)' = Real(p)
  BY DEF Real
<1>4. ~ Astray => \A d \in Dirs : link'[d] \in {d, NoPath}
  BY DEF ClaimedInv
<1>5. ~ Astray => \A p, q \in registry' : Real(p)' = Real(q)' => p = q
  BY <1>3 DEF ClaimedInv
<1>6. ~ Astray => \A l \in Launches : job'[l].pc = "record" =>
                    \A q \in registry' : Real(q)' = job'[l].at => q = Spelled(l)'
  BY <1>3 DEF ClaimedInv, Spelled
<1>7. \A l, m \in Locked' : l = m
  BY <1>1 DEF ClaimedInv
<1> QED
  BY <1>2, <1>4, <1>5, <1>6, <1>7 DEF ClaimedInv

\* The path a launch records leads to its directory.
LEMMA SpelledIs ==
  ASSUME TypeInv, NEW l \in Launches, job[l].pc # "idle" PROVE Real(Spelled(l)) = job[l].at
BY AccountsAssumption DEF TypeInv, Spelled, Real

LEMMA ClaimedLaunch ==
  ASSUME TypeInv, ClaimedInv, NEW l \in Launches,
         \/ Sweep(l) \/ LinkLogs(l) \/ LinkFails(l) \/ DropAliases(l) \/ Record(l)
         \/ RecordFails(l) \/ StartBox(l) \/ Age(l) \/ Exit(l) \/ KillLaunch(l)
  PROVE  ClaimedInv'
<1>t. /\ job \in [Launches -> [pc : LaunchPcs, at : Dirs \cup {NoPath}, path : Paths \cup {NoPath}]]
      /\ link \in [Dirs -> Dirs \cup {NoPath}]
      /\ job[l].pc # "idle" => job[l].at \in Dirs
  BY DEF TypeInv
<1>s. slips \subseteq slips'
  BY DEF Sweep, LinkLogs, LinkFails, DropAliases, Record, RecordFails, StartBox, Age, Exit, KillLaunch,
         Late
<1>1. ASSUME NEW to \in {"link", "alias", "start", "up", "gone"}, job' = [job EXCEPT ![l].pc = to],
             to = "alias" => job[l].pc = "link", to = "link" => job[l].pc = "sweep"
      PROVE  /\ \A m \in Launches : job'[m].pc \in {"sweep", "link", "alias", "record"} => m \in Locked
             /\ \A m \in Launches : job'[m].pc = "record" => job'[m] = job[m]
  BY <1>t, <1>1 DEF Locked
<1>2. CASE LinkLogs(l)
  <2>1. /\ job[l].pc = "link" /\ job' = [job EXCEPT ![l].pc = "alias"]
        /\ link' = [link EXCEPT ![job[l].at] = job[l].at] /\ UNCHANGED <<target, registry>>
    BY <1>2 DEF LinkLogs, Step
  <2>2. \A d \in Dirs : link'[d] \in {link[d], d, NoPath}
    BY <1>t, <2>1
  <2> QED
    BY <1>1, <1>s, <2>1, <2>2, ClaimedAside
<1>3. CASE LinkFails(l)
  <2>1. /\ job[l].pc = "link" /\ job' = [job EXCEPT ![l].pc = "alias"]
        /\ link' = link
             \/ link' = [link EXCEPT ![job[l].at] = IF @ = job[l].at THEN job[l].at ELSE NoPath]
        /\ UNCHANGED <<target, registry>>
    BY <1>3 DEF LinkFails, Step
  <2>2. \A d \in Dirs : link'[d] \in {link[d], d, NoPath}
    BY <1>t, <2>1
  <2> QED
    BY <1>1, <1>s, <2>1, <2>2, ClaimedAside
<1>4. CASE DropAliases(l)
  <2>1. /\ job[l].pc = "alias" /\ job' = [job EXCEPT ![l].pc = "record"]
        /\ registry' = registry \ Superseded(l) \/ Astray'
        /\ UNCHANGED <<target, link>>
    BY <1>4 DEF DropAliases, Step, fileVars, Astray
  <2>2. Locked' = Locked /\ job'[l].at = job[l].at /\ job'[l].path = job[l].path
    BY <1>t, <2>1 DEF Locked
  <2>3. \A p : Real(p)' = Real(p)
    BY <2>1 DEF Real
  <2>4. Spelled(l)' = Spelled(l)
    BY <2>2, <2>3 DEF Spelled
  <2>5. \A m \in Launches \ {l} : job'[m].pc # "record"
    <3>1. l \in Locked
      BY <2>1 DEF Locked
    <3> QED
      BY <1>t, <2>1, <3>1 DEF ClaimedInv, Locked
  <2>6. CASE registry' = registry \ Superseded(l)
    <3>1. \A q \in registry' : q \in registry /\ (Real(q) = job[l].at => q = Spelled(l))
      BY <2>6 DEF Superseded
    <3> QED
      BY <1>s, <2>1, <2>2, <2>3, <2>4, <2>5, <3>1 DEF ClaimedInv, Astray
  <2>7. CASE Astray'
    BY <2>2, <2>7 DEF ClaimedInv
  <2> QED
    BY <2>1, <2>6, <2>7
<1>5. CASE Record(l)
  <2>1. /\ job[l].pc = "record" /\ job' = [job EXCEPT ![l].pc = "start"]
        /\ registry' = registry \cup {Spelled(l)} /\ UNCHANGED <<target, link>>
    BY <1>5 DEF Record, Step, fileVars
  <2>2. \A p : Real(p)' = Real(p)
    BY <2>1 DEF Real
  <2>3. Locked' \subseteq Locked /\ \A m \in Launches : job'[m].pc # "record"
    <3>1. l \in Locked
      BY <2>1 DEF Locked
    <3> QED
      BY <1>t, <2>1, <3>1 DEF ClaimedInv, Locked
  <2>4. ~ Astray => \A q \in registry : Real(q) = Real(Spelled(l)) => q = Spelled(l)
    BY <2>1, SpelledIs DEF ClaimedInv
  <2>5. ~ Astray => \A p, q \in registry' : Real(p)' = Real(q)' => p = q
    BY <2>1, <2>2, <2>4 DEF ClaimedInv
  <2> QED
    BY <1>s, <2>1, <2>3, <2>5 DEF ClaimedInv, Astray
<1>6. CASE RecordFails(l) \/ StartBox(l) \/ KillLaunch(l) \/ Exit(l)
  <2>1. /\ \E to \in {"start", "up", "gone"} : job' = [job EXCEPT ![l].pc = to]
        /\ UNCHANGED <<target, link, registry>>
    BY <1>6 DEF RecordFails, StartBox, KillLaunch, Exit, Step, fileVars
  <2> QED
    BY <1>1, <1>s, <2>1, ClaimedAside
<1>7. CASE Age(l)
  <2>1. UNCHANGED <<target, link, registry, job>>
    BY <1>7 DEF Age, fileVars
  <2> QED
    BY <1>s, <2>1, ClaimedAside DEF Locked
<1>8. CASE Sweep(l)
  <2>1. /\ job[l].pc = "sweep" /\ job' = [job EXCEPT ![l].pc = "link"]
        /\ UNCHANGED <<target, link, registry>>
    BY <1>8 DEF Sweep, Step, fileVars
  <2> QED
    BY <1>1, <1>s, <2>1, ClaimedAside
<1> QED
  BY <1>2, <1>3, <1>4, <1>5, <1>6, <1>7, <1>8

LEMMA ClaimedStep == ASSUME TypeInv, ClaimedInv, [Next]_vars PROVE ClaimedInv'
<1>s. slips \subseteq slips'
  BY SlipsGrow
<1>1. CASE UserStep
  <2>1. Astray' /\ UNCHANGED job
    BY <1>1, UserIs DEF Astray, jobVars
  <2>2. Locked' = Locked
    BY <2>1 DEF Locked
  <2> QED
    BY <2>1, <2>2 DEF ClaimedInv
<1>2. ASSUME NEW l \in Launches, NEW p \in Paths, Prepare(l, p) PROVE ClaimedInv'
  <2>1. /\ Locked = {} /\ job' = [job EXCEPT ![l] = [pc |-> "sweep", at |-> Real(p), path |-> p]]
        /\ UNCHANGED <<target, link, registry>>
    BY <1>2 DEF Prepare, fileVars
  <2>2. Locked' \subseteq {l} /\ \A m \in Launches : job'[m].pc # "record"
    BY <2>1 DEF Locked, TypeInv
  <2>3. \A q : Real(q)' = Real(q)
    BY <2>1 DEF Real
  <2> QED
    BY <1>s, <2>1, <2>2, <2>3 DEF ClaimedInv, Astray
<1>3. ASSUME NEW l \in Launches, NEW q \in Requests, Request(l, q) PROVE ClaimedInv'
  BY <1>3, <1>s, ClaimedAside DEF Request, jobVars, Locked
<1>4. CASE \/ (\E s \in SessionsOf(disk) : IngestRead(s)) \/ IngestCommit \/ UNCHANGED vars
           \/ Survey \/ SurveyStale \/ (\E d \in Dirs : RemoveLogs(d)) \/ ForgetProjects
           \/ Prune \/ Decline \/ KillCleanup
  <2>1. UNCHANGED <<target, link, jobVars>> /\ registry' \subseteq registry
    BY <1>4 DEF IngestRead, IngestCommit, Survey, SurveyStale, RemoveLogs, ForgetProjects, Prune,
                Decline, KillCleanup, vars, fileVars
  <2> QED
    BY <1>s, <2>1, ClaimedAside DEF jobVars, Locked
<1> QED
  BY <1>1, <1>2, <1>3, <1>4, ClaimedLaunch, StepIs

LEMMA ClaimedInit == Init => ClaimedInv
<1> SUFFICES ASSUME Init PROVE ClaimedInv
  OBVIOUS
<1>1. PICK s \in Plans :
        /\ registry = s.registry /\ target = Target
        /\ link = [d \in Dirs |-> IF d \in s.dirs \cap Registered(s) THEN d ELSE NoPath]
        /\ job = [l \in Launches |-> [pc |-> "idle", at |-> NoPath, path |-> NoPath]]
  BY DEF Init
<1>2. \A p \in s.registry, a \in s.registry \cap Aliases :
        Target[a] = (IF p \in Aliases THEN Target[p] ELSE p) => p = a
  BY AccountsAssumption
<1>3. \A p, q \in registry : Real(p) = Real(q) => p = q
  BY <1>1, <1>2 DEF Real
<1>4. Locked = {} /\ \A l \in Launches : job[l].pc # "record"
  BY <1>1 DEF Locked
<1>5. \A d \in Dirs : link[d] \in {d, NoPath}
  BY <1>1
<1> QED
  BY <1>3, <1>4, <1>5 DEF ClaimedInv

\* ClaimedOnce: no log directory is claimed by two registered paths, so nobody is charged
\* for a request twice, for any number of launches at once from any spellings of their
\* directories, each of which may fail or be killed in the middle (link_litellm_logs,
\* record_project), unless the user moved files or the registry could not be read.
THEOREM ClaimedOnceHolds == Spec => []ClaimedOnce
<1>1. TypeInv /\ ClaimedInv /\ [Next]_vars => (TypeInv /\ ClaimedInv)'
  BY TypeStep, ClaimedStep
<1>2. TypeInv /\ ClaimedInv => ClaimedOnce
  <2> SUFFICES ASSUME TypeInv, ClaimedInv, ~ Astray, Shared PROVE FALSE
    BY DEF ClaimedOnce, Astray
  <2>1. PICK p, q \in DOMAIN Owners(registry) :
          p # q /\ Owners(registry)[p] = Owners(registry)[q]
    BY DEF Shared
  <2>2. /\ p \in registry /\ q \in registry /\ HasLogs(p) /\ HasLogs(q)
        /\ link[Real(p)] = link[Real(q)]
    BY <2>1 DEF Owners
  <2>3. Real(p) \in Dirs /\ Real(q) \in Dirs /\ NoPath \notin logs
    BY <2>2, RealType, AccountsAssumption DEF TypeInv, Paths
  <2>4. link[Real(p)] = Real(p) /\ link[Real(q)] = Real(q)
    BY <2>2, <2>3 DEF ClaimedInv, HasLogs
  <2> QED
    BY <2>1, <2>2, <2>4 DEF ClaimedInv
<1> QED
  BY <1>1, <1>2, InitType, ClaimedInit, PTL DEF Spec

-----------------------------------------------------------------------------
(* Which instance directories are swept.                                   *)

Timely == slips \cap {"docker", "slow"} = {}

\* An old directory that is in use is of an agent that runs, and whoever sweeps has
\* heard of it.
SweepInv ==
  Timely => \A m \in Launches : state[m] = "old" /\ InUse(m) =>
              m \in box /\ \A l \in Launches : job[l].pc = "sweep" => m \in live

\* The steps that make nothing old and start no sweep.
LEMMA SweepAside ==
  ASSUME SweepInv, slips \subseteq slips', UNCHANGED live,
         \A m \in Launches : state'[m] = "old" => state[m] = "old",
         \A m \in Launches : InUse(m)' => InUse(m) /\ (m \in box => m \in box'),
         \A l \in Launches : job'[l].pc = "sweep" => job[l].pc = "sweep"
  PROVE  SweepInv'
BY DEF SweepInv, Timely

LEMMA SweepLaunch ==
  ASSUME TypeInv, ClaimedInv, SweepInv, NEW l \in Launches,
         \/ Sweep(l) \/ LinkLogs(l) \/ LinkFails(l) \/ DropAliases(l) \/ Record(l)
         \/ RecordFails(l) \/ StartBox(l) \/ Age(l) \/ Exit(l) \/ KillLaunch(l)
  PROVE  SweepInv'
<1>t. /\ job \in [Launches -> [pc : LaunchPcs, at : Dirs \cup {NoPath}, path : Paths \cup {NoPath}]]
      /\ state \in [Launches -> {"none", "new", "old"}]
  BY DEF TypeInv
<1>s. slips \subseteq slips'
  BY DEF Sweep, LinkLogs, LinkFails, DropAliases, Record, RecordFails, StartBox, Age, Exit,
         KillLaunch, Late
<1>1. CASE LinkLogs(l) \/ LinkFails(l) \/ DropAliases(l) \/ Record(l) \/ RecordFails(l)
  <2>1. /\ job[l].pc \in {"link", "alias", "record"}
        /\ \E to \in {"alias", "record", "start"} : job' = [job EXCEPT ![l].pc = to]
        /\ UNCHANGED <<box, state, live>>
    BY <1>1 DEF LinkLogs, LinkFails, DropAliases, Record, RecordFails, Step
  <2>2. \A m \in Launches : (InUse(m)' => InUse(m)) /\ (job'[m].pc = "sweep" => job[m].pc = "sweep")
    BY <1>t, <2>1 DEF InUse
  <2> QED
    BY <1>s, <2>1, <2>2, SweepAside
<1>2. CASE StartBox(l)
  <2>1. /\ job[l].pc = "start" /\ job' = [job EXCEPT ![l].pc = "up"] /\ box' = box \cup {l}
        /\ UNCHANGED <<state, live>>
    BY <1>2 DEF StartBox, Step
  <2>2. \A m \in Launches : (InUse(m)' => InUse(m)) /\ (job'[m].pc = "sweep" => job[m].pc = "sweep")
    BY <1>t, <2>1 DEF InUse
  <2> QED
    BY <1>s, <2>1, <2>2, SweepAside
<1>3. CASE Exit(l) \/ KillLaunch(l)
  <2>1. /\ job' = [job EXCEPT ![l].pc = "gone"] /\ box' \in {box, box \ {l}} /\ UNCHANGED live
        /\ state' \in {state, [state EXCEPT ![l] = "none"]}
    BY <1>3 DEF Exit, KillLaunch
  <2>2. \A m \in Launches : /\ (InUse(m)' => InUse(m) /\ (m \in box => m \in box'))
                            /\ (job'[m].pc = "sweep" => job[m].pc = "sweep")
                            /\ (state'[m] = "old" => state[m] = "old")
    BY <1>t, <2>1 DEF InUse
  <2> QED
    BY <1>s, <2>1, <2>2, SweepAside
<1>4. CASE Age(l)
  <2>1. state' = [state EXCEPT ![l] = "old"] /\ UNCHANGED <<job, box, live>>
    BY <1>4 DEF Age
  <2>2. Timely' => (InUse(l) => Listed(l))
    BY <1>4 DEF Age, Timely
  <2> QED
    BY <1>s, <1>t, <2>1, <2>2 DEF SweepInv, Timely, InUse, Listed
<1>5. CASE Sweep(l)
  <2>1. /\ job[l].pc = "sweep" /\ job' = [job EXCEPT ![l].pc = "link"]
        /\ state' = [m \in Launches |-> IF m = l THEN "new"
                                        ELSE IF m \in Swept(l) THEN "none" ELSE state[m]]
        /\ UNCHANGED <<box, slips>>
    BY <1>5 DEF Sweep, Step
  <2>2. \A m \in Launches : job'[m].pc # "sweep"
    <3>1. l \in Locked
      BY <2>1 DEF Locked
    <3> QED
      BY <1>t, <2>1, <3>1 DEF ClaimedInv, Locked
  <2>3. \A m \in Launches : state'[m] = "old" /\ InUse(m)' => state[m] = "old" /\ InUse(m)
    BY <1>t, <2>1 DEF InUse
  <2> QED
    BY <2>1, <2>2, <2>3 DEF SweepInv, Timely
<1> QED
  BY <1>1, <1>2, <1>3, <1>4, <1>5

LEMMA SweepStep == ASSUME TypeInv, ClaimedInv, SweepInv, [Next]_vars PROVE SweepInv'
<1>s. slips \subseteq slips'
  BY SlipsGrow
<1>1. ASSUME NEW l \in Launches, NEW p \in Paths, Prepare(l, p) PROVE SweepInv'
  <2>1. /\ job' = [job EXCEPT ![l] = [pc |-> "sweep", at |-> Real(p), path |-> p]]
        /\ job[l].pc = "idle" /\ UNCHANGED <<box, state>>
        /\ live' \in {box, Launches} \/ "docker" \in slips'
    BY <1>1 DEF Prepare
  <2>2. \A m \in Launches : InUse(m)' => InUse(m)
    BY <2>1 DEF InUse, TypeInv
  <2> QED
    BY <1>s, <2>1, <2>2 DEF SweepInv, Timely
<1>2. CASE \/ UserStep \/ (\E l \in Launches, q \in Requests : Request(l, q))
           \/ (\E s \in SessionsOf(disk) : IngestRead(s)) \/ IngestCommit \/ UNCHANGED vars
           \/ Survey \/ SurveyStale \/ (\E d \in Dirs : RemoveLogs(d)) \/ ForgetProjects
           \/ Prune \/ Decline \/ KillCleanup
  <2>1. UNCHANGED jobVars
    BY <1>2, UserIs DEF Request, IngestRead, IngestCommit, Survey, SurveyStale, RemoveLogs,
       ForgetProjects, Prune, Decline, KillCleanup, vars
  <2> QED
    BY <1>s, <2>1, SweepAside DEF jobVars, InUse
<1> QED
  BY <1>1, <1>2, SweepLaunch, StepIs

\* SweepSparesUsed: a launch that prepares its instance takes no directory of another
\* that is in use, of an agent that runs or of a launch that has yet to start its
\* container, for any number of launches at once in any directories, each of which
\* may fail or be killed (_sweep_stale_instance_state), unless docker stopped answering
\* or a launch took the hour of grace to start its container.
THEOREM SweepSparesUsedHolds == Spec => SweepSparesUsed
<1>1. Init => SweepInv
  BY DEF Init, SweepInv
<1>2. TypeInv /\ ClaimedInv /\ SweepInv /\ [Next]_vars => (TypeInv /\ ClaimedInv /\ SweepInv)'
  BY TypeStep, ClaimedStep, SweepStep
<1>3. ASSUME TypeInv, ClaimedInv, SweepInv, [Next]_vars
      PROVE  [\A m \in Launches :
                state[m] # "none" /\ state'[m] = "none" /\ InUse(m)'
                  => slips' \cap {"docker", "slow"} # {}]_vars
  <2> SUFFICES ASSUME NEW m \in Launches, state[m] # "none", state'[m] = "none", InUse(m)', Timely'
               PROVE  FALSE
    BY DEF Timely
  <2>t. /\ state \in [Launches -> {"none", "new", "old"}]
        /\ job \in [Launches -> [pc : LaunchPcs, at : Dirs \cup {NoPath}, path : Paths \cup {NoPath}]]
    BY <1>3 DEF TypeInv
  <2>1. ASSUME NEW l \in Launches, Sweep(l) PROVE FALSE
    <3>1. /\ m # l /\ state[m] = "old" /\ m \notin live /\ job[l].pc = "sweep"
          /\ job' = [job EXCEPT ![l].pc = "link"] /\ UNCHANGED <<box, slips>>
      BY <2>t, <2>1 DEF Sweep, Swept, Unlisted, Step
    <3>2. InUse(m)
      BY <2>t, <3>1 DEF InUse
    <3> QED
      BY <1>3, <3>1, <3>2 DEF SweepInv, Timely
  <2>2. ASSUME NEW l \in Launches,
               \/ LinkLogs(l) \/ LinkFails(l) \/ DropAliases(l) \/ Record(l)
               \/ RecordFails(l) \/ StartBox(l) \/ Age(l) \/ KillLaunch(l)
        PROVE  FALSE
    <3>1. state' = state \/ state' = [state EXCEPT ![l] = "old"]
      BY <2>2 DEF LinkLogs, LinkFails, DropAliases, Record, RecordFails, StartBox, Age, KillLaunch
    <3> QED
      BY <2>t, <3>1
  <2>3. ASSUME NEW l \in Launches, Exit(l) PROVE FALSE
    <3>1. /\ box' = box \ {l} /\ job' = [job EXCEPT ![l].pc = "gone"]
          /\ (state' = state \/ state' = [state EXCEPT ![l] = "none"])
      BY <2>3 DEF Exit
    <3> QED
      BY <2>t, <3>1 DEF InUse
  <2>4. \/ UserStep \/ (\E l \in Launches, p \in Paths : Prepare(l, p))
        \/ (\E l \in Launches, q \in Requests : Request(l, q))
        \/ (\E s \in SessionsOf(disk) : IngestRead(s)) \/ IngestCommit
        \/ Survey \/ SurveyStale \/ (\E d \in Dirs : RemoveLogs(d)) \/ ForgetProjects
        \/ Prune \/ Decline \/ KillCleanup \/ UNCHANGED vars
        => UNCHANGED state
    BY <1>3, UserIs DEF Prepare, Request, IngestRead, IngestCommit, Survey, SurveyStale, RemoveLogs,
           ForgetProjects, Prune, Decline, KillCleanup, jobVars, vars
  <2> QED
    BY <1>3, <2>1, <2>2, <2>3, <2>4, StepIs
<1> QED
  BY <1>1, <1>2, <1>3, InitType, ClaimedInit, PTL DEF Spec, SweepSparesUsed
=============================================================================
