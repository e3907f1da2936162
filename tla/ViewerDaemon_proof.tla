------------------------- MODULE ViewerDaemon_proof -------------------------
(***************************************************************************)
(* Proofs about ViewerDaemon, for every number of commands of every kind,  *)
(* every number of ports and everything that may go wrong.                 *)
(***************************************************************************)
EXTENDS ViewerDaemon, FiniteSetTheorems, TLAPS

-----------------------------------------------------------------------------
(* Types.                                                                  *)

ViewerStates == {"none", "booting", "bound", "writing", "serving", "closing", "killed", "dead"}
ForkStates == {"none", "forked", "spawned", "claiming", "exited"}
Forking == {"forked", "spawned", "claiming"}
PcStates == {"idle", "peek", "peeked", "lock", "look", "looked", "waitpid", "wait", "polled",
             "cleanup", "stopping", "killing", "done", "killed"}
Maybe == States \cup {NoState}

TypeInv ==
  /\ file \in Maybe \cup {Torn, Garbled}
  /\ lock \in Commands \cup {NoCommand}
  /\ pc \in [Commands -> PcStates]
  /\ seen \in [Commands -> Maybe] /\ told \in [Commands -> Maybe]
  /\ mine \in [Commands -> Viewers]
  /\ fork \in [Commands -> ForkStates]
  /\ viewer \in [Viewers -> ViewerStates]
  /\ port \in [Viewers -> 0..MaxPort]
  /\ \A v \in Viewers : viewer[v] \in {"bound", "writing"} => port[v] \in Ports

\* A state that a process reads is one that was written.
LEMMA ReadableType ==
  ASSUME TypeInv
  PROVE  /\ Readable \in Maybe
         /\ ~ Unreadable => file = Readable
         /\ \A s \in States : s.pid \in Viewers /\ s.port \in Ports /\ s # NoState
BY StateAssumption DEF TypeInv, Readable, Unreadable, Maybe, States

\* Nothing is running, or one viewer is or was.
LEMMA InitType == Init => TypeInv
<1> SUFFICES ASSUME Init PROVE TypeInv
  OBVIOUS
<1> USE ViewerAssumption
<1>1. [pid |-> Before, port |-> MaxPort, starting |-> FALSE] \in States
  BY DEF States, Viewers, Ports
<1>2. PICK s \in Found : viewer = [v \in Viewers |-> IF v = Before THEN s ELSE "none"]
  BY DEF Init
<1>3. viewer \in [Viewers -> ViewerStates]
  BY <1>2 DEF ViewerStates
<1>4. port \in [Viewers -> 0..MaxPort]
  BY DEF Init
<1> QED
  BY <1>1, <1>2, <1>3, <1>4 DEF Init, TypeInv, Maybe, Viewers, ForkStates, PcStates

\* A signal takes a viewer to its end, and no other.
LEMMA TerminatedType ==
  ASSUME TypeInv, NEW v \in Viewers, viewer' = Terminated(v)
  PROVE  /\ viewer' \in [Viewers -> ViewerStates]
         /\ \A w \in Viewers :
              \/ viewer'[w] = viewer[w]
              \/ viewer[w] \notin {"none", "dead"} /\ viewer'[w] \in {"closing", "dead"}
BY DEF Terminated, TypeInv, ViewerStates

\* Nor do those who wait for one or stop it do more to it.
Declines == \A w \in Viewers :
  \/ viewer'[w] = viewer[w]
  \/ viewer[w] \notin {"none", "dead"} /\ viewer'[w] \in {"closing", "killed", "dead"}

LEMMA AwaitHalt ==
  ASSUME TypeInv, NEW c \in Commands, Await(c) \/ Halt(c)
  PROVE  viewer' \in [Viewers -> ViewerStates] /\ Declines /\ UNCHANGED <<port, fork, lock>>
<1> USE DEF Declines, procs
<1>1. mine[c] \in Viewers /\ viewer \in [Viewers -> ViewerStates]
  BY DEF TypeInv
<1>2. JudgedFound(c) => seen[c].pid \in Viewers
  BY ReadableType DEF JudgedFound, Maybe, TypeInv
<1>3. CASE Await(c)
  BY <1>1, <1>3, TerminatedType
  DEF Await, Poll, Read, PollReady, PollAbsent, WaitTimeout, Cleanup
<1>4. CASE Stop(c)
  BY <1>2, <1>4, TerminatedType DEF Stop
<1>5. CASE StopTimeout(c)
  BY <1>1, <1>5 DEF StopTimeout, Living, ViewerStates
<1>6. CASE Stopped(c) \/ StopGivesUp(c)
  BY <1>1, <1>6 DEF Stopped, StopGivesUp
<1> QED
  BY <1>3, <1>4, <1>5, <1>6 DEF Halt

\* What the steps of the forks do to the file has the type of the file.
LEMMA WriteType ==
  ASSUME TypeInv, NEW w, NEW s \in States, Write(w, s)
  PROVE  /\ file' \in Maybe \cup {Torn, Garbled}
         /\ file' \in {file, s, Garbled}
         /\ w \in open => file' \in {s, Garbled}
BY DEF Write, TypeInv, Maybe

\* Every step keeps the types.
LEMMA TypeStep ==
  ASSUME TypeInv, [Next]_vars
  PROVE  TypeInv'
<1> USE ViewerAssumption DEF statefile, procs, commands, PcStates
<1> DEFINE Answers == pc' \in [Commands -> PcStates] /\ mine' \in [Commands -> Viewers]
                      /\ told' \in [Commands -> Maybe]
<1>0. Readable \in Maybe /\ \A s \in States : s.pid \in Viewers
  BY ReadableType
<1>1. /\ NoState \in Maybe /\ Commands \subseteq Viewers
  BY DEF Maybe, Viewers
<1>2. Unlink => file' \in Maybe
  BY DEF Unlink, Maybe
<1>3. ASSUME NEW c \in Commands, JudgedAbsent(c) PROVE file' \in Maybe \cup {Torn, Garbled}
  BY <1>2, <1>3 DEF JudgedAbsent, statefile, TypeInv
<1>4. ASSUME NEW c \in Commands, NEW s \in Maybe, Answer(c, s) PROVE Answers
  <2>1. s # NoState => s.pid \in Viewers
    BY <1>0 DEF Maybe
  <2>2. pc' \in [Commands -> PcStates]
    BY <1>4 DEF Answer, Goto, TypeInv
  <2>3. mine' \in [Commands -> Viewers] /\ told' \in [Commands -> Maybe]
    BY <1>4, <2>1 DEF Answer, TypeInv
  <2> QED
    BY <2>2, <2>3
<1>5. ASSUME NEW c \in Commands, Start(c) \/ Peek(c) \/ PeekAbsent(c) \/ PeekFound(c) PROVE TypeInv'
  BY <1>0, <1>1, <1>3, <1>5
  DEF Start, Peek, PeekAbsent, PeekFound, Read, Goto, Forget, TypeInv
<1>6. ASSUME NEW c \in Commands, TakeLock(c) \/ LockTimeout(c) \/ Look(c) \/ LookAbsent(c)
      PROVE  TypeInv'
  BY <1>0, <1>1, <1>3, <1>6
  DEF TakeLock, LockTimeout, Look, LookAbsent, Read, Goto, Forget, TypeInv, ForkStates
<1>7. ASSUME NEW c \in Commands, LookFound(c) \/ Reread(c) PROVE TypeInv'
  <2>1. seen[c] \in Maybe
    BY DEF TypeInv
  <2>2. Answers
    BY <1>0, <1>4, <1>7, <2>1 DEF LookFound, Reread
  <2> QED
    BY <1>1, <1>7, <2>2 DEF LookFound, Reread, Forget, TypeInv
<1>8. ASSUME NEW c \in Commands, Await(c) \/ Halt(c) PROVE TypeInv'
  <2>1. /\ viewer' \in [Viewers -> ViewerStates]
        /\ port' \in [Viewers -> 0..MaxPort]
        /\ \A v \in Viewers : viewer'[v] \in {"bound", "writing"} => port'[v] \in Ports
    BY <1>8, AwaitHalt DEF TypeInv, Declines
  <2>2. JudgedFound(c) => seen[c].pid \in Viewers
    BY <1>0 DEF JudgedFound, Maybe, TypeInv
  <2>3. file' \in Maybe \cup {Torn, Garbled}
    BY <1>2, <1>3, <1>8
    DEF Await, Poll, Read, PollReady, PollAbsent, WaitTimeout, Cleanup,
        Halt, Stop, StopTimeout, Stopped, StopGivesUp, TypeInv
  <2> QED
    BY <1>0, <1>1, <1>8, <2>1, <2>2, <2>3
    DEF Await, Poll, Read, PollReady, PollAbsent, WaitTimeout, Cleanup,
        Halt, Stop, StopTimeout, Stopped, StopGivesUp, TypeInv, Goto, Forget
<1>9. ASSUME NEW c \in Commands, Fork(c) \/ SpawnFails(c) \/ ClaimFails(c) PROVE TypeInv'
  <2>1. [pid |-> c, port |-> 1, starting |-> TRUE] \in States
    BY <1>1 DEF States, Ports
  <2>2. file' \in Maybe \cup {Torn, Garbled}
    BY <1>9, <2>1, WriteType
    DEF Fork, Spawn, ClaimOpen, ClaimWrite, Truncate, SpawnFails, ClaimFails, TypeInv
  <2> QED
    BY <1>1, <1>9, <2>2
    DEF Fork, Spawn, ClaimOpen, ClaimWrite, Truncate, SpawnFails, ClaimFails, ForkExits, TypeInv,
        ForkStates, ViewerStates
<1>10. ASSUME NEW v \in Viewers, Serve(v) \/ Crash(v) PROVE TypeInv'
  <2>1. CASE Publish(v)
    <3>1. viewer[v] = "writing" /\ port[v] \in 0..MaxPort
      BY <2>1 DEF Publish, TypeInv
    <3>2. port[v] \in Ports
      BY <3>1 DEF TypeInv
    <3>3. [pid |-> v, port |-> port[v], starting |-> FALSE] \in States
      BY <3>2 DEF States
    <3>4. file' \in Maybe \cup {Torn, Garbled}
      BY <2>1, <3>3, WriteType DEF Publish
    <3> QED
      BY <2>1, <3>4 DEF Publish, TypeInv, ViewerStates
  <2>2. CASE Bind(v)
    BY <2>2 DEF Bind, TypeInv, ViewerStates, Ports
  <2>3. CASE BindFails(v) \/ PublishOpen(v) \/ Close(v) \/ Crash(v)
    BY <2>3 DEF BindFails, PublishOpen, Truncate, Close, Crash, TypeInv, ViewerStates
  <2> QED
    BY <1>10, <2>1, <2>2, <2>3 DEF Serve
<1>11. ASSUME NEW c \in Commands, Kill(c) PROVE TypeInv'
  BY <1>1, <1>11 DEF Kill, Goto, TypeInv
<1>12. CASE UNCHANGED vars
  BY <1>12 DEF vars, TypeInv
<1> QED
  BY <1>5, <1>6, <1>7, <1>8, <1>9, <1>10, <1>11, <1>12 DEF Next, Step, Claim, Finished

\* The types are an invariant.
LEMMA TypeInvariant == Spec => []TypeInv
<1> QED
  BY InitType, TypeStep, PTL DEF Spec

-----------------------------------------------------------------------------
(* The lock.                                                               *)

\* Why a decision and its claim are one critical section: a command is inside
\* the lock from its look to the end of its fork, and a fork that has outlived
\* its command has the lock's open file.
LockInv ==
  /\ SpawnUnderLock
  /\ \A c \in Commands :
       /\ fork[c] \in Forking => pc[c] \in {"waitpid", "killed"}
       /\ pc[c] \in {"idle", "peek", "peeked", "lock", "look", "looked"} => fork[c] = "none"
       /\ fork[c] \in {"none", "forked"} => viewer[c] = "none"

\* Every step keeps the critical section.
LEMMA LockStep ==
  ASSUME TypeInv, LockInv, [Next]_vars
  PROVE  LockInv'
<1> USE ViewerAssumption DEF Forking, PcStates
<1>0. /\ lock \in Commands \cup {NoCommand} /\ pc \in [Commands -> PcStates]
      /\ fork \in [Commands -> ForkStates] /\ viewer \in [Viewers -> ViewerStates]
      /\ Commands \subseteq Viewers
  BY DEF TypeInv, Viewers
<1>1. ASSUME NEW c \in Commands, Start(c) \/ Peek(c) \/ PeekAbsent(c) \/ PeekFound(c) \/ LockTimeout(c)
      PROVE  LockInv'
  BY <1>0, <1>1
  DEF Start, Peek, PeekAbsent, PeekFound, LockTimeout, Read, Goto, LockInv, SpawnUnderLock, procs
<1>2. ASSUME NEW c \in Commands, TakeLock(c) PROVE LockInv'
  BY <1>0, <1>2 DEF TakeLock, Goto, LockInv, SpawnUnderLock, procs
<1>3. ASSUME NEW c \in Commands, Look(c) PROVE LockInv'
  BY <1>0, <1>3 DEF Look, Read, Goto, LockInv, SpawnUnderLock, procs
<1>4. ASSUME NEW c \in Commands, LookFound(c) \/ Reread(c) PROVE LockInv'
  <2>1. /\ pc[c] \in {"looked", "waitpid"} /\ fork[c] \notin Forking /\ lock' = NoCommand
        /\ \E l \in {"done", "wait"} : pc' = [pc EXCEPT ![c] = l]
        /\ UNCHANGED procs
    BY <1>0, <1>4 DEF LookFound, Reread, Answer, Goto, LockInv
  <2>2. lock = c
    BY <1>4 DEF LookFound, Reread, LockInv, SpawnUnderLock
  <2>3. fork[c] = "none" => viewer[c] = "none"
    BY DEF LockInv
  <2> QED
    BY <1>0, <2>1, <2>2 DEF LockInv, SpawnUnderLock, procs
<1>5. ASSUME NEW c \in Commands, LookAbsent(c) PROVE LockInv'
  BY <1>0, <1>5 DEF LookAbsent, Goto, LockInv, SpawnUnderLock
<1>6. ASSUME NEW c \in Commands, Await(c) \/ Halt(c) PROVE LockInv'
  <2>1. /\ pc[c] \in {"wait", "polled", "cleanup", "peeked", "stopping", "killing"}
        /\ \E l \in {"wait", "polled", "cleanup", "stopping", "killing", "done"} :
             pc' = [pc EXCEPT ![c] = l]
    BY <1>6
    DEF Await, Poll, Read, PollReady, PollAbsent, WaitTimeout, Cleanup,
        Halt, Stop, StopTimeout, Stopped, StopGivesUp, Goto
  <2>2. Declines /\ UNCHANGED <<port, fork, lock>>
    BY <1>6, AwaitHalt
  <2>3. fork[c] \notin Forking
    BY <2>1 DEF LockInv
  <2>4. \A d \in Commands : viewer[d] = "none" => viewer'[d] = "none"
    BY <1>0, <2>2 DEF Declines
  <2> QED
    BY <1>0, <2>1, <2>2, <2>3, <2>4 DEF LockInv, SpawnUnderLock
<1>7. ASSUME NEW c \in Commands, Spawn(c) \/ ClaimOpen(c) PROVE LockInv'
  BY <1>0, <1>7 DEF Spawn, ClaimOpen, LockInv, SpawnUnderLock, commands
<1>8. ASSUME NEW c \in Commands, SpawnFails(c) \/ ClaimFails(c) \/ ClaimWrite(c) PROVE LockInv'
  <2>1. /\ fork[c] \in Forking /\ pc' = pc /\ viewer' = viewer
        /\ fork' = [fork EXCEPT ![c] = "exited"]
        /\ lock' = IF pc[c] = "killed" THEN NoCommand ELSE lock
    BY <1>8 DEF SpawnFails, ClaimFails, ClaimWrite, ForkExits, commands
  <2>2. lock = c /\ pc[c] \in {"waitpid", "killed"}
    BY <2>1 DEF LockInv, SpawnUnderLock
  <2> QED
    BY <1>0, <2>1, <2>2 DEF LockInv, SpawnUnderLock
<1>9. ASSUME NEW v \in Viewers, Serve(v) \/ Crash(v) PROVE LockInv'
  <2>1. /\ UNCHANGED <<lock, pc, fork>>
        /\ \A d \in Commands : viewer[d] = "none" => viewer'[d] = "none"
    BY <1>0, <1>9
    DEF Serve, Bind, BindFails, PublishOpen, Publish, Close, Crash, Living, commands
  <2> QED
    BY <2>1 DEF LockInv, SpawnUnderLock
<1>10. ASSUME NEW c \in Commands, Kill(c) PROVE LockInv'
  BY <1>0, <1>10 DEF Kill, Goto, Ended, LockInv, SpawnUnderLock, procs, ForkStates
<1>11. CASE UNCHANGED vars
  BY <1>11 DEF vars, commands, procs, LockInv, SpawnUnderLock
<1> QED
  BY <1>1, <1>2, <1>3, <1>4, <1>5, <1>6, <1>7, <1>8, <1>9, <1>10, <1>11
  DEF Next, Step, Claim, Fork, Finished

\* LockInv is inductive, given the types.
LEMMA LockInvariant == Spec => []LockInv
<1>1. Init => LockInv
  BY ViewerAssumption DEF Init, LockInv, SpawnUnderLock, Forking, Viewers
<1> QED
  BY <1>1, LockStep, TypeInvariant, PTL DEF Spec

\* A decision to start a viewer and the claim for it are made in one critical
\* section, for any number of launchers and stoppers, although the fork makes
\* part of it and may survive the command that took the lock (_fork_spawn:
\* "That keeps the claim inside the caller's lock").
THEOREM SpawnUnderLockHolds == Spec => []SpawnUnderLock
<1>1. LockInv => SpawnUnderLock
  BY DEF LockInv
<1> QED
  BY <1>1, LockInvariant, PTL

-----------------------------------------------------------------------------
(* The port.                                                               *)

\* What a state that is not a claim says is true of its viewer, and stays so.
Truthful(s) ==
  s \in States /\ ~ s.starting =>
    port[s.pid] = s.port /\ viewer[s.pid] \notin {"none", "booting", "bound"}

\* The file says the truth, and so does what has been read from it.
TruthInv ==
  /\ Truthful(file)
  /\ \A c \in Commands : Truthful(seen[c]) /\ Truthful(told[c])

\* A viewer that has its port keeps it.
PortsKept == \A v \in Viewers :
  viewer[v] \notin {"none", "booting", "bound"} =>
    port'[v] = port[v] /\ viewer'[v] \notin {"none", "booting", "bound"}

\* No step takes a viewer back or its port away.
LEMMA PortsStep ==
  ASSUME TypeInv, LockInv, [Next]_vars
  PROVE  PortsKept
<1> USE DEF PortsKept
<1>0. viewer \in [Viewers -> ViewerStates] /\ port \in [Viewers -> 0..MaxPort]
      /\ Commands \subseteq Viewers
  BY DEF TypeInv, Viewers
<1>1. CASE UNCHANGED <<viewer, port>>
  BY <1>1
<1>2. ASSUME NEW c \in Commands, Await(c) \/ Halt(c) PROVE PortsKept
  BY <1>2, AwaitHalt DEF Declines
<1>3. ASSUME NEW c \in Commands, Spawn(c) PROVE PortsKept
  BY <1>0, <1>3 DEF Spawn, LockInv
<1>4. ASSUME NEW v \in Viewers, Serve(v) \/ Crash(v) PROVE PortsKept
  BY <1>0, <1>4 DEF Serve, Bind, BindFails, PublishOpen, Publish, Close, Crash
<1> QED
  BY <1>1, <1>2, <1>3, <1>4
  DEF Next, Start, Step, Peek, PeekAbsent, PeekFound, Read, Claim, TakeLock, LockTimeout, Look,
      LookFound, LookAbsent, Reread, Fork, ClaimOpen, ClaimWrite, SpawnFails, ClaimFails, Kill,
      Finished, vars, procs

\* Every step leaves the file truthful.
LEMMA FileTruthful ==
  ASSUME TypeInv, TruthInv, PortsKept, [Next]_vars
  PROVE  Truthful(file)'
<1> USE DEF statefile
<1>0. Truthful(file) /\ \A s \in {NoState, Torn, Garbled} : ~ s \in States
  BY StateAssumption DEF TruthInv
<1>1. ASSUME file' \in {file, NoState, Torn, Garbled}
      PROVE  Truthful(file)'
  <2>1. CASE file' \in {NoState, Torn, Garbled}
    BY <1>0, <2>1 DEF Truthful
  <2>2. CASE UNCHANGED file
    <3>1. Truthful(file)' <=> (file \in States /\ ~ file.starting =>
             port'[file.pid] = file.port /\ viewer'[file.pid] \notin {"none", "booting", "bound"})
      BY <2>2 DEF Truthful
    <3> QED
      BY <1>0, <3>1, ReadableType DEF Truthful, PortsKept
  <2> QED
    BY <1>1, <2>1, <2>2
<1>2. ASSUME NEW c \in Commands, ClaimWrite(c) PROVE Truthful(file)'
  <2> DEFINE s == [pid |-> c, port |-> 1, starting |-> TRUE]
  <2>1. file' \in {file, s, Garbled}
    BY <1>2 DEF ClaimWrite, Write
  <2>2. CASE file' = s
    BY <2>2 DEF Truthful
  <2> QED
    BY <1>1, <2>1, <2>2
<1>3. ASSUME NEW v \in Viewers, Publish(v) PROVE Truthful(file)'
  <2> DEFINE s == [pid |-> v, port |-> port[v], starting |-> FALSE]
  <2>1. file' \in {file, s, Garbled} /\ port' = port /\ viewer' = [viewer EXCEPT ![v] = "serving"]
    BY <1>3 DEF Publish, Write
  <2>2. CASE file' = s
    BY <2>1, <2>2 DEF Truthful, TypeInv
  <2> QED
    BY <1>1, <2>1, <2>2
<1> QED
  BY <1>1, <1>2, <1>3
  DEF Next, Start, Step, Peek, PeekAbsent, PeekFound, Read, Claim, TakeLock, LockTimeout, Look,
      LookFound, LookAbsent, Reread, Fork, Spawn, ClaimOpen, Truncate, SpawnFails, ClaimFails, Kill,
      Finished, vars, Await, Poll, PollReady, PollAbsent, WaitTimeout, Cleanup, Halt, Stop,
      StopTimeout, Stopped, StopGivesUp, JudgedAbsent, Unlink, Serve, Bind, BindFails, PublishOpen,
      Close, Crash

\* What is read is what the file says, and what is told is what was read.
LEMMA ReadStep ==
  ASSUME TypeInv, [Next]_vars, NEW c \in Commands
  PROVE  /\ seen'[c] \in {seen[c], Readable, NoState}
         /\ told'[c] \in {told[c], seen[c], Readable}
<1> USE DEF commands
<1>0. seen \in [Commands -> Maybe] /\ told \in [Commands -> Maybe]
  BY DEF TypeInv
<1>1. ASSUME NEW d \in Commands, Start(d) \/ Step(d)
      PROVE  /\ seen'[c] \in {seen[c], Readable, NoState}
             /\ told'[c] \in {told[c], seen[c], Readable}
  BY <1>0, <1>1
  DEF Start, Step, Peek, PeekAbsent, PeekFound, Read, Claim, TakeLock, LockTimeout, Look,
      LookFound, LookAbsent, Reread, Answer, Await, Poll, PollReady, PollAbsent, WaitTimeout,
      Cleanup, Halt, Stop, StopTimeout, Stopped, StopGivesUp, Forget
<1> QED
  BY <1>1
  DEF Next, Fork, Spawn, ClaimOpen, ClaimWrite, SpawnFails, ClaimFails, Kill, Finished, vars,
      Serve, Bind, BindFails, PublishOpen, Publish, Close, Crash

\* TruthInv is inductive, given the types and the lock.
LEMMA TruthInvariant == Spec => []TruthInv
<1>1. Init => TruthInv
  <2> SUFFICES ASSUME Init PROVE TruthInv
    OBVIOUS
  <2>1. Truthful(file)
    BY StateAssumption, ViewerAssumption DEF Init, Truthful, Viewers
  <2> QED
    BY <2>1, StateAssumption DEF Init, TruthInv, Truthful
<1>2. TypeInv /\ LockInv /\ TruthInv /\ [Next]_vars => TruthInv'
  <2> SUFFICES ASSUME TypeInv, LockInv, TruthInv, [Next]_vars PROVE TruthInv'
    OBVIOUS
  <2>1. PortsKept
    BY PortsStep
  <2>2. Truthful(Readable) /\ Truthful(NoState)
    BY StateAssumption DEF TruthInv, Readable, Truthful
  <2>3. ASSUME NEW c \in Commands PROVE Truthful(seen[c])' /\ Truthful(told[c])'
    <3> DEFINE Still(s) == s \in States /\ ~ s.starting =>
                 port'[s.pid] = s.port /\ viewer'[s.pid] \notin {"none", "booting", "bound"}
    <3>1. \A s : Truthful(s) => Still(s)
      BY <2>1, ReadableType DEF Truthful, PortsKept
    <3>2. Still(seen'[c]) /\ Still(told'[c])
      BY <2>2, <3>1, ReadStep DEF TruthInv
    <3> QED
      BY <3>2 DEF Truthful
  <2> QED
    BY <2>1, <2>3, FileTruthful DEF TruthInv
<1> QED
  BY <1>1, <1>2, TypeInvariant, LockInvariant, PTL DEF Spec

\* Who is told that the viewer runs at a port is told the port it has got, for
\* any number of launchers, viewers and ports, and whatever crashes, is killed
\* or is stopped meanwhile (starting_line: "it will serve at ... or the next
\* free port").
THEOREM ToldTheTruthHolds == Spec => []ToldTheTruth
<1>1. TypeInv /\ TruthInv => ToldTheTruth
  BY DEF TypeInv, TruthInv, Truthful, ToldTheTruth, Maybe
<1> QED
  BY <1>1, TypeInvariant, TruthInvariant, PTL

-----------------------------------------------------------------------------
(* One viewer.                                                             *)

\* What keeps a launcher from starting a second viewer as long as nothing has
\* slipped: a viewer is in the file from its claim on, a command at its decision
\* has read so, and a fork that starts one is the only one.
SoleInv ==
  /\ \A v, w \in Living : v = w
  /\ \A v \in Living, c \in Commands : fork[c] \in Forking => v = c
  /\ \A v \in Living : \/ v \in Commands /\ fork[v] = "spawned"
                       \/ Unreadable
                       \/ file # NoState /\ file.pid = v
  /\ \A v \in Living, c \in Commands :
       pc[c] = "looked" => seen[c] # NoState /\ seen[c].pid = v

\* Whoever unlinks the file of a living viewer slips.
LEMMA UnlinkSlips ==
  ASSUME SoleInv, Unlink, slips' = {}
  PROVE  \A v \in Living : v \in Commands /\ fork[v] = "spawned"
BY DEF SoleInv, Unlink

\* Every step keeps the viewer alone, or slips.
LEMMA SoleStep ==
  ASSUME TypeInv, LockInv, SoleInv, [Next]_vars, slips' = {}
  PROVE  SoleInv'
<1> USE ViewerAssumption DEF Forking
<1>0. /\ pc \in [Commands -> PcStates] /\ fork \in [Commands -> ForkStates]
      /\ viewer \in [Viewers -> ViewerStates] /\ seen \in [Commands -> Maybe]
      /\ lock \in Commands \cup {NoCommand}
      /\ Commands \subseteq Viewers
      /\ {NoState, Torn, Garbled} \cap States = {}
  BY StateAssumption DEF TypeInv, Viewers
\* The steps that start no viewer and write no state.
<1> DEFINE Spared == file' \in {file, Torn} \/ Unlink
<1>1. ASSUME Living' \subseteq Living, Spared,
             \A c \in Commands : fork'[c] \in Forking => fork[c] \in Forking,
             \A c \in Living : c \in Commands /\ fork[c] = "spawned" =>
               fork'[c] = "spawned" \/ file' = Torn,
             \A c \in Commands : pc'[c] = "looked" => pc[c] = "looked" /\ seen'[c] = seen[c]
      PROVE  SoleInv'
  <2>1. ASSUME NEW v \in Living' PROVE \/ v \in Commands /\ fork'[v] = "spawned"
                                       \/ Unreadable'
                                       \/ file' # NoState /\ file'.pid = v
    <3>1. CASE file' = Torn
      BY <3>1 DEF Unreadable
    <3>2. CASE file' = file
      BY <1>1, <2>1, <3>2 DEF SoleInv, Unreadable
    <3>3. CASE Unlink
      BY <1>1, <2>1, <3>3, UnlinkSlips DEF Unreadable
    <3> QED
      BY <1>1, <3>1, <3>2, <3>3
  <2> QED
    BY <1>1, <2>1 DEF SoleInv
<1>2. ASSUME NEW c \in Commands,
             \/ Start(c) \/ Peek(c) \/ PeekAbsent(c) \/ PeekFound(c)
             \/ TakeLock(c) \/ LockTimeout(c) \/ LookFound(c) \/ Reread(c) \/ Kill(c)
      PROVE  SoleInv'
  <2>1. UNCHANGED procs
    BY <1>2
    DEF Start, Peek, Read, PeekAbsent, PeekFound, TakeLock, LockTimeout, LookFound, Reread, Kill
  <2>2. Living' = Living /\ fork' = fork
    BY <2>1 DEF procs, Living
  <2>3. Spared
    BY <1>2
    DEF Start, Peek, Read, PeekAbsent, PeekFound, TakeLock, LockTimeout, LookFound, Reread, Kill,
        JudgedAbsent, statefile
  <2>4. \A d \in Commands : pc'[d] = "looked" => pc[d] = "looked" /\ seen'[d] = seen[d]
    BY <1>0, <1>2
    DEF Start, Peek, Read, PeekAbsent, PeekFound, TakeLock, LockTimeout, LookFound, Reread, Kill,
        Answer, Goto, Forget
  <2> QED
    BY <1>1, <2>2, <2>3, <2>4
\* A viewer is in the file that a launcher reads under the lock.
<1>3. ASSUME NEW c \in Commands, Look(c) PROVE SoleInv'
  <2>1. /\ pc[c] = "look" /\ pc' = [pc EXCEPT ![c] = "looked"]
        /\ seen' = [seen EXCEPT ![c] = Readable]
        /\ UNCHANGED <<file, fork, viewer>>
        /\ Unreadable => Living = {}
    BY <1>3 DEF Look, Read, Goto, statefile, procs
  <2>2. \A d \in Commands : fork[d] \notin Forking
    BY <2>1 DEF LockInv, SpawnUnderLock
  <2>3. \A v \in Living : ~ Unreadable /\ file # NoState /\ file.pid = v
    BY <2>1, <2>2 DEF SoleInv
  <2>4. \A v \in Living : seen'[c] # NoState /\ seen'[c].pid = v
    BY <1>0, <2>1, <2>3 DEF Readable
  <2>5. Living' = Living /\ Unreadable' = Unreadable
    BY <2>1 DEF Living, Unreadable
  <2> QED
    BY <1>0, <2>1, <2>4, <2>5 DEF SoleInv
\* Who forks has seen that there is none.
<1>4. ASSUME NEW c \in Commands, LookAbsent(c) PROVE SoleInv'
  <2>1. Living = {}
    BY <1>4 DEF LookAbsent, JudgedAbsent, SoleInv
  <2>2. Living' = Living
    BY <1>4 DEF LookAbsent, Living
  <2> QED
    BY <2>1, <2>2 DEF SoleInv
<1>5. ASSUME NEW c \in Commands, Await(c) \/ Halt(c) PROVE SoleInv'
  <2>1. Declines /\ UNCHANGED fork
    BY <1>5, AwaitHalt
  <2>2. Living' \subseteq Living
    BY <2>1 DEF Declines, Living
  <2>3. Spared
    BY <1>5
    DEF Await, Poll, Read, PollReady, PollAbsent, WaitTimeout, Cleanup,
        Halt, Stop, StopTimeout, Stopped, StopGivesUp, JudgedAbsent, statefile
  <2>4. \A d \in Commands : pc'[d] = "looked" => pc[d] = "looked" /\ seen'[d] = seen[d]
    BY <1>0, <1>5
    DEF Await, Poll, Read, PollReady, PollAbsent, WaitTimeout, Cleanup,
        Halt, Stop, StopTimeout, Stopped, StopGivesUp, Goto, Forget
  <2> QED
    BY <1>1, <2>1, <2>2, <2>3, <2>4
<1>6. ASSUME NEW c \in Commands, Spawn(c) PROVE SoleInv'
  <2>1. /\ fork[c] = "forked" /\ fork' = [fork EXCEPT ![c] = "spawned"]
        /\ viewer' = [viewer EXCEPT ![c] = "booting"] /\ UNCHANGED <<pc, lock>>
    BY <1>6 DEF Spawn, commands
  <2>2. lock = c /\ pc[c] # "looked" /\ viewer[c] = "none"
    BY <2>1 DEF LockInv, SpawnUnderLock
  <2>3. Living = {}
    BY <2>1, <2>2 DEF SoleInv, Living
  <2>4. Living' = {c}
    BY <1>0, <2>1, <2>3 DEF Living
  <2>5. \A d \in Commands : fork'[d] \in Forking \/ pc'[d] = "looked" => d = c
    BY <1>0, <2>1, <2>2 DEF LockInv, SpawnUnderLock
  <2> QED
    BY <1>0, <2>1, <2>2, <2>4, <2>5 DEF SoleInv
<1>7. ASSUME NEW c \in Commands, ClaimOpen(c) \/ SpawnFails(c) PROVE SoleInv'
  <2>1. /\ Living' = Living /\ UNCHANGED <<pc, seen>>
        /\ \/ file' = Torn /\ fork[c] = "spawned" /\ fork' = [fork EXCEPT ![c] = "claiming"]
           \/ file' = file /\ fork[c] = "forked" /\ fork' = [fork EXCEPT ![c] = "exited"]
    BY <1>7 DEF ClaimOpen, Truncate, SpawnFails, ForkExits, commands, statefile, Living
  <2> QED
    BY <1>0, <1>1, <2>1
<1>8. ASSUME NEW c \in Commands, ClaimWrite(c) PROVE SoleInv'
  <2> DEFINE s == [pid |-> c, port |-> 1, starting |-> TRUE]
  <2>1. /\ Living' = Living /\ UNCHANGED <<pc, seen>> /\ file' \in {file, s, Garbled}
        /\ fork[c] = "claiming" /\ fork' = [fork EXCEPT ![c] = "exited"]
    BY <1>8 DEF ClaimWrite, Write, ForkExits, commands, Living
  <2>2. \A v \in Living : v = c /\ (Unreadable \/ (file # NoState /\ file.pid = v))
    BY <2>1 DEF SoleInv
  <2>3. s \in States /\ s.pid = c
    BY <1>0 DEF States, Ports
  <2>4. \A v \in Living : Unreadable' \/ (file' # NoState /\ file'.pid = v)
    BY <1>0, <2>1, <2>2, <2>3 DEF Unreadable
  <2> QED
    BY <1>0, <2>1, <2>2, <2>4 DEF SoleInv
<1>9. ASSUME NEW v \in Viewers, Publish(v) PROVE SoleInv'
  <2> DEFINE s == [pid |-> v, port |-> port[v], starting |-> FALSE]
  <2>1. /\ viewer[v] = "writing" /\ viewer' = [viewer EXCEPT ![v] = "serving"]
        /\ UNCHANGED <<pc, seen, fork>> /\ file' \in {file, s, Garbled}
    BY <1>9 DEF Publish, Write, commands
  <2>2. v \in Living /\ Living' = Living
    BY <1>0, <2>1 DEF Living
  <2>3. s \in States /\ s.pid = v
    BY <2>1 DEF States, TypeInv
  <2>4. CASE file' = file
    BY <2>1, <2>2, <2>4 DEF SoleInv, Unreadable
  <2>5. CASE file' # file
    <3>1. Unreadable' \/ (file' # NoState /\ file'.pid = v)
      BY <1>0, <2>1, <2>3, <2>5 DEF Unreadable
    <3> QED
      BY <2>1, <2>2, <3>1 DEF SoleInv
  <2> QED
    BY <2>4, <2>5
<1>10. ASSUME NEW v \in Viewers, Serve(v) \/ Crash(v), ~ Publish(v) PROVE SoleInv'
  <2>1. Living' \subseteq Living /\ UNCHANGED <<pc, seen, fork>> /\ file' \in {file, Torn}
    BY <1>0, <1>10
    DEF Serve, Bind, BindFails, PublishOpen, Truncate, Close, Crash, Living, commands, statefile
  <2> QED
    BY <1>1, <2>1
<1>11. CASE UNCHANGED vars
  <2>1. Living' = Living /\ UNCHANGED <<pc, seen, fork, file>>
    BY <1>11 DEF vars, commands, procs, statefile, Living
  <2> QED
    BY <1>1, <2>1
<1>12. \A c \in Commands : ~ ClaimFails(c)
  BY DEF ClaimFails
<1> QED
  BY <1>2, <1>3, <1>4, <1>5, <1>6, <1>7, <1>8, <1>9, <1>10, <1>11, <1>12
  DEF Next, Step, Claim, Fork, Finished

\* What has slipped is not forgotten.
LEMMA SlipsStay ==
  ASSUME [Next]_vars
  PROVE  slips \subseteq slips'
<1>1. Unlink => slips \subseteq slips'
  BY DEF Unlink
<1>2. \A c \in Commands : JudgedAbsent(c) => slips \subseteq slips'
  BY <1>1 DEF JudgedAbsent
<1>3. ASSUME NEW c \in Commands, Start(c) \/ Step(c) PROVE slips \subseteq slips'
  BY <1>1, <1>2, <1>3
  DEF Start, Step, Peek, PeekAbsent, PeekFound, Read, Claim, TakeLock, LockTimeout, Look,
      LookFound, LookAbsent, Reread, Await, Poll, PollReady, PollAbsent, WaitTimeout,
      Cleanup, Halt, Stop, StopTimeout, Stopped, StopGivesUp
<1> QED
  BY <1>3
  DEF Next, Fork, Spawn, ClaimOpen, ClaimWrite, SpawnFails, ClaimFails, Kill, Finished, vars,
      Serve, Bind, BindFails, PublishOpen, Publish, Close, Crash

\* SoleInv is inductive, given the types and the lock, while nothing slips.
LEMMA SoleInvariant == Spec => [](slips = {} => SoleInv)
<1>1. Init => SoleInv
  <2> SUFFICES ASSUME Init PROVE SoleInv
    OBVIOUS
  <2> USE ViewerAssumption
  <2>1. Living \subseteq {Before} /\ (Living # {} => viewer[Before] # "none")
    BY DEF Init, Living, Viewers
  <2>2. \A c \in Commands : fork[c] = "none" /\ pc[c] = "idle"
    BY DEF Init
  <2>3. viewer[Before] # "none" => file # NoState /\ file.pid = Before
    <3> DEFINE s == [pid |-> Before, port |-> MaxPort, starting |-> FALSE]
    <3>1. s \in States
      BY DEF States, Viewers, Ports
    <3>2. viewer[Before] # "none" => file = s
      BY DEF Init
    <3>3. s # NoState /\ s.pid = Before
      BY <3>1, StateAssumption
    <3> HIDE DEF s
    <3> QED
      BY <3>2, <3>3
  <2> QED
    BY <2>1, <2>2, <2>3 DEF SoleInv, Forking
<1>2. TypeInv /\ LockInv /\ (slips = {} => SoleInv) /\ [Next]_vars => (slips = {} => SoleInv)'
  <2> SUFFICES ASSUME TypeInv, LockInv, slips = {} => SoleInv, [Next]_vars, slips' = {}
               PROVE  SoleInv'
    OBVIOUS
  <2>1. slips = {}
    BY SlipsStay
  <2> QED
    BY <2>1, SoleStep
<1> QED
  BY <1>1, <1>2, TypeInvariant, LockInvariant, PTL DEF Spec

\* There is one viewer, for any number of launchers and stoppers, unless the
\* state of a living one was unlinked by a process that does not hold the lock,
\* was being rewritten when a launcher read it, or was never written
\* (_claim_or_spawn: "two launchers cannot both conclude nothing is running and
\* each start a viewer").
THEOREM OneViewerUnlessSlippedHolds == Spec => []OneViewerUnlessSlipped
<1>1. ASSUME slips = {} => SoleInv PROVE OneViewerUnlessSlipped
  <2> SUFFICES ASSUME SoleInv PROVE Cardinality(Living) <= 1
    BY <1>1 DEF OneViewerUnlessSlipped, OneViewer
  <2>1. CASE Living = {}
    BY <2>1, FS_EmptySet
  <2>2. ASSUME NEW v \in Living PROVE Cardinality(Living) <= 1
    <3>1. Living = {v}
      BY DEF SoleInv
    <3> QED
      BY <3>1, FS_Singleton
  <2> QED
    BY <2>1, <2>2
<1> QED
  BY <1>1, SoleInvariant, PTL
=============================================================================
