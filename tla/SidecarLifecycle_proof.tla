----------------------- MODULE SidecarLifecycle_proof -----------------------
(***************************************************************************)
(* Proofs about SidecarLifecycle, for every set of launches, providers and *)
(* declared sidecars.                                                      *)
(***************************************************************************)
EXTENDS SidecarLifecycle, TLAPS

-----------------------------------------------------------------------------
(* The operators on lock files.                                            *)

\* What each operation on one file (flock.py) makes of its state.
LEMMA FileOps ==
  ASSUME NEW s \in FileState
  PROVE  /\ {Opened(s), Acquired(s), Probed(s), Unprobed(s), Dropped(s), Cleared}
              \subseteq FileState
         /\ Opened(s) = "held" <=> s = "held"
         /\ Acquired(s) = "held" => s \in {"free", "held"}
         /\ Probed(s) = "held" <=> s = "held"
         /\ Unprobed(s) = "held" <=> s = "held"
         /\ Dropped(s) # "held" /\ Cleared # "held"
BY DEF FileState, Opened, Acquired, Probed, Unprobed, Dropped, Cleared

\* Reaping keeps every lock that somebody holds, and creates none.
LEMMA ReapedOp ==
  ASSUME NEW S, NEW dir \in [S -> FileState], NEW X
  PROVE  /\ Reaped(dir, X) \in [S -> FileState]
         /\ \A i \in S : Reaped(dir, X)[i] = "held" <=> dir[i] = "held"
BY DEF Reaped, FileState

-----------------------------------------------------------------------------
(* Types.                                                                  *)

\* What a launch declares (_assemble_sidecars): its provider's sidecar, maybe
\* Telegram, and the walk back starts at one of them.
LEMMA DeclaredType ==
  ASSUME NEW i \in Launches
  PROVE  /\ Provider[i] \in LiteLLM /\ Provider[i] # Telegram
         /\ Provider[i] \in Declared(i)
         /\ Declared(i) \subseteq Containers /\ Needs(i) \subseteq Declared(i)
         /\ Declared(i) \subseteq {Provider[i], Telegram}
         /\ i \in WithTelegram <=> Telegram \in Declared(i)
         /\ FirstInReverse(i) \in Declared(i)
BY SidecarAssumption DEF Declared, Needs, Containers, FirstInReverse

\* The initial state is well typed.
LEMMA InitType == Init => TypeOK
BY SidecarAssumption
DEF Init, TypeOK, Pcs, Containers, Dirs, FileState, ContState, Keys, ReaderStates

\* The start path (_prepare_for_launch) keeps the types.
LEMMA StartType ==
  ASSUME TypeOK, NEW i \in Launches, Start(i)
  PROVE  TypeOK'
<1> USE SidecarAssumption, DeclaredType, FileOps
<1>0. /\ cur[i] \in Containers /\ cur[i] \in Dirs /\ Waiters \in Dirs
      /\ Telegram \in Containers /\ Provider[i] \in Containers
      /\ key[i] \in Keys /\ i \in Keys /\ contKey[cur[i]] \in Keys
  BY DEF TypeOK, Containers, Dirs, Keys
<1>1. \A d \in Dirs : file[d] \in [Launches -> FileState] /\ file[d][i] \in FileState
  BY DEF TypeOK
<1>2. \A d \in Dirs, s \in FileState :
        SetFile(d, i, s) => file' \in [Dirs -> [Launches -> FileState]]
  BY <1>1 DEF TypeOK, SetFile
<1>3. \A c \in Containers, s \in ContState :
        SetCont(c, s) => cont' \in [Containers -> ContState]
  BY DEF TypeOK, SetCont
<1>4. \A l \in Pcs : Goto(i, l) => pc' \in [Launches -> Pcs]
  BY DEF TypeOK, Goto
<1>5. \A c \in Containers : MoveTo(i, c) => cur' \in [Launches -> Containers]
  BY DEF TypeOK, MoveTo
<1>6. Abandon(i) => /\ pc' \in [Launches -> Pcs]
                    /\ cur' \in [Launches -> Containers]
                    /\ lock' \in Launches \cup {NoLaunch}
  BY <1>0, <1>4, <1>5 DEF Abandon, Pcs
<1>7. NextEnsure(i) => pc' \in [Launches -> Pcs] /\ cur' \in [Launches -> Containers]
  BY <1>0, <1>4, <1>5 DEF NextEnsure, Pcs, CritPcs, HiPcs
<1>8. {"openTicket", "lockTicket", "waitHi", "clearReg", "ensure", "approve", "poll",
       "openReg", "lockReg", "launch"} \subseteq Pcs
  BY DEF Pcs, CritPcs, HiPcs
<1>9. {"down", "starting"} \subseteq ContState
  BY DEF ContState
<1>10. CASE Prepare(i)
  BY <1>4, <1>8, <1>10 DEF Prepare, TypeOK, registry, world
<1>11. CASE OpenTicket(i)
  BY <1>0, <1>1, <1>2, <1>4, <1>8, <1>11 DEF OpenTicket, TypeOK, world
<1>12. CASE LockTicket(i)
  BY <1>0, <1>1, <1>2, <1>4, <1>8, <1>12 DEF LockTicket, TypeOK, world
<1>13. CASE HiEnter(i)
  BY <1>0, <1>1, <1>2, <1>4, <1>8, <1>13 DEF HiEnter, TypeOK, world
<1>14. CASE HiTimeout(i)
  <2>1. (IF file[Waiters][i] = "held" THEN Cleared ELSE file[Waiters][i]) \in FileState
    BY <1>0, <1>1
  <2> QED BY <2>1, <1>0, <1>2, <1>4, <1>8, <1>14 DEF HiTimeout, TypeOK, world
<1>15. CASE Fail(i)
  BY <1>6, <1>15 DEF Fail, TypeOK, world, registry
<1>16. CASE SkipHeadless(i)
  BY <1>7, <1>16 DEF SkipHeadless, TypeOK, world, registry
<1>17. CASE StopLegacy(i)
  BY <1>0, <1>3, <1>9, <1>17 DEF StopLegacy, TypeOK, registry
<1>18. CASE Adopt(i)
  BY <1>0, <1>7, <1>18 DEF Adopt, RecoveredKey, TypeOK, world, registry
<1>19. CASE ColdStart(i)
  BY <1>0, <1>3, <1>4, <1>8, <1>9, <1>19
  DEF ColdStart, FreshKey, TypeOK, registry
<1>20. CASE Approve(i)
  BY <1>0, <1>4, <1>8, <1>20 DEF Approve, TypeOK, registry
<1>21. CASE PollHealthy(i)
  BY <1>7, <1>21 DEF PollHealthy, TypeOK, world, registry
<1>22. CASE PollFailed(i)
  BY <1>0, <1>3, <1>6, <1>9, <1>22 DEF PollFailed, TypeOK, registry
<1>23. CASE OpenReg(i)
  BY <1>0, <1>1, <1>2, <1>4, <1>8, <1>23 DEF OpenReg, TypeOK, world
<1>24. CASE LockReg(i)
  BY <1>0, <1>1, <1>2, <1>4, <1>5, <1>8, <1>24 DEF LockReg, TypeOK, world
<1> QED
  BY <1>10, <1>11, <1>12, <1>13, <1>14, <1>15, <1>16, <1>17, <1>18, <1>19, <1>20,
     <1>21, <1>22, <1>23, <1>24 DEF Start

\* The teardown (_release_sidecars) keeps the types.
LEMMA ReleaseType ==
  ASSUME TypeOK, NEW i \in Launches, Release(i)
  PROVE  TypeOK'
<1> USE SidecarAssumption, DeclaredType, FileOps
<1>0. /\ cur[i] \in Containers /\ cur[i] \in Dirs /\ Waiters \in Dirs
      /\ Telegram \in Containers /\ Provider[i] \in Containers
      /\ key[i] \in Keys /\ contKey[cur[i]] \in Keys
  BY DEF TypeOK, Containers, Dirs, Keys
<1>1. \A d \in Dirs, s \in FileState :
        SetFile(d, i, s) => file' \in [Dirs -> [Launches -> FileState]]
  BY DEF TypeOK, SetFile
<1>2. \A d \in Dirs : \A X :
        file' = [file EXCEPT ![d] = Reaped(@, X)] =>
          file' \in [Dirs -> [Launches -> FileState]]
  BY ReapedOp DEF TypeOK
<1>3. \A l \in Pcs : Goto(i, l) => pc' \in [Launches -> Pcs]
  BY DEF TypeOK, Goto
<1>4. \A c \in Containers : MoveTo(i, c) => cur' \in [Launches -> Containers]
  BY DEF TypeOK, MoveTo
<1>5. {"clearReg", "waitLo", "loCheck", "probeReg", "unapprove", "stop", "done"}
        \subseteq Pcs
  BY DEF Pcs, CritPcs, LoPcs, EndPcs
<1>6. NextRelease(i) => /\ pc' \in [Launches -> Pcs]
                        /\ cur' \in [Launches -> Containers]
                        /\ lock' \in Launches \cup {NoLaunch}
  BY <1>0, <1>3, <1>4, <1>5 DEF NextRelease, TypeOK
<1>7. CASE ClearReg(i)
  <2>1. file' \in [Dirs -> [Launches -> FileState]]
    BY <1>0, <1>1, <1>7 DEF ClearReg, FileState, Cleared
  <2>2. pc' \in [Launches -> Pcs] /\ cur' \in [Launches -> Containers]
    BY <1>0, <1>3, <1>4, <1>5, <1>7 DEF ClearReg, TypeOK
  <2> QED BY <2>1, <2>2, <1>7 DEF ClearReg, TypeOK, world
<1>8. CASE LoEnter(i)
  BY <1>3, <1>5, <1>8 DEF LoEnter, TypeOK, world, registry
<1>9. CASE LoYield(i)
  BY <1>0, <1>2, <1>3, <1>5, <1>9 DEF LoYield, TypeOK, world
<1>10. CASE LoProceed(i)
  <2>1. FirstInReverse(i) \in Containers
    OBVIOUS
  <2> QED BY <2>1, <1>0, <1>2, <1>3, <1>4, <1>5, <1>10 DEF LoProceed, TypeOK, world
<1>11. CASE KeepSidecar(i)
  <2>1. file' \in [Dirs -> [Launches -> FileState]]
    BY <1>0, <1>2, <1>11 DEF KeepSidecar, ReapRunners
  <2> QED BY <2>1, <1>6, <1>11 DEF KeepSidecar, TypeOK, world
<1>12. CASE ReleaseSidecar(i)
  <2>1. file' \in [Dirs -> [Launches -> FileState]]
    BY <1>0, <1>2, <1>12 DEF ReleaseSidecar, ReapRunners
  <2>2. key' \in [Launches -> Keys]
    BY <1>0, <1>12 DEF ReleaseSidecar, RecoveredKey, TypeOK
  <2> QED BY <2>1, <2>2, <1>3, <1>5, <1>12 DEF ReleaseSidecar, TypeOK, world
<1>13. CASE Unapprove(i)
  BY <1>3, <1>5, <1>13 DEF Unapprove, TypeOK, registry
<1>14. CASE StopSidecar(i)
  <2>1. cont' \in [Containers -> ContState]
    BY <1>0, <1>14 DEF StopSidecar, SetCont, TypeOK, ContState
  <2> QED BY <2>1, <1>6, <1>14 DEF StopSidecar, TypeOK, registry
<1>15. CASE FailRelease(i)
  BY <1>3, <1>5, <1>15 DEF FailRelease, TypeOK, world, registry
<1> QED
  BY <1>7, <1>8, <1>9, <1>10, <1>11, <1>12, <1>13, <1>14, <1>15 DEF Release

\* Every step keeps the types.
LEMMA NextType == TypeOK /\ [Next]_vars => TypeOK'
<1> SUFFICES ASSUME TypeOK, [Next]_vars PROVE TypeOK'
  OBVIOUS
<1> USE SidecarAssumption, FileOps
<1>1. ASSUME NEW i \in Launches, Launch(i) PROVE TypeOK'
  <2>1. CASE Start(i)
    BY <2>1, StartType
  <2>2. CASE RunAgent(i)
    BY <2>2, DeclaredType
    DEF RunAgent, TypeOK, Goto, MoveTo, Pcs, world, registry
  <2>3. CASE AgentExits(i)
    BY <2>3, DeclaredType
    DEF AgentExits, TypeOK, Goto, MoveTo, Pcs, world, registry
  <2>4. CASE Release(i)
    BY <2>4, ReleaseType
  <2> QED BY <1>1, <2>1, <2>2, <2>3, <2>4 DEF Launch
<1>2. ASSUME NEW i \in Launches, Kill(i) PROVE TypeOK'
  <2>1. file' \in [Dirs -> [Launches -> FileState]]
    <3>1. \A d \in Dirs : [file[d] EXCEPT ![i] = Dropped(@)] \in [Launches -> FileState]
      BY DEF TypeOK
    <3> QED BY <3>1, <1>2 DEF Kill, DropLocks
  <2> QED BY <2>1, <1>2 DEF Kill, DropLocks, TypeOK, Goto, Pcs, EndPcs, world
<1>3. ASSUME NEW i \in Launches, OrphanExits(i) PROVE TypeOK'
  BY <1>3 DEF OrphanExits, TypeOK, world, registry
<1>4. ASSUME NEW c \in Containers, TurnHealthy(c) \/ Die(c) PROVE TypeOK'
  BY <1>4 DEF TurnHealthy, Die, SetCont, TypeOK, ContState, registry
<1>5. ASSUME NEW d \in Dirs, NEW i \in Launches,
             ReaderLists(d, i) \/ ReaderProbes(d, i) \/ ReaderReleases(d, i)
      PROVE  TypeOK'
  <2>1. file' \in [Dirs -> [Launches -> FileState]]
    <3>1. \A s \in FileState : SetFile(d, i, s) =>
            file' \in [Dirs -> [Launches -> FileState]]
      BY DEF SetFile, TypeOK
    <3>2. file[d][i] \in FileState
      BY DEF TypeOK
    <3> QED BY <3>1, <3>2, <1>5 DEF ReaderLists, ReaderProbes, ReaderReleases, TypeOK
  <2>2. reader' \in ReaderStates
    BY <1>5 DEF ReaderLists, ReaderProbes, ReaderReleases, ReaderStates, TypeOK
  <2> QED BY <2>1, <2>2, <1>5 DEF ReaderLists, ReaderProbes, ReaderReleases, TypeOK, world
<1>6. CASE UNCHANGED vars
  BY <1>6 DEF vars, TypeOK
<1> QED BY <1>1, <1>2, <1>3, <1>4, <1>5, <1>6 DEF Next, Finished

\* Every variable has its type, for every set of launches and providers.
THEOREM TypeCorrect == Spec => []TypeOK
<1>1. Init => TypeOK
  BY InitType
<1>2. TypeOK /\ [Next]_vars => TypeOK'
  BY NextType
<1> QED BY <1>1, <1>2, PTL DEF Spec
-----------------------------------------------------------------------------
(* The inductive invariant.                                                *)

\* The lock variable and the control states agree on who is inside.
LockInv == \A i \in Launches : pc[i] \in CritPcs <=> lock = i

\* A launch works on a container it declares, and starts with its provider's.
PlaceInv ==
  \A i \in Launches :
    /\ cur[i] \in Declared(i)
    /\ pc[i] \in {"idle", "openTicket", "lockTicket", "waitHi"} => cur[i] = Provider[i]

\* Registrations are held between the end of the start and the teardown, which
\* drops the provider's first.
HoldPcs == {"openReg", "lockReg", "launch", "agent", "clearReg"}

HeldInv ==
  \A i \in Launches, c \in Containers : Registered(i, c) =>
    /\ c \in Declared(i)
    /\ pc[i] \in HoldPcs
    /\ pc[i] = "clearReg" => c = Telegram \/ cur[i] = Provider[i]

\* A launch past "not anybody else" has nobody registered on the container.
StopInv ==
  \A j \in Launches : pc[j] \in {"unapprove", "stop"} =>
    \A i \in Launches : ~Registered(i, cur[j])

Serving(c) == cont[c] \in {"starting", "healthy"}

\* What launch i has ensured so far and still holds the lock for.
Ensured(i, c) ==
  \/ pc[i] \in {"openReg", "lockReg"}
  \/ pc[i] \in {"ensure", "approve", "poll"} /\ cur[i] = Telegram /\ c # Telegram

\* RegisteredIsServed, and the same for what is ensured but not registered yet.
ServedInv ==
  \A i \in Launches : \A c \in Needs(i) :
    Registered(i, c) \/ Ensured(i, c) => Serving(c)

\* Whoever polls a container has started it, so nobody was using it.
PollInv ==
  \A j \in Launches : pc[j] \in {"approve", "poll"} =>
    \A i \in Launches : cur[j] \in Needs(i) => ~Registered(i, cur[j])

RegistryInv == TypeOK /\ LockInv /\ PlaceInv /\ HeldInv /\ StopInv
ServiceInv == RegistryInv /\ ServedInv /\ PollInv

-----------------------------------------------------------------------------
(* What single steps can and cannot do.                                    *)

\* Every step is one of these.
LEMMA StepKinds ==
  ASSUME [Next]_vars
  PROVE  \/ \E i \in Launches : Start(i) \/ RunAgent(i) \/ AgentExits(i) \/ Release(i)
                                  \/ Kill(i) \/ OrphanExits(i)
         \/ \E c \in Containers : TurnHealthy(c) \/ Die(c)
         \/ \E d \in Dirs, i \in Launches :
              ReaderLists(d, i) \/ ReaderProbes(d, i) \/ ReaderReleases(d, i)
         \/ UNCHANGED vars
BY DEF Next, Launch, Finished

\* The control state of a launch is changed by its own steps only.
LEMMA OwnSteps ==
  ASSUME TypeOK, [Next]_vars, NEW i \in Launches, pc'[i] # pc[i] \/ cur'[i] # cur[i]
  PROVE  Start(i) \/ RunAgent(i) \/ AgentExits(i) \/ Release(i) \/ Kill(i)
<1> DEFINE Own(j) == Start(j) \/ RunAgent(j) \/ AgentExits(j) \/ Release(j) \/ Kill(j)
<1>1. ASSUME NEW j \in Launches, Own(j), j # i
      PROVE  pc'[i] = pc[i] /\ cur'[i] = cur[i]
  <2>1. CASE Start(j)
    BY <1>1, <2>1 DEF Start, Prepare, OpenTicket, LockTicket, HiEnter, HiTimeout,
         Fail, Abandon, SkipHeadless, NextEnsure, StopLegacy, Adopt, ColdStart,
         Approve, PollHealthy, PollFailed, OpenReg, LockReg, Goto, MoveTo, TypeOK
  <2>2. CASE Release(j)
    BY <1>1, <2>2 DEF Release, ClearReg, LoEnter, LoYield, LoProceed, KeepSidecar,
         ReleaseSidecar, NextRelease, Unapprove, StopSidecar, FailRelease,
         Goto, MoveTo, TypeOK
  <2>3. CASE RunAgent(j) \/ AgentExits(j) \/ Kill(j)
    BY <1>1, <2>3 DEF RunAgent, AgentExits, Kill, Goto, MoveTo, TypeOK
  <2> QED BY <1>1, <2>1, <2>2, <2>3
<1>2. ASSUME NEW j \in Launches, OrphanExits(j) PROVE UNCHANGED <<pc, cur>>
  BY <1>2 DEF OrphanExits
<1>3. ASSUME NEW c \in Containers, TurnHealthy(c) \/ Die(c) PROVE UNCHANGED <<pc, cur>>
  BY <1>3 DEF TurnHealthy, Die
<1>4. ASSUME NEW d \in Dirs, NEW j \in Launches,
             ReaderLists(d, j) \/ ReaderProbes(d, j) \/ ReaderReleases(d, j)
      PROVE  UNCHANGED <<pc, cur>>
  BY <1>4 DEF ReaderLists, ReaderProbes, ReaderReleases
<1>5. CASE UNCHANGED vars
  BY <1>5 DEF vars
<1> QED BY StepKinds, <1>1, <1>2, <1>3, <1>4, <1>5

\* The only step that makes a registration is the launch's own LockReg.
LEMMA NewRegistration ==
  ASSUME TypeOK, [Next]_vars, NEW i \in Launches, NEW c \in Containers,
         ~Registered(i, c), Registered(i, c)'
  PROVE  LockReg(i) /\ c = cur[i]
<1> USE SidecarAssumption, FileOps
<1>0. /\ c \in Dirs /\ c # Waiters /\ file[c][i] \in FileState
      /\ \A d \in Dirs, j \in Launches : file[d][j] \in FileState
      /\ \A j \in Launches : cur[j] \in Dirs
      /\ \A d \in Dirs : file[d] \in [Launches -> FileState]
  BY DEF Dirs, TypeOK
<1>1. ASSUME NEW j \in Launches, Start(j), ~(LockReg(i) /\ c = cur[i]) PROVE FALSE
  <2>1. CASE OpenReg(j) \/ LockReg(j)
    <3>1. \A d \in Dirs, s \in FileState :
            SetFile(d, j, s) /\ ~(d = c /\ j = i) => file'[c][i] = file[c][i]
      BY <1>0 DEF SetFile, TypeOK
    <3>2. \A s : SetFile(c, i, s) => file'[c][i] = s
      BY <1>0 DEF SetFile, TypeOK
    <3>3. CASE OpenReg(j)
      BY <1>0, <3>1, <3>2, <3>3 DEF OpenReg, Registered
    <3>4. CASE LockReg(j)
      BY <1>0, <1>1, <3>1, <3>4 DEF LockReg, Registered
    <3> QED BY <2>1, <3>3, <3>4
  <2>2. CASE OpenTicket(j) \/ LockTicket(j) \/ HiEnter(j) \/ HiTimeout(j)
    BY <1>0, <2>2 DEF OpenTicket, LockTicket, HiEnter, HiTimeout, SetFile,
         Registered, TypeOK
  <2>3. CASE file' = file
    BY <2>3 DEF Registered
  <2> QED BY <1>1, <2>1, <2>2, <2>3 DEF Start, Prepare, Fail, SkipHeadless, StopLegacy,
        Adopt, ColdStart, Approve, PollHealthy, PollFailed, registry
<1>2. ASSUME NEW j \in Launches, Release(j) PROVE FALSE
  <2>1. CASE ClearReg(j)
    BY <1>0, <2>1 DEF ClearReg, SetFile, Registered, TypeOK
  <2>2. ASSUME NEW d \in Dirs, NEW X, file' = [file EXCEPT ![d] = Reaped(@, X)]
        PROVE  FALSE
    BY <1>0, <2>2, ReapedOp DEF Registered, TypeOK
  <2>3. CASE file' = file
    BY <2>3 DEF Registered
  <2>4. Waiters \in Dirs
    BY DEF Dirs
  <2> QED BY <1>0, <1>2, <2>1, <2>2, <2>3, <2>4 DEF Release, LoEnter, LoYield, LoProceed,
        KeepSidecar, ReleaseSidecar, ReapRunners, Unapprove, StopSidecar, FailRelease,
        registry
<1>3. ASSUME NEW j \in Launches, Kill(j) PROVE FALSE
  BY <1>0, <1>3 DEF Kill, DropLocks, Registered, TypeOK
<1>4. ASSUME NEW d \in Dirs, NEW j \in Launches,
             ReaderLists(d, j) \/ ReaderProbes(d, j) \/ ReaderReleases(d, j)
      PROVE  FALSE
  BY <1>0, <1>4 DEF ReaderLists, ReaderProbes, ReaderReleases, SetFile, Registered, TypeOK
<1>5. ASSUME file' = file PROVE FALSE
  BY <1>5 DEF Registered
<1> QED BY StepKinds, <1>1, <1>2, <1>3, <1>4, <1>5
     DEF RunAgent, AgentExits, OrphanExits, TurnHealthy, Die, vars, registry

-----------------------------------------------------------------------------
(* The invariant of the lock and the registry.                             *)

\* Every step keeps: who is between lock and unlock holds sidecars.lock.
LEMMA LockStep == TypeOK /\ LockInv /\ [Next]_vars => LockInv'
<1> SUFFICES ASSUME TypeOK, LockInv, [Next]_vars PROVE LockInv'
  OBVIOUS
<1> USE SidecarAssumption
<1>1. ASSUME NEW i \in Launches, Start(i) PROVE LockInv'
  <2> USE DEF LockInv, TypeOK, Goto, LockFree, CritPcs, HiPcs, LoPcs
  <2>1. CASE Prepare(i) \/ OpenTicket(i) \/ LockTicket(i) \/ HiTimeout(i)
    BY <2>1 DEF Prepare, OpenTicket, LockTicket, HiTimeout
  <2>2. CASE HiEnter(i)
    BY <2>2 DEF HiEnter
  <2>3. CASE Fail(i) \/ PollFailed(i)
    BY <2>3 DEF Fail, PollFailed, Abandon
  <2>4. CASE SkipHeadless(i) \/ Adopt(i) \/ PollHealthy(i)
    BY <2>4 DEF SkipHeadless, Adopt, PollHealthy, NextEnsure
  <2>5. CASE StopLegacy(i) \/ ColdStart(i) \/ Approve(i) \/ OpenReg(i)
    BY <2>5 DEF StopLegacy, ColdStart, Approve, OpenReg
  <2>6. CASE LockReg(i)
    BY <2>6 DEF LockReg
  <2> QED BY <1>1, <2>1, <2>2, <2>3, <2>4, <2>5, <2>6 DEF Start
<1>2. ASSUME NEW i \in Launches, Release(i) PROVE LockInv'
  <2> USE DEF LockInv, TypeOK, Goto, LockFree, CritPcs, HiPcs, LoPcs
  <2>1. CASE ClearReg(i) \/ LoProceed(i) \/ ReleaseSidecar(i) \/ Unapprove(i)
    BY <2>1 DEF ClearReg, LoProceed, ReleaseSidecar, Unapprove
  <2>2. CASE LoEnter(i) \/ LoYield(i) \/ FailRelease(i)
    BY <2>2 DEF LoEnter, LoYield, FailRelease
  <2>3. CASE KeepSidecar(i) \/ StopSidecar(i)
    BY <2>3 DEF KeepSidecar, StopSidecar, NextRelease
  <2> QED BY <1>2, <2>1, <2>2, <2>3 DEF Release
<1>3. ASSUME NEW i \in Launches, RunAgent(i) \/ AgentExits(i) \/ OrphanExits(i)
      PROVE  LockInv'
  BY <1>3 DEF RunAgent, AgentExits, OrphanExits, Goto, LockInv, TypeOK,
       CritPcs, HiPcs, LoPcs
<1>4. ASSUME NEW i \in Launches, Kill(i) PROVE LockInv'
  BY <1>4 DEF Kill, DropLocks, Goto, LockInv, TypeOK, CritPcs, HiPcs, LoPcs
<1>5. CASE UNCHANGED <<pc, lock>>
  BY <1>5 DEF LockInv
<1> QED BY StepKinds, <1>1, <1>2, <1>3, <1>4, <1>5
     DEF TurnHealthy, Die, ReaderLists, ReaderProbes, ReaderReleases, vars

\* Every step keeps: a launch works on a container it declared.
LEMMA PlaceStep == TypeOK /\ PlaceInv /\ [Next]_vars => PlaceInv'
<1> SUFFICES ASSUME TypeOK, PlaceInv, [Next]_vars, NEW i \in Launches,
                    pc'[i] # pc[i] \/ cur'[i] # cur[i]
             PROVE  PlaceInv!(i)'
  BY DEF PlaceInv
<1> USE SidecarAssumption, DeclaredType
<1>1. CASE Start(i)
  BY <1>1 DEF Start, Prepare, OpenTicket, LockTicket, HiEnter, HiTimeout,
       Fail, Abandon, SkipHeadless, NextEnsure, HasNext, StopLegacy, Adopt, ColdStart,
       Approve, PollHealthy, PollFailed, OpenReg, LockReg, Goto, MoveTo, TypeOK, PlaceInv
<1>2. CASE Release(i)
  BY <1>2 DEF Release, ClearReg, HasNext, LoEnter, LoYield, LoProceed, KeepSidecar,
       ReleaseSidecar, NextRelease, Unapprove, StopSidecar, FailRelease,
       Goto, MoveTo, TypeOK, PlaceInv
<1>3. CASE RunAgent(i) \/ AgentExits(i) \/ Kill(i)
  BY <1>3 DEF RunAgent, AgentExits, Kill, Goto, MoveTo, TypeOK, PlaceInv
<1> QED BY OwnSteps, <1>1, <1>2, <1>3

\* Every step keeps: who holds a registration is between LockReg and ClearReg.
LEMMA HeldStep == TypeOK /\ PlaceInv /\ HeldInv /\ [Next]_vars => HeldInv'
<1> SUFFICES ASSUME TypeOK, PlaceInv, HeldInv, [Next]_vars,
                    NEW i \in Launches, NEW c \in Containers, Registered(i, c)'
             PROVE  /\ c \in Declared(i)
                    /\ pc'[i] \in HoldPcs
                    /\ pc'[i] = "clearReg" => c = Telegram \/ cur'[i] = Provider[i]
  BY DEF HeldInv, Declared, HoldPcs
<1> USE SidecarAssumption, DeclaredType
<1>1. CASE ~Registered(i, c)
  BY <1>1, NewRegistration DEF LockReg, Goto, PlaceInv, HoldPcs, TypeOK
<1>2. CASE Registered(i, c) /\ pc'[i] = pc[i] /\ cur'[i] = cur[i]
  BY <1>2 DEF HeldInv
<1>3. CASE Registered(i, c) /\ (pc'[i] # pc[i] \/ cur'[i] # cur[i])
  <2>0. /\ c \in Declared(i) /\ pc[i] \in HoldPcs
        /\ pc[i] = "clearReg" => c = Telegram \/ cur[i] = Provider[i]
    BY <1>3 DEF HeldInv
  <2>1. CASE Start(i)
    BY <2>0, <2>1 DEF Start, Prepare, OpenTicket, LockTicket, HiEnter, HiTimeout,
         Fail, Abandon, SkipHeadless, StopLegacy, Adopt, ColdStart, HiPcs,
         Approve, PollHealthy, PollFailed, OpenReg, LockReg, Goto, MoveTo, HoldPcs, TypeOK
  <2>2. CASE ClearReg(i)
    <3>1. c # cur[i]
      BY <2>2 DEF ClearReg, SetFile, Cleared, Registered, TypeOK, Dirs
    <3>2. c = Telegram /\ cur[i] = Provider[i] /\ i \in WithTelegram
      BY <2>0, <2>2, <3>1 DEF ClearReg, PlaceInv
    <3> QED BY <2>0, <2>2, <3>2 DEF ClearReg, HasNext, MoveTo, TypeOK, HoldPcs
  <2>3. CASE Release(i) /\ ~ClearReg(i)
    BY <2>0, <2>3 DEF Release, LoEnter, LoYield, LoProceed, KeepSidecar,
         ReleaseSidecar, Unapprove, StopSidecar, FailRelease, LoPcs, HoldPcs
  <2>4. CASE RunAgent(i) \/ AgentExits(i)
    BY <2>0, <2>4 DEF RunAgent, AgentExits, Goto, MoveTo, HoldPcs, TypeOK
  <2>5. CASE Kill(i)
    BY FileOps, <2>5 DEF Kill, DropLocks, Registered, TypeOK, Dirs
  <2> QED BY OwnSteps, <1>3, <2>1, <2>2, <2>3, <2>4, <2>5
<1> QED BY <1>1, <1>2, <1>3

\* Every step keeps: about to stop a container, a launch holds the lock and
\* nobody else is registered on it (has_live_runners was asked under this lock).
LEMMA StopStep ==
  TypeOK /\ LockInv /\ HeldInv /\ StopInv /\ [Next]_vars => StopInv'
<1> SUFFICES ASSUME TypeOK, LockInv, HeldInv, StopInv, [Next]_vars,
                    NEW j \in Launches, pc'[j] \in {"unapprove", "stop"},
                    NEW i \in Launches, Registered(i, cur[j])'
             PROVE  FALSE
  BY DEF StopInv
<1> DEFINE c == cur'[j]
<1>0. c \in Containers /\ c \in Dirs
  BY NextType DEF TypeOK, Dirs
<1>1. file'[c][i] = "held"
  BY DEF Registered
<1>2. CASE file[c][i] # "held"
  <2>1. LockReg(i)
    BY <1>0, <1>1, <1>2, NewRegistration DEF Registered
  <2>2. pc'[j] = pc[j] /\ j # i
    BY <2>1 DEF LockReg, Goto, TypeOK
  <2> QED BY <2>1, <2>2 DEF LockReg, LockInv, CritPcs, HiPcs, LoPcs
<1>3. CASE file[c][i] = "held" /\ pc'[j] = pc[j] /\ cur'[j] = cur[j]
  BY <1>3 DEF StopInv, Registered
<1>4. CASE file[c][i] = "held" /\ (pc'[j] # pc[j] \/ cur'[j] # cur[j])
  <2>1. CASE Start(j)
    BY <2>1 DEF Start, Prepare, OpenTicket, LockTicket, HiEnter, HiTimeout, Fail, Abandon,
         SkipHeadless, NextEnsure, StopLegacy, Adopt, ColdStart, HiPcs, Approve,
         PollHealthy, PollFailed, OpenReg, LockReg, Goto, TypeOK
  <2>2. CASE ReleaseSidecar(j)
    <3>1. c = cur[j] /\ ~AnyLive(file[c], {j})
      BY <2>2 DEF ReleaseSidecar, HasLiveRunners
    <3>2. i = j
      BY <1>0, <1>4, <3>1 DEF AnyLive, TypeOK
    <3>3. pc[i] = "probeReg"
      BY <2>2, <3>2 DEF ReleaseSidecar
    <3> QED BY <1>0, <1>4, <3>3 DEF HeldInv, Registered, HoldPcs
  <2>3. CASE Unapprove(j)
    BY <1>4, <2>3 DEF Unapprove, StopInv, Registered
  <2>4. CASE Release(j) /\ ~ReleaseSidecar(j) /\ ~Unapprove(j)
    BY <2>4 DEF Release, ClearReg, LoEnter, LoYield, LoProceed, KeepSidecar, NextRelease,
         StopSidecar, FailRelease, Goto, TypeOK
  <2>5. CASE RunAgent(j) \/ AgentExits(j) \/ Kill(j)
    BY <2>5 DEF RunAgent, AgentExits, Kill, Goto, TypeOK
  <2> QED BY OwnSteps, <1>4, <2>1, <2>2, <2>3, <2>4, <2>5
<1> QED BY <1>2, <1>3, <1>4

-----------------------------------------------------------------------------
(* The invariant of the containers, as long as none dies on its own.       *)

\* A container that serves goes down only by the hand of a stopper, or of the
\* launch that just started it.
LEMMA LosesService ==
  ASSUME TypeOK, "death" \notin Faults, [Next]_vars, NEW c \in Containers,
         Serving(c), ~Serving(c)'
  PROVE  \E j \in Launches : /\ c = cur[j]
                             /\ \/ StopSidecar(j)
                                \/ PollFailed(j) /\ c = Telegram
<1> USE DEF Serving, SetCont, TypeOK
<1>1. ASSUME NEW j \in Launches, Start(j)
      PROVE  PollFailed(j) /\ c = Telegram /\ c = cur[j]
  <2>1. CASE StopLegacy(j) \/ ColdStart(j)
    BY <2>1 DEF StopLegacy, ColdStart, Running
  <2>2. CASE PollFailed(j)
    BY <2>2 DEF PollFailed
  <2>3. CASE cont' = cont
    BY <2>3
  <2> QED BY <1>1, <2>1, <2>2, <2>3 DEF Start, Prepare, OpenTicket, LockTicket, HiEnter,
        HiTimeout, Fail, SkipHeadless, Adopt, Approve, PollHealthy, OpenReg, LockReg, world
<1>2. ASSUME NEW j \in Launches, Release(j) PROVE StopSidecar(j) /\ c = cur[j]
  BY <1>2 DEF Release, ClearReg, LoEnter, LoYield, LoProceed, KeepSidecar,
       ReleaseSidecar, Unapprove, StopSidecar, FailRelease, world
<1>3. ASSUME NEW d \in Containers, TurnHealthy(d) \/ Die(d) PROVE FALSE
  BY <1>3 DEF TurnHealthy, Die
<1>4. cont' # cont
  OBVIOUS
<1> QED BY StepKinds, <1>1, <1>2, <1>3, <1>4 DEF RunAgent, AgentExits, Kill, OrphanExits,
     ReaderLists, ReaderProbes, ReaderReleases, vars, world

\* Every step keeps: on a container that was just started, and is being approved
\* or polled, no launch that needs it is registered.
LEMMA PollStep ==
  TypeOK /\ LockInv /\ HeldInv /\ ServedInv /\ PollInv /\ [Next]_vars => PollInv'
<1> SUFFICES ASSUME TypeOK, LockInv, HeldInv, ServedInv, PollInv, [Next]_vars,
                    NEW j \in Launches, pc'[j] \in {"approve", "poll"},
                    NEW i \in Launches, cur'[j] \in Needs(i), Registered(i, cur[j])'
             PROVE  FALSE
  BY DEF PollInv, Needs, Declared
<1> DEFINE c == cur'[j]
<1>0. c \in Containers /\ c \in Dirs
  BY NextType DEF TypeOK, Dirs
<1>1. file'[c][i] = "held"
  BY DEF Registered
<1>2. CASE file[c][i] # "held"
  <2>1. LockReg(i)
    BY <1>0, <1>1, <1>2, NewRegistration DEF Registered
  <2>2. pc'[j] = pc[j] /\ j # i
    BY <2>1 DEF LockReg, Goto, TypeOK
  <2> QED BY <2>1, <2>2 DEF LockReg, LockInv, CritPcs, HiPcs, LoPcs
<1>3. CASE file[c][i] = "held" /\ pc'[j] = pc[j] /\ cur'[j] = cur[j]
  BY <1>3 DEF PollInv, Registered
<1>4. CASE file[c][i] = "held" /\ (pc'[j] # pc[j] \/ cur'[j] # cur[j])
  <2>1. CASE ColdStart(j)
    BY <1>4, <2>1 DEF ColdStart, Running, ServedInv, Serving, Registered
  <2>2. CASE Approve(j)
    BY <1>4, <2>2 DEF Approve, PollInv, Registered
  <2>3. CASE Start(j) /\ ~ColdStart(j) /\ ~Approve(j)
    BY <2>3 DEF Start, Prepare, OpenTicket, LockTicket, HiEnter, HiTimeout, Fail, Abandon,
         SkipHeadless, NextEnsure, StopLegacy, Adopt, PollHealthy, PollFailed,
         OpenReg, LockReg, Goto, TypeOK
  <2>4. CASE Release(j)
    BY <2>4 DEF Release, ClearReg, LoEnter, LoYield, LoProceed, KeepSidecar,
         ReleaseSidecar, Unapprove, NextRelease, StopSidecar, FailRelease, Goto, TypeOK
  <2>5. CASE RunAgent(j) \/ AgentExits(j) \/ Kill(j)
    BY <2>5 DEF RunAgent, AgentExits, Kill, Goto, TypeOK
  <2> QED BY OwnSteps, <1>4, <2>1, <2>2, <2>3, <2>4, <2>5
<1> QED BY <1>2, <1>3, <1>4

\* Every step keeps: what a launch ensured or is registered on is served.
LEMMA ServedStep ==
  ASSUME RegistryInv, ServedInv, PollInv, "death" \notin Faults, [Next]_vars
  PROVE  ServedInv'
<1> SUFFICES ASSUME NEW i \in Launches, NEW c \in Needs(i),
                    Registered(i, c)' \/ Ensured(i, c)'
             PROVE  Serving(c)'
  BY DEF ServedInv
<1> USE SidecarAssumption DEF RegistryInv
<1>0. c \in Containers /\ c \in Declared(i)
  BY DeclaredType
\* It served before the step, or the step is the one that saw it running.
<1>1. Serving(c)
  <2>1. CASE Registered(i, c) \/ Ensured(i, c)
    BY <2>1 DEF ServedInv
  <2>2. CASE ~Registered(i, c) /\ Registered(i, c)'
    BY <2>2, <1>0, NewRegistration DEF LockReg, Ensured, ServedInv
  <2>3. CASE ~Ensured(i, c) /\ Ensured(i, c)'
    <3>0. pc'[i] # pc[i] \/ cur'[i] # cur[i]
      BY <2>3 DEF Ensured
    <3>1. CASE SkipHeadless(i)
      BY <2>3, <3>1, DeclaredType DEF SkipHeadless, NextEnsure, HasNext, Ensured, Needs,
           Goto, MoveTo, TypeOK
    <3>2. CASE Adopt(i) \/ PollHealthy(i)
      <4>1. Serving(cur[i]) /\ pc[i] \in {"ensure", "poll"} /\ NextEnsure(i)
        BY <3>2 DEF Adopt, PollHealthy, Serving
      <4>2. c = cur[i]
        BY <2>3, <4>1, <1>0, DeclaredType DEF NextEnsure, HasNext, Ensured, PlaceInv,
             Goto, MoveTo, TypeOK
      <4> QED BY <4>1, <4>2
    <3>3. CASE Start(i) /\ ~SkipHeadless(i) /\ ~Adopt(i) /\ ~PollHealthy(i)
      BY <2>3, <3>3, DeclaredType DEF Start, Prepare, OpenTicket, LockTicket, HiEnter,
           HiTimeout, Fail, Abandon, StopLegacy, ColdStart, Approve, PollFailed, OpenReg,
           LockReg, Goto, MoveTo, Ensured, PlaceInv, TypeOK
    <3>4. CASE Release(i)
      BY <2>3, <3>4 DEF Release, ClearReg, LoEnter, LoYield, LoProceed, KeepSidecar,
           ReleaseSidecar, Unapprove, NextRelease, StopSidecar, FailRelease, LoPcs, Goto,
           MoveTo, Ensured, TypeOK
    <3>5. CASE RunAgent(i) \/ AgentExits(i) \/ Kill(i)
      BY <2>3, <3>5 DEF RunAgent, AgentExits, Kill, Goto, Ensured, TypeOK
    <3> QED BY <3>0, <3>1, <3>2, <3>3, <3>4, <3>5, OwnSteps
  <2> QED BY <2>1, <2>2, <2>3
\* The two steps that could take it away are steps of a launch inside the lock,
\* on a container that nobody is registered on.
<1>2. ASSUME ~Serving(c)', NEW j \in Launches, c = cur[j], StopSidecar(j) PROVE FALSE
  <2>1. ~Registered(i, c) /\ pc[j] = "stop"
    BY <1>2 DEF StopSidecar, StopInv
  <2>2. Ensured(i, c)'
    BY <1>0, <2>1, <1>2, NewRegistration DEF LockReg, StopSidecar, NextRelease, Goto, TypeOK
  <2>3. pc[i] \notin HiPcs
    BY <2>1 DEF LockInv, CritPcs, HiPcs, LoPcs
  <2> QED BY <1>2, <2>2, <2>3
        DEF StopSidecar, NextRelease, Goto, Ensured, HiPcs, TypeOK
<1>3. ASSUME ~Serving(c)', NEW j \in Launches, c = cur[j], c = Telegram, PollFailed(j)
      PROVE  FALSE
  <2>1. ~Registered(i, c) /\ pc[j] = "poll"
    BY <1>3 DEF PollFailed, PollInv
  <2>2. Ensured(i, c)'
    BY <1>0, <2>1, <1>3, NewRegistration DEF LockReg, PollFailed, Abandon, Goto, TypeOK
  <2>3. i # j => pc[i] \notin HiPcs
    BY <2>1 DEF LockInv, CritPcs, HiPcs, LoPcs
  <2> QED BY <1>3, <2>2, <2>3 DEF PollFailed, Abandon, Goto, Ensured, HiPcs, TypeOK
<1> QED BY <1>0, <1>1, <1>2, <1>3, LosesService

-----------------------------------------------------------------------------
(* The theorems.                                                           *)

\* The part of the invariant that holds whatever dies.
LEMMA RegistryInvariant == Spec => []RegistryInv
<1>1. Init => RegistryInv
  BY SidecarAssumption, DeclaredType, InitType
  DEF Init, RegistryInv, LockInv, PlaceInv, HeldInv, StopInv, Registered, CritPcs, HiPcs,
      LoPcs, Dirs
<1>2. RegistryInv /\ [Next]_vars => RegistryInv'
  BY NextType, LockStep, PlaceStep, HeldStep, StopStep DEF RegistryInv
<1> QED BY <1>1, <1>2, PTL DEF Spec

\* sidecars.lock serializes every ensure and every release, whatever fails,
\* dies or reads the registry meanwhile.
THEOREM MutualExclusionHolds == Spec => []MutualExclusion
<1>1. RegistryInv => MutualExclusion
  BY DEF RegistryInv, LockInv, MutualExclusion
<1> QED BY <1>1, RegistryInvariant, PTL

\* The whole invariant, as long as no container dies on its own.
LEMMA ServiceInvariant ==
  ASSUME "death" \notin Faults
  PROVE  Spec => []ServiceInv
<1>1. Init => ServedInv /\ PollInv
  BY DeclaredType, SidecarAssumption
  DEF Init, ServedInv, PollInv, Registered, Ensured, Dirs
<1>2. RegistryInv /\ ServedInv /\ PollInv /\ [Next]_vars => ServedInv' /\ PollInv'
  BY ServedStep, PollStep DEF RegistryInv
<1> QED BY <1>1, <1>2, RegistryInvariant, PTL DEF Spec, ServiceInv

\* No stop, failed start or migration takes a container from under a launch
\* that is registered on it and needs it: with any launchers failing or killed
\* at any point and the registry read at any time, as long as no container dies
\* on its own.
THEOREM RegisteredIsServedHolds ==
  ASSUME "death" \notin Faults
  PROVE  Spec => []RegisteredIsServed
<1>1. ServiceInv => RegisteredIsServed
  BY DEF ServiceInv, ServedInv, RegisteredIsServed, Serving
<1> QED BY <1>1, ServiceInvariant, PTL

-----------------------------------------------------------------------------
(* Refinement: the registry implements the abstract use count.             *)

\* Writing one file leaves every other file alone.
LEMMA SetFileAt ==
  ASSUME TypeOK, NEW d \in Dirs, NEW i \in Launches, NEW s, SetFile(d, i, s)
  PROVE  /\ file'[d][i] = s
         /\ \A e \in Dirs, j \in Launches : ~(e = d /\ j = i) => file'[e][j] = file[e][j]
BY DEF SetFile, TypeOK

\* A registration is lost to the launch's own teardown or to its death.
LEMMA LostRegistration ==
  ASSUME TypeOK, [Next]_vars, NEW i \in Launches, NEW c \in Containers,
         Registered(i, c), ~Registered(i, c)'
  PROVE  (ClearReg(i) /\ c = cur[i]) \/ Kill(i)
<1> USE SidecarAssumption, FileOps
<1>0. /\ c \in Dirs /\ c # Waiters /\ Waiters \in Dirs
      /\ \A d \in Dirs, j \in Launches : file[d][j] \in FileState
      /\ \A j \in Launches : cur[j] \in Dirs
      /\ \A d \in Dirs : file[d] \in [Launches -> FileState]
      /\ file[c][i] = "held" /\ file'[c][i] # "held"
  BY DEF Dirs, TypeOK, Registered
<1>1. ASSUME NEW d \in Dirs, NEW j \in Launches, NEW s, SetFile(d, j, s)
      PROVE  d = c /\ j = i /\ s # "held"
  BY <1>0, <1>1, SetFileAt
<1>2. ASSUME NEW j \in Launches, Start(j) PROVE FALSE
  <2>1. CASE OpenReg(j)
    <3>1. cur[j] = c /\ j = i /\ Opened(file[cur[j]][j]) # "held"
      BY <1>0, <1>1, <2>1 DEF OpenReg
    <3> QED BY <1>0, <3>1 DEF Opened
  <2>2. CASE LockReg(j)
    <3>1. cur[j] = c /\ j = i /\ Acquired(file[cur[j]][j]) # "held"
      BY <1>0, <1>1, <2>2 DEF LockReg
    <3> QED BY <1>0, <3>1 DEF Acquired
  <2>3. CASE OpenTicket(j) \/ LockTicket(j) \/ HiEnter(j) \/ HiTimeout(j)
    <3>1. \E s : SetFile(Waiters, j, s)
      BY <2>3 DEF OpenTicket, LockTicket, HiEnter, HiTimeout
    <3> QED BY <1>0, <1>1, <3>1
  <2>4. CASE file' = file
    BY <1>0, <2>4
  <2> QED BY <1>2, <2>1, <2>2, <2>3, <2>4 DEF Start, Prepare, Fail, SkipHeadless,
        StopLegacy, Adopt, ColdStart, Approve, PollHealthy, PollFailed, registry
<1>3. ASSUME NEW j \in Launches, Release(j), ~(ClearReg(i) /\ c = cur[i]) PROVE FALSE
  <2>1. CASE ClearReg(j)
    <3>1. cur[j] = c /\ j = i
      BY <1>0, <1>1, <2>1 DEF ClearReg
    <3> QED BY <1>3, <2>1, <3>1
  <2>2. ASSUME NEW d \in Dirs, NEW X, file' = [file EXCEPT ![d] = Reaped(@, X)]
        PROVE  FALSE
    BY <1>0, <2>2, ReapedOp DEF TypeOK
  <2>3. CASE file' = file
    BY <1>0, <2>3
  <2> QED BY <1>0, <1>3, <2>1, <2>2, <2>3 DEF Release, LoEnter, LoYield, LoProceed,
        KeepSidecar, ReleaseSidecar, ReapRunners, Unapprove, StopSidecar, FailRelease,
        registry
<1>4. ASSUME NEW j \in Launches, Kill(j), j # i PROVE FALSE
  BY <1>0, <1>4 DEF Kill, DropLocks, TypeOK
<1>5. ASSUME NEW d \in Dirs, NEW j \in Launches,
             ReaderLists(d, j) \/ ReaderProbes(d, j) \/ ReaderReleases(d, j)
      PROVE  FALSE
  <2>1. CASE ReaderLists(d, j)
    BY <1>0, <2>1 DEF ReaderLists
  <2>2. CASE ReaderProbes(d, j)
    <3>1. d = c /\ j = i /\ Probed(file[d][j]) # "held"
      BY <1>1, <2>2 DEF ReaderProbes
    <3> QED BY <1>0, <3>1 DEF Probed
  <2>3. CASE ReaderReleases(d, j)
    <3>1. d = c /\ j = i /\ Unprobed(file[d][j]) # "held"
      BY <1>1, <2>3 DEF ReaderReleases
    <3> QED BY <1>0, <3>1 DEF Unprobed
  <2> QED BY <1>5, <2>1, <2>2, <2>3
<1>6. file' # file
  BY <1>0
<1> QED BY StepKinds, <1>2, <1>3, <1>4, <1>5, <1>6
     DEF RunAgent, AgentExits, OrphanExits, TurnHealthy, Die, vars, registry

\* What a step does to the set of running containers: it brings one up, or it
\* takes down one that no launch uses.
LEMMA UpStep ==
  ASSUME ServiceInv, "death" \notin Faults, [Next]_vars
  PROVE  \/ Up' = Up
         \/ \E c \in Containers : Up' = Up \cup {c}
         \/ \E c \in Containers : Up' = Up \ {c} /\ Users[c] = {}
<1> USE SidecarAssumption DEF ServiceInv, RegistryInv
<1>1. ASSUME NEW c \in Containers, NEW s \in ContState, SetCont(c, s)
      PROVE  Up' = IF s = "down" THEN Up \ {c} ELSE Up \cup {c}
  BY <1>1 DEF SetCont, TypeOK, Up, Running
<1>2. \A j \in Launches : cur[j] \in Containers
  BY DEF TypeOK
<1>3. {"down", "starting", "healthy"} \subseteq ContState
  BY DEF ContState
<1>4. ASSUME NEW j \in Launches, StopLegacy(j)
      PROVE  Up' = Up \ {cur[j]} /\ Users[cur[j]] = {}
  <2>1. \A i \in Launches : cur[j] \in Needs(i) => ~Registered(i, cur[j])
    BY <1>4 DEF StopLegacy, ServedInv, Serving
  <2> QED BY <1>1, <1>2, <1>3, <1>4, <2>1 DEF StopLegacy, Users
<1>5. ASSUME NEW j \in Launches, PollFailed(j), cont' # cont
      PROVE  Up' = Up \ {cur[j]} /\ Users[cur[j]] = {}
  <2>1. \A i \in Launches : cur[j] \in Needs(i) => ~Registered(i, cur[j])
    BY <1>5 DEF PollFailed, PollInv
  <2>2. SetCont(cur[j], "down")
    BY <1>5 DEF PollFailed
  <2> QED BY <1>1, <1>2, <1>3, <2>1, <2>2 DEF Users
<1>6. ASSUME NEW j \in Launches, StopSidecar(j), cont' # cont
      PROVE  Up' = Up \ {cur[j]} /\ Users[cur[j]] = {}
  <2>1. \A i \in Launches : ~Registered(i, cur[j])
    BY <1>6 DEF StopSidecar, StopInv
  <2>2. SetCont(cur[j], "down")
    BY <1>6 DEF StopSidecar
  <2> QED BY <1>1, <1>2, <1>3, <2>1, <2>2 DEF Users
<1>7. ASSUME NEW j \in Launches, ColdStart(j) PROVE Up' = Up \cup {cur[j]}
  BY <1>1, <1>2, <1>3, <1>7 DEF ColdStart
<1>8. ASSUME NEW c \in Containers, TurnHealthy(c) PROVE Up' = Up \cup {c}
  BY <1>1, <1>3, <1>8 DEF TurnHealthy
<1>9. CASE cont' = cont
  BY <1>9 DEF Up, Running
<1>10. ASSUME NEW j \in Launches, Start(j), ~StopLegacy(j), ~ColdStart(j),
              ~(PollFailed(j) /\ cont' # cont)
       PROVE  cont' = cont
  BY <1>10 DEF Start, Prepare, OpenTicket, LockTicket, HiEnter, HiTimeout, Fail,
       SkipHeadless, Adopt, Approve, PollHealthy, OpenReg, LockReg, world
<1>11. ASSUME NEW j \in Launches, Release(j), ~(StopSidecar(j) /\ cont' # cont)
       PROVE  cont' = cont
  BY <1>11 DEF Release, ClearReg, LoEnter, LoYield, LoProceed, KeepSidecar,
       ReleaseSidecar, Unapprove, FailRelease, world
<1>12. ASSUME NEW c \in Containers, Die(c) PROVE FALSE
  BY <1>12 DEF Die
<1>13. ASSUME NEW j \in Launches, RunAgent(j) \/ AgentExits(j) \/ Kill(j) \/ OrphanExits(j)
       PROVE  cont' = cont
  BY <1>13 DEF RunAgent, AgentExits, Kill, OrphanExits, world
<1>14. ASSUME NEW d \in Dirs, NEW j \in Launches,
              ReaderLists(d, j) \/ ReaderProbes(d, j) \/ ReaderReleases(d, j)
       PROVE  cont' = cont
  BY <1>14 DEF ReaderLists, ReaderProbes, ReaderReleases, world
<1>15. CASE UNCHANGED vars
  BY <1>9, <1>15 DEF vars
<1> QED BY StepKinds, <1>2, <1>4, <1>5, <1>6, <1>7, <1>8, <1>9, <1>10, <1>11, <1>12,
     <1>13, <1>14, <1>15

\* The initial states are those of the abstract use count.
LEMMA RefInitially == Init => Abstract!RefInit
BY SidecarAssumption DEF Init, Abstract!RefInit, Users, Up, Registered, Dirs

\* Every step is a step of the abstract use count, or a stutter.
LEMMA RefStep ==
  ASSUME ServiceInv, "death" \notin Faults, [Next]_vars
  PROVE  [Abstract!RefNext]_<<Users, Up>>
<1> USE SidecarAssumption DEF ServiceInv, RegistryInv
<1>0. /\ Containers \subseteq Dirs
      /\ \A j \in Launches : cur[j] \in Containers /\ cur[j] \in Dirs
      /\ \A j \in Launches : Needs(j) \subseteq Containers
  BY DeclaredType DEF TypeOK, Dirs
<1>1. ASSUME NEW i \in Launches, LockReg(i) PROVE [Abstract!RefNext]_<<Users, Up>>
  <2> DEFINE c == cur[i]
  <2>1. Up' = Up
    BY <1>1 DEF LockReg, world, Up, Running
  <2>2. /\ file'[c][i] = Acquired(file[c][i])
        /\ \A e \in Dirs, j \in Launches : ~(e = c /\ j = i) => file'[e][j] = file[e][j]
    BY <1>0, <1>1, SetFileAt DEF LockReg
  <2>3. file[c][i] = "held" => file'[c][i] = "held"
    BY <2>2 DEF Acquired
  <2>4. CASE file'[c][i] = "held" /\ c \in Needs(i)
    <3>1. c \in Up
      BY <1>0, <1>1, <2>4 DEF ServedInv, Ensured, LockReg, Serving, Up, Running
    <3>2. Users' = [Users EXCEPT ![c] = @ \cup {i}]
      <4>1. \A e \in Containers : Users[e]' =
              IF e = c THEN Users[c] \cup {i} ELSE Users[e]
        BY <1>0, <2>2, <2>3, <2>4 DEF Users, Registered
      <4>2. Users' = [e \in Containers |-> Users'[e]] /\ c \in Containers
            /\ Users = [e \in Containers |-> Users[e]]
        BY <1>0 DEF Users
      <4> HIDE DEF c
      <4>3. \A e \in Containers : Users'[e] = [Users EXCEPT ![c] = @ \cup {i}][e]
        BY <4>1, <4>2
      <4> QED BY <4>2, <4>3
    <3> QED BY <1>0, <2>1, <3>1, <3>2 DEF Abstract!RefNext, Abstract!Attach
  <2>5. CASE ~(file'[c][i] = "held" /\ c \in Needs(i))
    <3>1. Users' = Users
      BY <1>0, <2>2, <2>3, <2>5 DEF Users, Registered
    <3> QED BY <2>1, <3>1
  <2> QED BY <2>4, <2>5
<1>2. ASSUME NEW i \in Launches, ClearReg(i) PROVE [Abstract!RefNext]_<<Users, Up>>
  <2> DEFINE c == cur[i]
  <2>1. Up' = Up
    BY <1>2 DEF ClearReg, world, Up, Running
  <2>2. /\ file'[c][i] = "none"
        /\ \A e \in Dirs, j \in Launches : ~(e = c /\ j = i) => file'[e][j] = file[e][j]
    BY <1>0, <1>2, SetFileAt DEF ClearReg, Cleared
  <2>3. Users' = [d \in Containers |-> IF d \in {c} THEN Users[d] \ {i} ELSE Users[d]]
    BY <1>0, <2>2 DEF Users, Registered
  <2>4. Abstract!Detach(i, {c})
    BY <2>1, <2>3 DEF Abstract!Detach
  <2> QED BY <1>0, <2>4 DEF Abstract!RefNext
<1>3. ASSUME NEW i \in Launches, Kill(i) PROVE [Abstract!RefNext]_<<Users, Up>>
  <2>1. Up' = Up
    BY <1>3 DEF Kill, world, Up, Running
  <2>2. \A e \in Dirs, j \in Launches :
          file'[e][j] = "held" <=> file[e][j] = "held" /\ j # i
    BY <1>3 DEF Kill, DropLocks, Dropped, TypeOK
  <2>3. Users' = [d \in Containers |->
                    IF d \in Containers THEN Users[d] \ {i} ELSE Users[d]]
    BY <1>0, <2>2 DEF Users, Registered
  <2>4. Abstract!Detach(i, Containers)
    BY <2>1, <2>3 DEF Abstract!Detach
  <2> QED BY <2>4 DEF Abstract!RefNext
<1>4. CASE \A i \in Launches : ~LockReg(i) /\ ~ClearReg(i) /\ ~Kill(i)
  <2>1. \A i \in Launches, c \in Containers : Registered(i, c)' <=> Registered(i, c)
    BY <1>4, NewRegistration, LostRegistration
  <2>2. Users' = Users
    BY <1>0, <2>1 DEF Users
  <2>3. ASSUME NEW c \in Containers, Up' = Up \cup {c}
        PROVE  Abstract!BringUp(c)
    BY <2>2, <2>3 DEF Abstract!BringUp
  <2>4. ASSUME NEW c \in Containers, Up' = Up \ {c}, Users[c] = {}
        PROVE  Abstract!TakeDown(c)
    BY <2>2, <2>4 DEF Abstract!TakeDown
  <2> QED BY <2>2, <2>3, <2>4, UpStep DEF Abstract!RefNext
<1> QED BY <1>1, <1>2, <1>3, <1>4

\* The lock, the tickets and the registration files implement a use count per
\* container: it is attached to only while it is up, and goes down only while
\* its count is zero, as long as no container dies on its own.
THEOREM ImplementsRefCountHolds ==
  ASSUME "death" \notin Faults
  PROVE  Spec => ImplementsRefCount
<1>1. Init => Abstract!RefInit
  BY RefInitially
<1>2. ServiceInv /\ [Next]_vars => [Abstract!RefNext]_<<Users, Up>>
  BY RefStep
<1> QED BY <1>1, <1>2, ServiceInvariant, PTL DEF Spec, ImplementsRefCount, Abstract!RefSpec

-----------------------------------------------------------------------------
(* What the shared sidecars are to a launch: its agent is registered,      *)
(* nothing is stopped under it, its key is the proxy's and is approved,    *)
(* and the last launch out stops what the first one started.  Each theorem *)
(* names the failures it excludes: the runs of SidecarLifecycle break the  *)
(* property as soon as one of them may happen.                             *)

\* Nobody reads the registry without the lock: no file is being probed.
QuietInv ==
  /\ reader = NoReader
  /\ \A d \in Dirs, i \in Launches : file[d][i] # "probe"

\* How the registrations of a launch come about.  The file it has opened stays
\* on disk until it is locked, since only who is inside the lock reaps.
RegisteringInv ==
  \A i \in Launches :
    /\ pc[i] \in {"openReg", "lockReg"} /\ cur[i] = Telegram =>
         Registered(i, Provider[i])
    /\ pc[i] = "lockReg" => file[cur[i]][i] \in {"free", "held"}

\* No launcher is killed: an agent runs in the foreground of its launcher.
ForegroundInv == \A i \in Launches : agent[i] => pc[i] = "agent"

\* Between the start of a proxy and the approval of its key, and between the
\* removal of its key and its stop.
InBetween(j, c) == cur[j] = c /\ pc[j] \in {"approve", "stop"}
Settled(c) == \A j \in Launches : ~InBetween(j, c)

\* A running proxy has a key of a launch that declares it, so two proxies never
\* share one; one of an earlier release has the old key.
ProxyKeyInv ==
  \A c \in LiteLLM :
    /\ Serving(c) => contKey[c] \in Launches /\ Provider[contKey[c]] = c
    /\ cont[c] = "legacy" => contKey[c] = OldKey

\* About to approve a key or to take it out, a launch has the proxy's.
HookKeyInv ==
  \A i \in Launches : pc[i] \in {"approve", "unapprove"} =>
    /\ cur[i] \in LiteLLM
    /\ key[i] = contKey[cur[i]]
    /\ Running(cur[i])

\* From the moment its proxy is ensured, a launch works with the proxy's key.
LaunchKeyInv ==
  \A i \in Launches :
    \/ pc[i] \in {"approve", "poll", "openReg", "lockReg", "launch", "agent"}
    \/ pc[i] = "ensure" /\ cur[i] = Telegram
    => key[i] = contKey[Provider[i]]

\* The key of a running proxy is approved, but for the two moments in between.
ApprovedInv ==
  \A c \in LiteLLM : Serving(c) /\ Settled(c) => contKey[c] \in approved

\* And nothing else is, when no proxy of an earlier release was found.
OnlyApprovedInv ==
  /\ \A c \in Containers : cont[c] # "legacy"
  /\ approved \subseteq {contKey[c] : c \in {d \in LiteLLM : Running(d) /\ Settled(d)}}

ApprovalInv == ProxyKeyInv /\ HookKeyInv /\ ApprovedInv

-----------------------------------------------------------------------------
(* What single steps can and cannot do.                                    *)

\* Without a lock-free reader, no file is ever being probed.
LEMMA QuietStep ==
  ASSUME TypeOK, QuietInv, "reader" \notin Faults, [Next]_vars
  PROVE  QuietInv'
<1> USE SidecarAssumption DEF QuietInv
<1>0. /\ \A d \in Dirs : file[d] \in [Launches -> FileState]
      /\ \A j \in Launches : cur[j] \in Dirs
      /\ Waiters \in Dirs
  BY DEF TypeOK, Dirs
<1>1. ASSUME NEW d \in Dirs, NEW i \in Launches, NEW s, s # "probe", SetFile(d, i, s),
             reader' = reader
      PROVE  QuietInv'
  BY <1>1, SetFileAt
<1>2. ASSUME NEW d \in Dirs, NEW X, file' = [file EXCEPT ![d] = Reaped(@, X)],
             reader' = reader
      PROVE  QuietInv'
  BY <1>0, <1>2 DEF Reaped, TypeOK
<1>3. CASE UNCHANGED <<file, reader>>
  BY <1>3
<1>4. ASSUME NEW i \in Launches, Start(i) PROVE QuietInv'
  <2>1. CASE OpenTicket(i)
    BY <1>0, <1>1, <2>1 DEF OpenTicket, Opened
  <2>2. CASE LockTicket(i)
    BY <1>0, <1>1, <2>2 DEF LockTicket, Acquired
  <2>3. CASE HiEnter(i)
    BY <1>0, <1>1, <2>3 DEF HiEnter, Cleared
  <2>4. CASE HiTimeout(i)
    <3>1. (IF file[Waiters][i] = "held" THEN Cleared ELSE file[Waiters][i]) # "probe"
      BY <1>0 DEF Cleared
    <3> QED BY <1>0, <1>1, <2>4, <3>1 DEF HiTimeout
  <2>5. CASE OpenReg(i)
    BY <1>0, <1>1, <2>5 DEF OpenReg, Opened
  <2>6. CASE LockReg(i)
    BY <1>0, <1>1, <2>6 DEF LockReg, Acquired
  <2> QED BY <1>3, <1>4, <2>1, <2>2, <2>3, <2>4, <2>5, <2>6 DEF Start, Prepare, Fail,
        SkipHeadless, StopLegacy, Adopt, ColdStart, Approve, PollHealthy, PollFailed,
        registry
<1>5. ASSUME NEW i \in Launches, Release(i) PROVE QuietInv'
  <2>1. CASE ClearReg(i)
    BY <1>0, <1>1, <2>1 DEF ClearReg, Cleared
  <2>2. CASE LoYield(i) \/ LoProceed(i)
    BY <1>0, <1>2, <2>2 DEF LoYield, LoProceed
  <2>3. CASE KeepSidecar(i) \/ ReleaseSidecar(i)
    BY <1>0, <1>2, <2>3 DEF KeepSidecar, ReleaseSidecar, ReapRunners
  <2> QED BY <1>3, <1>5, <2>1, <2>2, <2>3 DEF Release, LoEnter, Unapprove, StopSidecar,
        FailRelease, registry
<1>6. ASSUME NEW i \in Launches, Kill(i) PROVE QuietInv'
  BY <1>0, <1>6 DEF Kill, DropLocks, Dropped
<1>7. ASSUME NEW d \in Dirs, NEW i \in Launches,
             ReaderLists(d, i) \/ ReaderProbes(d, i) \/ ReaderReleases(d, i)
      PROVE  FALSE
  BY <1>7 DEF ReaderLists, ReaderProbes, ReaderReleases, NoReader
<1> QED BY StepKinds, <1>3, <1>4, <1>5, <1>6, <1>7
     DEF RunAgent, AgentExits, OrphanExits, TurnHealthy, Die, vars, registry

\* A registration file that is on disk, held or not, leaves it by its launch's
\* teardown or by a release, which holds the lock.
LEMMA LostFile ==
  ASSUME TypeOK, QuietInv, [Next]_vars, NEW i \in Launches, NEW c \in Containers,
         file[c][i] \in {"free", "held"}, file'[c][i] \notin {"free", "held"},
         "reader" \notin Faults
  PROVE  ClearReg(i) \/ \E j \in Launches : Release(j) /\ pc[j] = "probeReg"
<1> USE SidecarAssumption
<1>0. /\ c \in Dirs /\ c # Waiters /\ Waiters \in Dirs
      /\ \A d \in Dirs : file[d] \in [Launches -> FileState]
      /\ \A j \in Launches : cur[j] \in Dirs
      /\ file'[c][i] = "none"
  <2>1. file'[c][i] \in FileState /\ file'[c][i] # "probe"
    BY NextType, QuietStep DEF TypeOK, Dirs, QuietInv
  <2> QED BY <2>1 DEF Dirs, TypeOK, FileState
<1>1. ASSUME NEW d \in Dirs, NEW j \in Launches, NEW s, SetFile(d, j, s)
      PROVE  d = c /\ j = i /\ s = "none"
  BY <1>0, <1>1, SetFileAt
<1>2. ASSUME NEW j \in Launches, Start(j) PROVE FALSE
  <2>1. CASE OpenReg(j)
    BY <1>0, <1>1, <2>1 DEF OpenReg, Opened
  <2>2. CASE LockReg(j)
    <3>1. cur[j] = c /\ j = i /\ Acquired(file[cur[j]][j]) = "none"
      BY <1>0, <1>1, <2>2 DEF LockReg
    <3> QED BY <1>0, <3>1 DEF Acquired
  <2>3. CASE OpenTicket(j) \/ LockTicket(j) \/ HiEnter(j) \/ HiTimeout(j)
    <3>1. \E s : SetFile(Waiters, j, s)
      BY <2>3 DEF OpenTicket, LockTicket, HiEnter, HiTimeout
    <3> QED BY <1>0, <1>1, <3>1
  <2>4. CASE file' = file
    BY <1>0, <2>4
  <2> QED BY <1>2, <2>1, <2>2, <2>3, <2>4 DEF Start, Prepare, Fail, SkipHeadless,
        StopLegacy, Adopt, ColdStart, Approve, PollHealthy, PollFailed, registry
<1>3. ASSUME NEW j \in Launches, Release(j), ~ClearReg(i) PROVE pc[j] = "probeReg"
  <2>1. CASE ClearReg(j)
    BY <1>0, <1>1, <1>3, <2>1 DEF ClearReg
  <2>2. CASE LoYield(j) \/ LoProceed(j)
    BY <1>0, <2>2 DEF LoYield, LoProceed, TypeOK
  <2>3. CASE file' = file
    BY <1>0, <2>3
  <2> QED BY <1>3, <2>1, <2>2, <2>3 DEF Release, LoEnter, KeepSidecar, ReleaseSidecar,
        Unapprove, StopSidecar, FailRelease, registry
<1>4. ASSUME NEW j \in Launches, Kill(j) PROVE FALSE
  BY <1>0, <1>4 DEF Kill, DropLocks, Dropped, TypeOK
<1>5. ASSUME NEW d \in Dirs, NEW j \in Launches,
             ReaderLists(d, j) \/ ReaderProbes(d, j) \/ ReaderReleases(d, j)
      PROVE  FALSE
  BY <1>5 DEF ReaderLists, ReaderProbes, ReaderReleases, NoReader, QuietInv
<1>6. file' # file
  BY <1>0
<1> QED BY StepKinds, <1>2, <1>3, <1>4, <1>5, <1>6
     DEF RunAgent, AgentExits, OrphanExits, TurnHealthy, Die, vars, registry

-----------------------------------------------------------------------------
(* The agent is registered.                                                *)

\* Every step keeps: what has been locked so far stays locked, and the file that
\* is opened stays there to be locked.
LEMMA RegisteringStep ==
  ASSUME RegistryInv, QuietInv, RegisteringInv, AgentIsRegistered,
         "reader" \notin Faults, [Next]_vars
  PROVE  RegisteringInv' /\ AgentIsRegistered'
<1> USE SidecarAssumption, DeclaredType DEF RegistryInv
<1>0. /\ Containers \subseteq Dirs
      /\ \A j \in Launches : cur[j] \in Containers /\ cur[j] \in Declared(j)
      /\ QuietInv'
  BY QuietStep DEF TypeOK, Dirs, PlaceInv
<1> SUFFICES ASSUME NEW i \in Launches
             PROVE  /\ RegisteringInv!(i)'
                    /\ pc'[i] \in {"launch", "agent"} =>
                         \A c \in Declared(i) : Registered(i, c)'
  BY DEF RegisteringInv, AgentIsRegistered, Declared
\* What a launch holds while it stays between lockReg and the agent, it keeps.
<1>1. ASSUME NEW c \in Containers, Registered(i, c), pc'[i] \in {"openReg", "lockReg", "launch", "agent"},
             pc[i] # "clearReg"
      PROVE  Registered(i, c)'
  BY <1>1, LostRegistration DEF ClearReg, Kill, Goto, TypeOK
<1>2. CASE UNCHANGED <<pc[i], cur[i]>>
  <2>1. pc[i] = "lockReg" => file'[cur[i]][i] \in {"free", "held"}
    <3>1. pc[i] = "lockReg" => ~\E j \in Launches : Release(j) /\ pc[j] = "probeReg"
      BY <1>2 DEF LockInv, CritPcs, HiPcs, LoPcs
    <3> QED BY <1>0, <3>1, LostFile DEF ClearReg, RegisteringInv
  <2>2. pc[i] \in {"openReg", "lockReg"} /\ cur[i] = Telegram =>
          Registered(i, Provider[i])'
    BY <1>1, <1>2, DeclaredType DEF RegisteringInv, Containers
  <2>3. pc[i] \in {"launch", "agent"} => \A c \in Declared(i) : Registered(i, c)'
    BY <1>1, <1>2 DEF AgentIsRegistered
  <2> QED BY <1>2, <2>1, <2>2, <2>3
<1>3. CASE pc'[i] # pc[i] \/ cur'[i] # cur[i]
  <2>1. CASE OpenReg(i)
    <3>1. file'[cur[i]][i] \in {"free", "held"}
      <4>1. file'[cur[i]][i] = Opened(file[cur[i]][i]) /\ file[cur[i]][i] \in FileState
        BY <1>0, <2>1, SetFileAt DEF OpenReg, TypeOK
      <4> QED BY <1>0, <4>1 DEF Opened, FileState, QuietInv
    <3>2. cur'[i] = cur[i] /\ pc[i] = "openReg" /\ pc'[i] = "lockReg"
      BY <2>1 DEF OpenReg, Goto, TypeOK
    <3> QED BY <1>1, <3>1, <3>2 DEF RegisteringInv, Containers
  <2>2. CASE LockReg(i)
    <3>1. file'[cur[i]][i] = "held"
      <4>1. file'[cur[i]][i] = Acquired(file[cur[i]][i])
        BY <1>0, <2>2, SetFileAt DEF LockReg
      <4>2. file[cur[i]][i] \in {"free", "held"}
        BY <2>2 DEF LockReg, RegisteringInv
      <4> QED BY <4>1, <4>2 DEF Acquired
    <3>2. CASE HasNext(i)
      <4>1. cur[i] = Provider[i] /\ pc'[i] = "openReg" /\ cur'[i] = Telegram
        BY <2>2, <3>2 DEF LockReg, HasNext, Goto, MoveTo, TypeOK
      <4> QED BY <3>1, <4>1 DEF Registered
    <3>3. CASE ~HasNext(i)
      <4>1. pc[i] = "lockReg" /\ pc'[i] = "launch" /\ cur' = cur
        BY <2>2, <3>3 DEF LockReg, Goto, TypeOK
      <4>2. cur[i] = Telegram => Registered(i, Provider[i])'
        BY <1>1, <4>1 DEF RegisteringInv, Containers
      <4>3. \A c \in Declared(i) : c = cur[i] \/ (c = Provider[i] /\ cur[i] = Telegram)
        BY <1>0, <3>3 DEF HasNext
      <4>4. \A c \in Declared(i) : Registered(i, c)'
        BY <3>1, <4>1, <4>2, <4>3 DEF Registered
      <4> QED BY <4>1, <4>4
    <3> QED BY <3>2, <3>3
  <2>3. CASE RunAgent(i)
    BY <1>1, <2>3 DEF RunAgent, Goto, TypeOK, AgentIsRegistered
  <2>4. CASE Start(i) /\ ~OpenReg(i) /\ ~LockReg(i)
    <3>1. \/ pc'[i] \notin {"openReg", "lockReg", "launch", "agent"}
          \/ pc'[i] = "openReg" /\ cur'[i] = Provider[i]
      BY <1>3, <2>4 DEF Start, Prepare, OpenTicket, LockTicket, HiEnter, HiTimeout, Fail,
           Abandon, SkipHeadless, NextEnsure, StopLegacy, Adopt, ColdStart, Approve,
           PollHealthy, PollFailed, Goto, MoveTo, TypeOK
    <3> QED BY <3>1
  <2>5. CASE Release(i) \/ AgentExits(i) \/ Kill(i)
    <3>1. pc'[i] \notin {"openReg", "lockReg", "launch", "agent"}
      BY <2>5 DEF Release, ClearReg, LoEnter, LoYield, LoProceed, KeepSidecar,
           ReleaseSidecar, Unapprove, NextRelease, StopSidecar, FailRelease, AgentExits,
           Kill, Goto, TypeOK
    <3> QED BY <3>1
  <2> QED BY <1>3, <2>1, <2>2, <2>3, <2>4, <2>5, OwnSteps
<1> QED BY <1>2, <1>3

\* The invariant of the registrations, as long as nobody reads the registry.
UseInv == RegistryInv /\ QuietInv /\ RegisteringInv /\ AgentIsRegistered

LEMMA UseInvariant ==
  ASSUME "reader" \notin Faults
  PROVE  Spec => []UseInv
<1>1. Init => QuietInv /\ RegisteringInv /\ AgentIsRegistered
  BY DEF Init, QuietInv, RegisteringInv, AgentIsRegistered
<1>2. RegistryInv /\ QuietInv /\ RegisteringInv /\ AgentIsRegistered /\ [Next]_vars
        => QuietInv' /\ RegisteringInv' /\ AgentIsRegistered'
  BY QuietStep, RegisteringStep DEF RegistryInv
<1> QED BY <1>1, <1>2, RegistryInvariant, PTL DEF Spec, UseInv

\* From just before its agent starts until it exits, a launch holds its
\* registration on every sidecar it declared (tracker.py), whatever fails, dies
\* or is killed, as long as nobody probes the files without the lock.
THEOREM AgentIsRegisteredHolds ==
  ASSUME "reader" \notin Faults
  PROVE  Spec => []AgentIsRegistered
BY UseInvariant, PTL DEF UseInv

-----------------------------------------------------------------------------
(* Nothing is stopped under a running agent.                               *)

\* Every step keeps: an agent that runs has its launcher waiting for it.
LEMMA ForegroundStep ==
  ASSUME TypeOK, ForegroundInv, "kill" \notin Faults, [Next]_vars
  PROVE  ForegroundInv'
<1> SUFFICES ASSUME NEW i \in Launches, agent'[i] PROVE pc'[i] = "agent"
  BY DEF ForegroundInv
<1>1. CASE RunAgent(i) \/ AgentExits(i)
  BY <1>1 DEF RunAgent, AgentExits, Goto, ForegroundInv, TypeOK
<1>2. CASE ~RunAgent(i) /\ ~AgentExits(i)
  <2>1. agent[i]
    <3>1. ASSUME NEW j \in Launches, RunAgent(j) \/ AgentExits(j) \/ OrphanExits(j)
          PROVE  agent[i]
      BY <1>2, <3>1 DEF RunAgent, AgentExits, OrphanExits, TypeOK
    <3>2. ASSUME NEW j \in Launches, Start(j) \/ Release(j) \/ Kill(j) PROVE agent' = agent
      BY <3>2 DEF Start, Prepare, OpenTicket, LockTicket, HiEnter, HiTimeout, Fail,
           SkipHeadless, StopLegacy, Adopt, ColdStart, Approve, PollHealthy, PollFailed,
           OpenReg, LockReg, Release, ClearReg, LoEnter, LoYield, LoProceed, KeepSidecar,
           ReleaseSidecar, Unapprove, StopSidecar, FailRelease, Kill
    <3>3. ASSUME NEW c \in Containers, TurnHealthy(c) \/ Die(c) PROVE agent' = agent
      BY <3>3 DEF TurnHealthy, Die
    <3>4. ASSUME NEW d \in Dirs, NEW j \in Launches,
                 ReaderLists(d, j) \/ ReaderProbes(d, j) \/ ReaderReleases(d, j)
          PROVE  agent' = agent
      BY <3>4 DEF ReaderLists, ReaderProbes, ReaderReleases
    <3> QED BY StepKinds, <3>1, <3>2, <3>3, <3>4 DEF vars
  <2>2. pc[i] = "agent"
    BY <2>1 DEF ForegroundInv
  <2>3. ~Start(i) /\ ~Release(i) /\ ~Kill(i)
    BY <2>2 DEF Start, Prepare, OpenTicket, LockTicket, HiEnter, HiTimeout, Fail, HiPcs,
         SkipHeadless, StopLegacy, Adopt, ColdStart, Approve, PollHealthy, PollFailed,
         OpenReg, LockReg, Release, ClearReg, LoEnter, LoYield, LoProceed, KeepSidecar,
         ReleaseSidecar, Unapprove, StopSidecar, FailRelease, LoPcs, Kill
  <2> QED BY <1>2, <2>2, <2>3, OwnSteps
<1> QED BY <1>1, <1>2

\* No step of any launch takes a container away from under a running agent that
\* needs it (launch service, _release_sidecars): with starts and stops failing
\* or timing out at any point, but no launcher killed, no container dying on its
\* own and no lock-free reader, whose probe can hide a registration.
THEOREM NoStopUnderAgentHolds ==
  ASSUME "reader" \notin Faults, "kill" \notin Faults, "death" \notin Faults
  PROVE  Spec => NoStopUnderAgent
<1>1. Init => ForegroundInv
  BY DEF Init, ForegroundInv
<1>2. ServiceInv /\ UseInv /\ ForegroundInv /\ [Next]_vars =>
        /\ ForegroundInv'
        /\ \A i \in Launches : \A c \in Needs(i) :
             agent[i] /\ agent'[i] /\ Running(c) => Running(c)'
  <2> SUFFICES ASSUME ServiceInv, UseInv, ForegroundInv, [Next]_vars
               PROVE  /\ ForegroundInv'
                      /\ \A i \in Launches : \A c \in Needs(i) :
                           agent[i] /\ agent'[i] /\ Running(c) => Running(c)'
    OBVIOUS
  <2>1. ForegroundInv'
    BY ForegroundStep DEF ServiceInv, RegistryInv
  <2>2. ASSUME NEW i \in Launches, NEW c \in Needs(i), agent[i], Running(c)
        PROVE  Running(c)'
    <3>1. c \in Containers /\ c \in Declared(i)
      BY DeclaredType
    <3>2. Registered(i, c)
      BY <2>2, <3>1 DEF ForegroundInv, UseInv, AgentIsRegistered
    <3>3. i \in Users[c] /\ c \in Up
      BY <2>2, <3>1, <3>2 DEF Users, Up
    <3>4. c \in Up'
      BY <3>1, <3>3, UpStep
    <3> QED BY <3>4 DEF Up
  <2> QED BY <2>1, <2>2
<1>3. Spec => []ForegroundInv
  BY <1>1, <1>2, ServiceInvariant, UseInvariant, PTL DEF Spec
<1>4. ServiceInv /\ UseInv /\ ForegroundInv /\ [Next]_vars =>
        [\A i \in Launches : \A c \in Needs(i) :
           agent[i] /\ agent'[i] /\ Running(c) => Running(c)']_vars
  BY <1>2
<1> QED
  BY <1>3, <1>4, ServiceInvariant, UseInvariant, PTL DEF Spec, NoStopUnderAgent

-----------------------------------------------------------------------------
(* The last launch out stops the sidecars.                                 *)

\* Only a cold start makes a container run.
LEMMA NewlyRunning ==
  ASSUME TypeOK, [Next]_vars, NEW c \in Containers, ~Running(c), Running(c)'
  PROVE  \E i \in Launches : ColdStart(i) /\ c = cur[i]
<1> USE DEF Running, SetCont, TypeOK
<1>1. ASSUME NEW i \in Launches, Start(i), ~(ColdStart(i) /\ c = cur[i]) PROVE FALSE
  <2>1. CASE StopLegacy(i) \/ ColdStart(i) \/ PollFailed(i)
    BY <1>1, <2>1 DEF StopLegacy, ColdStart, PollFailed
  <2>2. CASE cont' = cont
    BY <2>2
  <2> QED BY <1>1, <2>1, <2>2 DEF Start, Prepare, OpenTicket, LockTicket, HiEnter,
        HiTimeout, Fail, SkipHeadless, Adopt, Approve, PollHealthy, OpenReg, LockReg, world
<1>2. ASSUME NEW i \in Launches, Release(i) PROVE FALSE
  BY <1>2 DEF Release, ClearReg, LoEnter, LoYield, LoProceed, KeepSidecar,
       ReleaseSidecar, Unapprove, StopSidecar, FailRelease, world
<1>3. ASSUME NEW d \in Containers, TurnHealthy(d) \/ Die(d) PROVE FALSE
  BY <1>3 DEF TurnHealthy, Die
<1>4. cont' # cont
  OBVIOUS
<1> QED BY StepKinds, <1>1, <1>2, <1>3, <1>4 DEF RunAgent, AgentExits, Kill, OrphanExits,
     ReaderLists, ReaderProbes, ReaderReleases, vars, world

\* Every step keeps: somebody has still to decide about a running container.
LEMMA LastLightStep ==
  ASSUME RegistryInv, QuietInv, LastLightOut, [Next]_vars,
         "stopfail" \notin Faults, "kill" \notin Faults
  PROVE  LastLightOut'
<1> USE SidecarAssumption, DeclaredType DEF RegistryInv
<1> SUFFICES ASSUME NEW c \in Containers \ Legacy, Running(c)'
             PROVE  \E i \in Launches : Undecided(i, c)'
  BY DEF LastLightOut
<1>0. c \in Containers /\ c \in Dirs
  BY DEF Dirs
<1>1. CASE ~Running(c)
  <2>1. PICK i \in Launches : ColdStart(i) /\ c = cur[i]
    BY <1>1, NewlyRunning
  <2>2. Undecided(i, c)'
    BY <2>1 DEF ColdStart, Goto, PlaceInv, Undecided, Declared, HiPcs, TypeOK
  <2> QED BY <2>2
<1>2. CASE Running(c)
  <2>1. PICK i \in Launches : Undecided(i, c)
    BY <1>2 DEF LastLightOut
  <2>2. CASE Undecided(i, c)'
    BY <2>2
  <2>3. CASE ~Undecided(i, c)'
    <3>0. /\ c \in Declared(i) /\ cur[i] \in Declared(i)
          /\ pc'[i] # pc[i] \/ cur'[i] # cur[i]
      BY <2>1, <2>3 DEF Undecided, Declared, PlaceInv
    <3>1. ~Start(i) /\ ~RunAgent(i) /\ ~AgentExits(i) /\ ~Kill(i)
      <4>1. ASSUME Start(i) \/ RunAgent(i) \/ AgentExits(i)
            PROVE  \/ pc'[i] \in HiPcs \cup {"launch", "agent", "clearReg"}
                   \/ pc[i] = "idle" \/ pc'[i] \in {"openTicket", "lockTicket", "waitHi"}
        BY <4>1 DEF Start, Prepare, OpenTicket, LockTicket, HiEnter, HiTimeout, Fail,
             Abandon, SkipHeadless, NextEnsure, StopLegacy, Adopt, ColdStart, Approve,
             PollHealthy, PollFailed, OpenReg, LockReg, RunAgent, AgentExits, Goto, HiPcs,
             TypeOK
      <4>2. ASSUME Start(i), pc'[i] \in {"openTicket", "lockTicket", "waitHi"}
            PROVE  pc[i] \in {"idle", "openTicket", "lockTicket"}
        BY <4>2 DEF Start, Prepare, OpenTicket, LockTicket, HiEnter, HiTimeout, Fail,
             Abandon, SkipHeadless, NextEnsure, StopLegacy, Adopt, ColdStart, Approve,
             PollHealthy, PollFailed, OpenReg, LockReg, Goto, HiPcs, TypeOK
      <4>3. pc[i] \notin {"idle", "openTicket", "lockTicket"}
        BY <2>1 DEF Undecided, HiPcs
      <4>4. ~(RunAgent(i) \/ AgentExits(i)) \/ pc'[i] \in {"agent", "clearReg"}
        BY DEF RunAgent, AgentExits, Goto, TypeOK
      <4>5. ~Kill(i)
        BY DEF Kill
      <4> QED BY <2>3, <3>0, <4>1, <4>2, <4>3, <4>4, <4>5 DEF Undecided, Declared
    <3>2. CASE KeepSidecar(i)
      <4>1. c = cur[i]
        BY <2>1, <2>3, <3>0, <3>2 DEF KeepSidecar, NextRelease, HasPrevious, Goto, MoveTo,
             Undecided, Declared, HiPcs, TypeOK
      <4>2. AnyLive(file[c], {i})
        BY <1>2, <3>2, <4>1 DEF KeepSidecar, HasLiveRunners
      <4>3. PICK j \in Launches : Registered(j, c) /\ j # i
        BY <1>0, <4>2 DEF AnyLive, QuietInv, Registered, TypeOK
      <4>4. c \in Declared(j) /\ pc[j] \in HoldPcs
        BY <4>3 DEF HeldInv
      <4>5. pc'[j] = pc[j]
        BY <3>2, <4>3 DEF KeepSidecar, NextRelease, Goto, TypeOK
      <4>6. Undecided(j, c)'
        BY <4>4, <4>5 DEF Undecided, Declared, HoldPcs, HiPcs
      <4> QED BY <4>6
    <3>3. CASE StopSidecar(i)
      <4>1. c = cur[i]
        BY <2>1, <2>3, <3>0, <3>3 DEF StopSidecar, NextRelease, HasPrevious, Goto, MoveTo,
             Undecided, Declared, HiPcs, TypeOK
      <4> QED BY <3>3, <4>1 DEF StopSidecar, SetCont, Running, TypeOK
    <3>4. CASE LoProceed(i)
      BY <2>3, <3>0, <3>4 DEF LoProceed, FirstInReverse, Goto, MoveTo, Undecided, Declared,
           TypeOK
    <3>5. CASE Release(i) /\ ~KeepSidecar(i) /\ ~StopSidecar(i) /\ ~LoProceed(i)
      BY <2>1, <2>3, <3>0, <3>5 DEF Release, ClearReg, LoEnter, LoYield, ReleaseSidecar,
           Unapprove, FailRelease, Goto, MoveTo, Undecided, Declared, HiPcs, TypeOK
    <3> QED BY <3>0, <3>1, <3>2, <3>3, <3>4, <3>5, OwnSteps
  <2> QED BY <2>2, <2>3
<1> QED BY <1>1, <1>2

\* Last light out: no running sidecar is left behind for good, since one of the
\* launches that declared it has still to decide about it.  Starts may fail, time
\* out and leave half of their work; the stop path runs to its end.
THEOREM LastLightOutHolds ==
  ASSUME "reader" \notin Faults, "stopfail" \notin Faults, "kill" \notin Faults
  PROVE  Spec => []LastLightOut
<1>1. Init => LastLightOut
  BY DEF Init, LastLightOut, Running
<1>2. UseInv /\ LastLightOut /\ [Next]_vars => LastLightOut'
  BY LastLightStep DEF UseInv
<1> QED BY <1>1, <1>2, UseInvariant, PTL DEF Spec

-----------------------------------------------------------------------------
(* The approved keys are those of the running proxies.                     *)

\* Where a launch stands between two changes of .claude.json and the container.
Hooking(j) == pc[j] \in {"approve", "unapprove", "stop"}

\* A step that neither starts nor stops a proxy, changes no key that is about to
\* be approved or taken out, and leaves every launch between such changes alone.
Indifferent ==
  /\ contKey' = contKey /\ approved' = approved
  /\ \A c \in LiteLLM : /\ Serving(c)' <=> Serving(c)
                        /\ cont'[c] = "down" <=> cont[c] = "down"
                        /\ cont'[c] = "legacy" <=> cont[c] = "legacy"
  /\ \A j \in Launches :
       /\ Hooking(j) \/ Hooking(j)' => pc'[j] = pc[j] /\ cur'[j] = cur[j]
       /\ Hooking(j) => key'[j] = key[j]

\* It keeps the invariant.
LEMMA IndifferentStep ==
  ASSUME TypeOK, ApprovalInv, Indifferent
  PROVE  /\ ApprovalInv'
         /\ OnlyApprovedInv /\ cont'[Telegram] # "legacy" => OnlyApprovedInv'
<1> USE SidecarAssumption DEF ApprovalInv
<1>1. \A c \in LiteLLM : c \in Containers /\ (Running(c)' <=> Running(c))
  BY DEF Indifferent, Running, Containers
<1>2. \A j \in Launches : \A c : InBetween(j, c)' <=> InBetween(j, c)
  BY DEF Indifferent, Hooking, InBetween
<1>3. \A c : Settled(c)' <=> Settled(c)
  BY <1>2 DEF Settled
<1>4. ProxyKeyInv'
  BY DEF Indifferent, ProxyKeyInv
<1>5. HookKeyInv'
  BY <1>1 DEF Indifferent, HookKeyInv, Hooking, Running
<1>6. ApprovedInv'
  BY <1>3 DEF Indifferent, ApprovedInv
<1>7. OnlyApprovedInv /\ cont'[Telegram] # "legacy" => OnlyApprovedInv'
  <2> SUFFICES ASSUME OnlyApprovedInv, cont'[Telegram] # "legacy" PROVE OnlyApprovedInv'
    OBVIOUS
  <2>1. \A c \in Containers : cont'[c] # "legacy"
    BY DEF Indifferent, OnlyApprovedInv, Containers
  <2>2. {c \in LiteLLM : Running(c) /\ Settled(c)}'
          = {c \in LiteLLM : Running(c) /\ Settled(c)}
    BY <1>1, <1>3
  <2> QED BY <2>1, <2>2 DEF OnlyApprovedInv, Indifferent
<1> QED BY <1>4, <1>5, <1>6, <1>7

\* Every step but those of the hooks, of a start and of a stop is one of these.
LEMMA IndifferentKinds ==
  ASSUME TypeOK, PlaceInv, [Next]_vars, Faults \subseteq {"slow", "timeout", "reader"}
  PROVE  \/ Indifferent /\ cont'[Telegram] \in {cont[Telegram], "down", "starting", "healthy"}
         \/ \E i \in Launches :
              \/ StopLegacy(i) \/ (ColdStart(i) /\ cur[i] # Telegram) \/ Approve(i)
              \/ ReleaseSidecar(i) \/ Unapprove(i) \/ StopSidecar(i)
<1> USE SidecarAssumption
    DEF Indifferent, Hooking, Serving, Goto, MoveTo, SetCont, TypeOK, Containers
<1> DEFINE Kept == cont'[Telegram] \in {cont[Telegram], "down", "starting", "healthy"}
<1>1. ASSUME NEW i \in Launches, Start(i), ~StopLegacy(i), ~Approve(i),
             ~(ColdStart(i) /\ cur[i] # Telegram)
      PROVE  Indifferent /\ Kept
  <2>1. CASE Prepare(i) \/ OpenTicket(i) \/ LockTicket(i) \/ HiEnter(i) \/ HiTimeout(i)
    BY <2>1 DEF Prepare, OpenTicket, LockTicket, HiEnter, HiTimeout, world
  <2>2. CASE Fail(i)
    BY <2>2 DEF Fail
  <2>3. CASE SkipHeadless(i) \/ PollHealthy(i)
    BY <2>3 DEF SkipHeadless, PollHealthy, NextEnsure, world
  <2>4. CASE Adopt(i)
    BY <2>4 DEF Adopt, NextEnsure, world
  <2>5. CASE ColdStart(i) /\ cur[i] = Telegram
    BY <2>5 DEF ColdStart
  <2>6. CASE PollFailed(i)
    BY <2>6 DEF PollFailed, Abandon
  <2>7. CASE OpenReg(i) \/ LockReg(i)
    BY <2>7 DEF OpenReg, LockReg, world
  <2> QED BY <1>1, <2>1, <2>2, <2>3, <2>4, <2>5, <2>6, <2>7 DEF Start
<1>2. ASSUME NEW i \in Launches, RunAgent(i) \/ AgentExits(i) \/ OrphanExits(i)
      PROVE  Indifferent /\ Kept
  BY <1>2 DEF RunAgent, AgentExits, OrphanExits, world
<1>3. ASSUME NEW i \in Launches, Release(i), ~ReleaseSidecar(i), ~Unapprove(i),
             ~StopSidecar(i)
      PROVE  Indifferent /\ Kept
  <2>1. CASE ClearReg(i) \/ LoEnter(i) \/ LoYield(i) \/ LoProceed(i)
    BY <2>1 DEF ClearReg, LoEnter, LoYield, LoProceed, world
  <2>2. CASE KeepSidecar(i)
    BY <2>2 DEF KeepSidecar, NextRelease, world
  <2> QED BY <1>3, <2>1, <2>2 DEF Release, FailRelease
<1>4. ASSUME NEW c \in Containers, TurnHealthy(c) \/ Die(c)
      PROVE  Indifferent /\ Kept
  BY <1>4 DEF TurnHealthy, Die
<1>5. ASSUME NEW d \in Dirs, NEW i \in Launches,
             ReaderLists(d, i) \/ ReaderProbes(d, i) \/ ReaderReleases(d, i)
      PROVE  Indifferent /\ Kept
  BY <1>5 DEF ReaderLists, ReaderProbes, ReaderReleases, world
<1>6. ASSUME NEW i \in Launches, Kill(i) PROVE FALSE
  BY <1>6 DEF Kill
<1>7. CASE UNCHANGED vars
  BY <1>7 DEF vars
<1> QED BY StepKinds, <1>1, <1>2, <1>3, <1>4, <1>5, <1>6, <1>7

\* The steps of the launch inside the lock that change a proxy or its key.
LEMMA HookSteps ==
  ASSUME TypeOK, LockInv, PlaceInv, ApprovalInv, NEW i \in Launches,
         Faults \subseteq {"slow", "timeout", "reader"},
         \/ StopLegacy(i) \/ (ColdStart(i) /\ cur[i] # Telegram) \/ Approve(i)
         \/ ReleaseSidecar(i) \/ Unapprove(i) \/ StopSidecar(i)
  PROVE  ApprovalInv' /\ (OnlyApprovedInv => OnlyApprovedInv')
<1> USE SidecarAssumption, DeclaredType DEF ApprovalInv
<1> DEFINE c == cur[i]
<1>0. /\ c \in Containers /\ LiteLLM \subseteq Containers
      /\ c # Telegram => c = Provider[i] /\ c \in LiteLLM
      /\ pc[i] \in CritPcs
  BY DEF PlaceInv, TypeOK, Containers, StopLegacy, ColdStart, Approve, ReleaseSidecar,
     Unapprove, StopSidecar, CritPcs, HiPcs, LoPcs
\* Nobody else is inside the lock.
<1>1. \A j \in Launches : j # i =>
        /\ pc'[j] = pc[j] /\ cur'[j] = cur[j]
        /\ ~Hooking(j) /\ \A d : ~InBetween(j, d) /\ ~InBetween(j, d)'
  <2>1. \A j \in Launches : j # i => pc[j] \notin CritPcs /\ pc'[j] = pc[j] /\ cur'[j] = cur[j]
    BY <1>0 DEF LockInv, StopLegacy, ColdStart, Approve, ReleaseSidecar, Unapprove,
         StopSidecar, NextRelease, Goto, MoveTo, TypeOK
  <2> QED BY <2>1 DEF Hooking, InBetween, CritPcs, HiPcs, LoPcs
<1>2. /\ \A d : Settled(d) <=> ~InBetween(i, d)
      /\ \A d : Settled(d)' <=> ~InBetween(i, d)'
  BY <1>1 DEF Settled
<1>3. CASE StopLegacy(i)
  <2>1. /\ pc' = pc /\ cur' = cur /\ pc[i] = "ensure"
        /\ UNCHANGED <<contKey, key, approved>>
        /\ cont[c] = "legacy" /\ cont' = [cont EXCEPT ![c] = "down"]
    BY <1>3 DEF StopLegacy, SetCont
  <2>2. \A d : Settled(d)' <=> Settled(d)
    BY <2>1 DEF Settled, InBetween
  <2>3. ProxyKeyInv'
    BY <1>0, <2>1 DEF ProxyKeyInv, Serving, TypeOK
  <2>4. HookKeyInv'
    BY <1>0, <1>1, <2>1 DEF HookKeyInv, Hooking
  <2>5. ApprovedInv'
    BY <1>0, <2>1, <2>2 DEF ApprovedInv, Serving, TypeOK
  <2> QED BY <1>0, <2>1, <2>3, <2>4, <2>5 DEF OnlyApprovedInv
<1>4. CASE ColdStart(i) /\ c # Telegram
  <2>1. /\ cont[c] = "down" /\ cont' = [cont EXCEPT ![c] = "starting"]
        /\ contKey' = [contKey EXCEPT ![c] = i] /\ key' = [key EXCEPT ![i] = i]
        /\ pc[i] = "ensure" /\ pc'[i] = "approve" /\ cur' = cur /\ approved' = approved
    BY <1>4 DEF ColdStart, SetCont, Goto, Running, FreshKey, TypeOK
  <2>2. ProxyKeyInv'
    BY <1>0, <1>4, <2>1 DEF ProxyKeyInv, Serving, TypeOK
  <2>3. HookKeyInv'
    BY <1>0, <1>1, <1>4, <2>1 DEF HookKeyInv, Hooking, Running, TypeOK
  <2>4. InBetween(i, c)' /\ \A d : ~InBetween(i, d) /\ (d # c => ~InBetween(i, d)')
    BY <2>1 DEF InBetween
  <2>5. ApprovedInv'
    BY <1>0, <1>2, <2>1, <2>4 DEF ApprovedInv, Serving, TypeOK
  <2>6. OnlyApprovedInv => OnlyApprovedInv'
    <3> SUFFICES ASSUME OnlyApprovedInv PROVE OnlyApprovedInv'
      OBVIOUS
    <3>1. \A d \in Containers : cont'[d] # "legacy"
      BY <1>0, <2>1 DEF OnlyApprovedInv, TypeOK
    <3>2. ASSUME NEW k \in approved
          PROVE  \E d \in LiteLLM : Running(d)' /\ Settled(d)' /\ k = contKey'[d]
      <4>1. PICK d \in LiteLLM : Running(d) /\ Settled(d) /\ k = contKey[d]
        BY DEF OnlyApprovedInv
      <4>2. d # c
        BY <2>1, <4>1 DEF Running
      <4>3. Running(d)' /\ Settled(d)' /\ k = contKey'[d]
        BY <1>0, <1>2, <2>1, <2>4, <4>1, <4>2 DEF Running, TypeOK
      <4> QED BY <4>3
    <3> QED BY <2>1, <3>1, <3>2 DEF OnlyApprovedInv
  <2> QED BY <2>2, <2>3, <2>5, <2>6
<1>5. CASE Approve(i)
  <2>1. /\ pc[i] = "approve" /\ pc'[i] = "poll" /\ cur' = cur
        /\ UNCHANGED <<cont, contKey, key>>
        /\ approved' = approved \cup {contKey[c]} /\ c \in LiteLLM /\ Running(c)
    BY <1>5 DEF Approve, HookKeyInv, Goto, TypeOK
  <2>2. \A d : ~InBetween(i, d)' /\ (InBetween(i, d) <=> d = c)
    BY <2>1 DEF InBetween
  <2>3. ProxyKeyInv'
    BY <2>1 DEF ProxyKeyInv, Serving
  <2>4. HookKeyInv'
    BY <1>1, <2>1 DEF HookKeyInv, Hooking
  <2>5. ApprovedInv'
    BY <1>2, <2>1, <2>2 DEF ApprovedInv, Serving
  <2>6. OnlyApprovedInv => OnlyApprovedInv'
    <3> SUFFICES ASSUME OnlyApprovedInv PROVE OnlyApprovedInv'
      OBVIOUS
    <3>1. ASSUME NEW k \in approved'
          PROVE  \E d \in LiteLLM : Running(d)' /\ Settled(d)' /\ k = contKey'[d]
      BY <1>2, <2>1, <2>2 DEF OnlyApprovedInv, Running
    <3> QED BY <2>1, <3>1 DEF OnlyApprovedInv
  <2> QED BY <2>3, <2>4, <2>5, <2>6
<1>6. CASE ReleaseSidecar(i)
  <2>1. /\ pc[i] = "probeReg" /\ cur' = cur /\ UNCHANGED world /\ Running(c)
        /\ c = Telegram => pc'[i] = "stop"
        /\ c # Telegram => pc'[i] = "unapprove" /\ key' = [key EXCEPT ![i] = contKey[c]]
    BY <1>6 DEF ReleaseSidecar, RecoveredKey, Goto, TypeOK
  <2>2. \A d : d # Telegram => ~InBetween(i, d)' /\ ~InBetween(i, d)
    BY <2>1 DEF InBetween
  <2>3. ProxyKeyInv'
    BY <2>1 DEF ProxyKeyInv, Serving, world
  <2>4. HookKeyInv'
    BY <1>0, <1>1, <2>1 DEF HookKeyInv, Hooking, Running, TypeOK, world
  <2>5. ApprovedInv'
    BY <1>2, <2>1, <2>2 DEF ApprovedInv, Serving, world
  <2>6. {d \in LiteLLM : Running(d) /\ Settled(d)}'
          = {d \in LiteLLM : Running(d) /\ Settled(d)}
    BY <1>2, <2>1, <2>2 DEF Running, world
  <2> QED BY <2>1, <2>3, <2>4, <2>5, <2>6 DEF OnlyApprovedInv, world
<1>7. CASE Unapprove(i)
  <2>1. /\ pc[i] = "unapprove" /\ pc'[i] = "stop" /\ cur' = cur
        /\ UNCHANGED <<cont, contKey, key>>
        /\ approved' = approved \ {contKey[c]} /\ c \in LiteLLM /\ Running(c)
    BY <1>7 DEF Unapprove, HookKeyInv, Goto, TypeOK
  <2>2. \A d : ~InBetween(i, d) /\ (InBetween(i, d)' <=> d = c)
    BY <2>1 DEF InBetween
  \* No other proxy loses its key: two proxies never share one.
  <2>3. \A d \in LiteLLM : Serving(d) /\ d # c => contKey[d] # contKey[c]
    BY <1>0, <2>1 DEF ProxyKeyInv, Serving, Running, TypeOK, ContState
  <2>4. ProxyKeyInv'
    BY <2>1 DEF ProxyKeyInv, Serving
  <2>5. HookKeyInv'
    BY <1>1, <2>1 DEF HookKeyInv, Hooking
  <2>6. ApprovedInv'
    BY <1>2, <2>1, <2>2, <2>3 DEF ApprovedInv, Serving
  <2>7. OnlyApprovedInv => OnlyApprovedInv'
    <3> SUFFICES ASSUME OnlyApprovedInv PROVE OnlyApprovedInv'
      OBVIOUS
    <3>1. ASSUME NEW k \in approved'
          PROVE  \E d \in LiteLLM : Running(d)' /\ Settled(d)' /\ k = contKey'[d]
      BY <1>2, <2>1, <2>2 DEF OnlyApprovedInv, Running
    <3> QED BY <2>1, <3>1 DEF OnlyApprovedInv
  <2> QED BY <2>4, <2>5, <2>6, <2>7
<1>8. CASE StopSidecar(i)
  <2>1. /\ pc[i] = "stop" /\ pc'[i] \in {"probeReg", "done"}
        /\ UNCHANGED <<contKey, key, approved>> /\ cont' = [cont EXCEPT ![c] = "down"]
    BY <1>8 DEF StopSidecar, NextRelease, SetCont, Goto, TypeOK
  <2>2. \A d : ~InBetween(i, d)' /\ (InBetween(i, d) <=> d = c)
    BY <2>1 DEF InBetween
  <2>3. ProxyKeyInv'
    BY <1>0, <2>1 DEF ProxyKeyInv, Serving, TypeOK
  <2>4. HookKeyInv'
    BY <1>1, <2>1 DEF HookKeyInv, Hooking
  <2>5. ApprovedInv'
    BY <1>0, <1>2, <2>1, <2>2 DEF ApprovedInv, Serving, TypeOK
  <2>6. OnlyApprovedInv => OnlyApprovedInv'
    <3> SUFFICES ASSUME OnlyApprovedInv PROVE OnlyApprovedInv'
      OBVIOUS
    <3>1. ASSUME NEW k \in approved
          PROVE  \E d \in LiteLLM : Running(d)' /\ Settled(d)' /\ k = contKey'[d]
      BY <1>0, <1>2, <2>1, <2>2 DEF OnlyApprovedInv, Running, TypeOK
    <3> QED BY <1>0, <2>1, <3>1 DEF OnlyApprovedInv, TypeOK
  <2> QED BY <2>3, <2>4, <2>5, <2>6
<1> QED BY <1>3, <1>4, <1>5, <1>6, <1>7, <1>8

\* Every step keeps both.
LEMMA ApprovalStep ==
  ASSUME TypeOK, LockInv, PlaceInv, ApprovalInv, [Next]_vars,
         Faults \subseteq {"slow", "timeout", "reader"}
  PROVE  ApprovalInv' /\ (OnlyApprovedInv => OnlyApprovedInv')
<1>1. CASE /\ Indifferent
           /\ cont'[Telegram] \in {cont[Telegram], "down", "starting", "healthy"}
  BY <1>1, IndifferentStep DEF OnlyApprovedInv, Containers
<1>2. ASSUME NEW i \in Launches,
             \/ StopLegacy(i) \/ (ColdStart(i) /\ cur[i] # Telegram) \/ Approve(i)
             \/ ReleaseSidecar(i) \/ Unapprove(i) \/ StopSidecar(i)
      PROVE  ApprovalInv' /\ (OnlyApprovedInv => OnlyApprovedInv')
  BY <1>2, HookSteps
<1> QED BY <1>1, <1>2, IndifferentKinds

LEMMA ApprovalInvariant ==
  ASSUME Faults \subseteq {"slow", "timeout", "reader"}
  PROVE  Spec => []ApprovalInv
<1>1. Init => ApprovalInv
  BY SidecarAssumption
  DEF Init, ApprovalInv, ProxyKeyInv, HookKeyInv, ApprovedInv, Serving, Containers
<1>2. RegistryInv /\ ApprovalInv /\ [Next]_vars => ApprovalInv'
  BY ApprovalStep DEF RegistryInv
<1> QED BY <1>1, <1>2, RegistryInvariant, PTL DEF Spec

\* Whenever nobody is inside the lock, the approved keys are exactly those of the
\* running proxies (key_approval.py): with any number of launches starting,
\* joining and leaving, slow health checks and lock timeouts, the registry read
\* at any time, but no hook or docker command that raises and nobody killed; and
\* with no proxy of an earlier release left, whose key the migration keeps.
THEOREM ApprovedIsRunningHolds ==
  ASSUME Faults \subseteq {"slow", "timeout", "reader"}, Legacy = {}
  PROVE  Spec => []ApprovedIsRunning
<1>1. Init => OnlyApprovedInv
  BY DEF Init, OnlyApprovedInv
<1>2. RegistryInv /\ ApprovalInv /\ OnlyApprovedInv /\ [Next]_vars => OnlyApprovedInv'
  BY ApprovalStep DEF RegistryInv
<1>3. RegistryInv /\ ApprovalInv /\ OnlyApprovedInv => ApprovedIsRunning
  <2> SUFFICES ASSUME RegistryInv, ApprovalInv, OnlyApprovedInv, lock = NoLaunch
               PROVE  approved = { contKey[c] : c \in {d \in LiteLLM : Running(d)} }
    BY DEF ApprovedIsRunning
  <2>1. \A c : Settled(c)
    BY SidecarAssumption DEF RegistryInv, LockInv, Settled, InBetween, CritPcs, HiPcs, LoPcs
  <2>2. ASSUME NEW c \in LiteLLM, Running(c) PROVE contKey[c] \in approved
    <3>1. Serving(c)
      <4>1. c \in Containers /\ cont[c] # "legacy" /\ cont[c] # "down"
        BY <2>2 DEF OnlyApprovedInv, Containers, Running
      <4> QED BY <4>1 DEF RegistryInv, TypeOK, ContState, Serving
    <3> QED BY <2>1, <3>1 DEF ApprovalInv, ApprovedInv
  <2>3. ASSUME NEW k \in approved
        PROVE  k \in { contKey[c] : c \in {d \in LiteLLM : Running(d)} }
    BY <2>1 DEF OnlyApprovedInv
  <2> QED BY <2>2, <2>3
<1> QED BY <1>1, <1>2, <1>3, RegistryInvariant, ApprovalInvariant, PTL DEF Spec

-----------------------------------------------------------------------------
(* The agent's key.                                                        *)

\* Only a cold start changes the key of a proxy.
LEMMA KeyChange ==
  ASSUME TypeOK, [Next]_vars, NEW i \in Launches, NEW c \in LiteLLM,
         contKey'[c] # contKey[c]
  PROVE  \E j \in Launches : ColdStart(j) /\ c = cur[j]
<1>1. ASSUME NEW j \in Launches, Start(j) PROVE ColdStart(j) /\ c = cur[j]
  <2>1. CASE ColdStart(j)
    BY <2>1, SidecarAssumption DEF ColdStart, Containers, TypeOK
  <2>2. CASE ~ColdStart(j)
    BY <1>1, <2>2 DEF Start, Prepare, OpenTicket, LockTicket, HiEnter, HiTimeout, Fail,
         SkipHeadless, StopLegacy, Adopt, Approve, PollHealthy, PollFailed, OpenReg,
         LockReg, world
  <2> QED BY <2>1, <2>2
<1>2. ASSUME NEW j \in Launches, Release(j) PROVE FALSE
  BY <1>2 DEF Release, ClearReg, LoEnter, LoYield, LoProceed, KeepSidecar, ReleaseSidecar,
       Unapprove, StopSidecar, FailRelease, world
<1> QED BY <1>1, <1>2, StepKinds DEF RunAgent, AgentExits, Kill, OrphanExits, TurnHealthy,
     Die, ReaderLists, ReaderProbes, ReaderReleases, vars, world

\* Where a launch works with the key of its proxy.
Keyed(i) ==
  \/ pc[i] \in {"approve", "poll", "openReg", "lockReg", "launch", "agent"}
  \/ pc[i] = "ensure" /\ cur[i] = Telegram

\* Every step keeps: a launch works with the key of its proxy.
LEMMA LaunchKeyStep ==
  ASSUME ServiceInv, UseInv, LaunchKeyInv, "death" \notin Faults, [Next]_vars
  PROVE  LaunchKeyInv'
<1> USE SidecarAssumption, DeclaredType DEF ServiceInv, RegistryInv, UseInv
<1> SUFFICES ASSUME NEW i \in Launches, Keyed(i)'
             PROVE  key'[i] = contKey'[Provider[i]]
  BY DEF LaunchKeyInv, Keyed
<1>0. /\ Provider[i] \in LiteLLM /\ Provider[i] \in Containers /\ Provider[i] \in Needs(i)
      /\ cur[i] \in Declared(i)
      /\ cur[i] # Telegram => cur[i] = Provider[i]
  BY DEF PlaceInv, Containers, Needs
<1>1. CASE Adopt(i) \/ ColdStart(i)
  <2>1. CASE cur[i] = Telegram
    <3>1. UNCHANGED <<key, contKey>> /\ Keyed(i)
      BY <1>1, <2>1 DEF Adopt, ColdStart, Keyed, world
    <3> QED BY <3>1 DEF LaunchKeyInv, Keyed
  <2>2. CASE cur[i] # Telegram
    BY <1>0, <1>1, <2>2 DEF Adopt, ColdStart, RecoveredKey, FreshKey, world, TypeOK
  <2> QED BY <2>1, <2>2
<1>2. CASE ~Adopt(i) /\ ~ColdStart(i)
  <2>1. Keyed(i) /\ key'[i] = key[i]
    <3>1. CASE Start(i)
      BY <1>0, <1>2, <3>1 DEF Start, Prepare, OpenTicket, LockTicket, HiEnter, HiTimeout,
           Fail, Abandon, SkipHeadless, NextEnsure, StopLegacy, Approve, PollHealthy,
           PollFailed, OpenReg, LockReg, Goto, MoveTo, Keyed, HasNext, PlaceInv, TypeOK
    <3>2. CASE Release(i)
      BY <3>2 DEF Release, ClearReg, LoEnter, LoYield, LoProceed, KeepSidecar, NextRelease,
           ReleaseSidecar, Unapprove, StopSidecar, FailRelease, LoPcs, Goto, Keyed, TypeOK
    <3>3. CASE RunAgent(i) \/ AgentExits(i) \/ Kill(i)
      BY <3>3 DEF RunAgent, AgentExits, Kill, Goto, Keyed, TypeOK
    <3>4. CASE ~Start(i) /\ ~Release(i) /\ ~RunAgent(i) /\ ~AgentExits(i) /\ ~Kill(i)
      <4>1. Keyed(i)
        BY <3>4, OwnSteps DEF Keyed
      <4>2. ASSUME NEW j \in Launches, Start(j), j # i PROVE key'[i] = key[i]
        BY <4>2 DEF Start, Prepare, OpenTicket, LockTicket, HiEnter, HiTimeout, Fail,
             SkipHeadless, StopLegacy, Adopt, ColdStart, Approve, PollHealthy, PollFailed,
             OpenReg, LockReg, TypeOK
      <4>3. ASSUME NEW j \in Launches, Release(j), j # i PROVE key'[i] = key[i]
        BY <4>3 DEF Release, ClearReg, LoEnter, LoYield, LoProceed, KeepSidecar,
             ReleaseSidecar, Unapprove, StopSidecar, FailRelease, TypeOK
      <4>4. key'[i] = key[i]
        BY <3>4, <4>2, <4>3, StepKinds DEF RunAgent, AgentExits, Kill, OrphanExits,
             TurnHealthy, Die, ReaderLists, ReaderProbes, ReaderReleases, vars
      <4> QED BY <4>1, <4>4
    <3> QED BY <3>1, <3>2, <3>3, <3>4
  <2>2. contKey'[Provider[i]] = contKey[Provider[i]]
    <3> SUFFICES ASSUME NEW j \in Launches, ColdStart(j), Provider[i] = cur[j]
                 PROVE  FALSE
      BY <1>0, KeyChange
    <3>1. j # i /\ pc[j] = "ensure" /\ cont[Provider[i]] = "down"
      BY <1>2 DEF ColdStart, Running
    <3>2. CASE pc[i] \in {"launch", "agent"}
      BY <1>0, <3>1, <3>2 DEF AgentIsRegistered, ServedInv, Serving
    <3>3. CASE pc[i] \notin {"launch", "agent"}
      BY <2>1, <3>1, <3>3 DEF Keyed, LockInv, CritPcs, HiPcs
    <3> QED BY <3>2, <3>3
  <2> QED BY <2>1, <2>2 DEF LaunchKeyInv, Keyed
<1> QED BY <1>1, <1>2

\* The agent's key is its proxy's and Claude Code has it approved (litellm.py,
\* _ensure_sidecar; key_approval.py), whoever started the proxy, joined it or
\* left it meanwhile, and whatever was found running from an earlier release.
\* No hook or docker command raises under the lock, nobody is killed, no
\* container dies and nobody reads the registry without the lock.
THEOREM AgentKeyWorksHolds ==
  ASSUME Faults \subseteq {"slow", "timeout"}
  PROVE  Spec => []AgentKeyWorks
<1>0. /\ "reader" \notin Faults /\ "death" \notin Faults
      /\ Faults \subseteq {"slow", "timeout", "reader"}
  OBVIOUS
<1>1. Init => LaunchKeyInv
  BY SidecarAssumption DEF Init, LaunchKeyInv
<1>2. ServiceInv /\ UseInv /\ LaunchKeyInv /\ [Next]_vars => LaunchKeyInv'
  BY <1>0, LaunchKeyStep
<1>3. ServiceInv /\ UseInv /\ LaunchKeyInv /\ ApprovalInv => AgentKeyWorks
  <2> SUFFICES ASSUME ServiceInv, UseInv, LaunchKeyInv, ApprovalInv,
                      NEW i \in Launches, LiveAgent(i)
               PROVE  key[i] = contKey[Provider[i]] /\ key[i] \in approved
    BY DEF AgentKeyWorks
  <2> DEFINE c == Provider[i]
  <2>1. c \in LiteLLM /\ c \in Needs(i) /\ c \in Declared(i) /\ c \in Containers
    BY DeclaredType DEF Needs, Containers
  <2>2. Registered(i, c) /\ Serving(c)
    BY <2>1 DEF UseInv, AgentIsRegistered, LiveAgent, ServiceInv, ServedInv
  <2>3. Settled(c)
    BY <2>1, <2>2 DEF ServiceInv, RegistryInv, StopInv, PollInv, Settled, InBetween
  <2>4. contKey[c] \in approved
    BY <2>1, <2>2, <2>3 DEF ApprovalInv, ApprovedInv
  <2> QED BY <2>4 DEF LaunchKeyInv, LiveAgent
<1> QED
  BY <1>0, <1>1, <1>2, <1>3, ServiceInvariant, UseInvariant, ApprovalInvariant, PTL DEF Spec
=============================================================================
