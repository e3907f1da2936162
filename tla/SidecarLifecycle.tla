-------------------------- MODULE SidecarLifecycle --------------------------
(***************************************************************************)
(* The life of the shared sidecar containers under concurrent `agent run`s *)
(* of one install: lib/flock.py and lib/priority_lock.py, the registry of  *)
(* domain/sidecars/tracker.py, ensure and release of the LiteLLM and the   *)
(* Telegram sidecar, and the parts of domain/launch/service.py that drive  *)
(* them (_prepare_for_launch, docker run, _release_sidecars).              *)
(*                                                                         *)
(* A launch is one process.  It takes the host-wide lock at high priority, *)
(* ensures its sidecars in the order it declares them, registers on every  *)
(* one of them and leaves the lock; its agent runs; it drops its           *)
(* registrations, takes the lock at low priority (yielding to every launch *)
(* that holds a start ticket) and stops, in reverse order, each sidecar on *)
(* which no other launch is registered.                                    *)
(*                                                                         *)
(* One step is one system call or docker command whose effect another      *)
(* process can see; what runs under the lock is still taken step by step,  *)
(* because the process can fail or be killed between any two of them and   *)
(* because the registry is read without the lock.                          *)
(***************************************************************************)
EXTENDS FlockDir

CONSTANTS
  Launches,      \* the `agent run` processes; also their instance ids
  LiteLLM,       \* the container names of the providers' LiteLLM sidecars
  Telegram,      \* the one Telegram container, shared by all providers
  Provider,      \* Provider[i]: the LiteLLM container that launch i declares
  WithTelegram,  \* the launches that found the Telegram secrets
  Headless,      \* the launches that use no hooks: they start no Telegram
  Legacy,        \* LiteLLM containers found running off agent-wrap-net
  Faults,        \* the kinds of failure that may happen, see FaultKinds
  Waiters,       \* the start-waiters/ directory
  NoLaunch,      \* no process
  NoKey,         \* no master key
  OldKey         \* the key of a container of an earlier release

FaultKinds ==
  { "fail",      \* a command or a hook under the start lock raises, or Ctrl-C
    "stopfail",  \* the same under the stop lock; docker stop does not stop
    "slow",      \* a health check does not turn healthy in time
    "timeout",   \* the start lock is not obtained in time
    "kill",      \* a launcher is killed: no handler, no finally block runs
    "death",     \* a sidecar container dies on its own
    "reader" }   \* `agent inspect` or the update check reads the registry

Containers == LiteLLM \cup {Telegram}
Dirs == Containers \cup {Waiters}

ASSUME SidecarAssumption ==
  /\ Telegram \notin LiteLLM
  /\ Waiters \notin Containers
  /\ Provider \in [Launches -> LiteLLM]
  /\ WithTelegram \subseteq Launches
  /\ Headless \subseteq Launches
  /\ Legacy \subseteq LiteLLM
  /\ Faults \subseteq FaultKinds
  /\ NoLaunch \notin Launches
  /\ NoKey \notin Launches /\ OldKey \notin Launches /\ NoKey # OldKey

VARIABLES
  pc,        \* pc[i]: where launch i is
  cur,       \* cur[i]: the declared container launch i is working on
  lock,      \* the holder of sidecars.lock
  file,      \* file[d][i]: the file of instance i in directory d of the registry
  cont,      \* cont[c]: what docker says of the container
  contKey,   \* contKey[c]: LITELLM_MASTER_KEY in the environment of the container
  key,       \* key[i]: the master key launch i works with (its agent's API key)
  approved,  \* customApiKeyResponses.approved of .claude.json
  agent,     \* agent[i]: the agent container of launch i is running
  reader     \* the lock-free reader of the registry

vars == <<pc, cur, lock, file, cont, contKey, key, approved, agent, reader>>

Keys == Launches \cup {NoKey, OldKey}

\* A container that is not running may still be on disk as a corpse; every
\* start removes it first, so it is the same as none.  "starting" runs but is
\* not (yet) healthy, "legacy" runs off agent-wrap-net.
ContState == {"down", "legacy", "starting", "healthy"}

\* Under the lock at high priority, at low priority, at either.
HiPcs == {"ensure", "approve", "poll", "openReg", "lockReg"}
LoPcs == {"loCheck", "probeReg", "unapprove", "stop"}
CritPcs == HiPcs \cup LoPcs
EndPcs == {"done", "killed"}
Pcs == {"idle", "openTicket", "lockTicket", "waitHi", "launch", "agent",
        "clearReg", "waitLo"} \cup CritPcs \cup EndPcs

NoReader == [phase |-> "off"]
ReaderStates ==
  {NoReader} \cup [phase : {"listed", "holding"}, dir : Dirs, id : Launches]

-----------------------------------------------------------------------------
(* What a launch declares, and the order in which it walks it.             *)

Declared(i) ==
  {Provider[i]} \cup IF i \in WithTelegram THEN {Telegram} ELSE {}

\* The containers the agent of i talks to: a headless launch registers on
\* Telegram like any other but neither starts it nor uses it.
Needs(i) == IF i \in Headless THEN {Provider[i]} ELSE Declared(i)

\* The sidecars are ensured, registered and cleared from the provider's on, and
\* released in the reverse order.
HasNext(i) == cur[i] = Provider[i] /\ i \in WithTelegram

\* Mutant of FirstInReverse: the walk back leaves Telegram out.
FirstInReverseNoTelegram(i) == Provider[i]

FirstInReverse(i) == IF i \in WithTelegram THEN Telegram ELSE Provider[i]
HasPrevious(i) == cur[i] = Telegram

Running(c) == cont[c] # "down"

Goto(i, l) == pc' = [pc EXCEPT ![i] = l]
MoveTo(i, c) == cur' = [cur EXCEPT ![i] = c]
SetFile(d, i, s) == file' = [file EXCEPT ![d][i] = s]
SetCont(c, s) == cont' = [cont EXCEPT ![c] = s]

world == <<cont, contKey, approved>>
registry == <<file, reader>>
-----------------------------------------------------------------------------
(* The start path: _prepare_for_launch under _high_priority_lock.          *)

Init ==
  /\ pc = [i \in Launches |-> "idle"]
  /\ cur = Provider
  /\ lock = NoLaunch
  /\ file = [d \in Dirs |-> [i \in Launches |-> "none"]]
  /\ cont = [c \in Containers |-> IF c \in Legacy THEN "legacy" ELSE "down"]
  /\ contKey = [c \in Containers |-> IF c \in Legacy THEN OldKey ELSE NoKey]
  /\ key = [i \in Launches |-> NoKey]
  /\ approved = IF Legacy = {} THEN {} ELSE {OldKey}
  /\ agent = [i \in Launches |-> FALSE]
  /\ reader = NoReader

\* Every sidecar's prepare(), which pulls its image without the lock.  If it
\* raises, the launch releases its sidecars all the same.
Prepare(i) ==
  /\ pc[i] = "idle"
  /\ \/ Goto(i, "openTicket")
     \/ "fail" \in Faults /\ Goto(i, "clearReg")
  /\ UNCHANGED <<cur, lock, registry, world, key, agent>>

\* lock_and_hold on the ticket opens the file first and locks it second.
OpenTicket(i) ==
  /\ pc[i] = "openTicket"
  /\ SetFile(Waiters, i, Opened(file[Waiters][i]))
  /\ Goto(i, "lockTicket")
  /\ UNCHANGED <<cur, lock, reader, world, key, agent>>

LockTicket(i) ==
  /\ pc[i] = "lockTicket"
  /\ SetFile(Waiters, i, Acquired(file[Waiters][i]))
  /\ Goto(i, "waitHi")
  /\ UNCHANGED <<cur, lock, reader, world, key, agent>>

\* Mutant of LockFree: the lock keeps nobody out.
LockAlwaysFree == TRUE

\* flock on sidecars.lock succeeds.
LockFree == lock = NoLaunch

\* Mutant of HiEnter: the ticket is kept until the launch ends.
HiEnterKeepTicket(i) ==
  /\ pc[i] = "waitHi"
  /\ LockFree
  /\ lock' = i
  /\ Goto(i, "ensure")
  /\ UNCHANGED <<cur, registry, world, key, agent>>

\* The lock is obtained and the ticket cleared, held or not.
HiEnter(i) ==
  /\ pc[i] = "waitHi"
  /\ LockFree
  /\ lock' = i
  /\ SetFile(Waiters, i, Cleared)
  /\ Goto(i, "ensure")
  /\ UNCHANGED <<cur, reader, world, key, agent>>

\* LockTimeoutError: the finally clause clears the ticket if it was obtained.
HiTimeout(i) ==
  /\ "timeout" \in Faults
  /\ pc[i] = "waitHi"
  /\ SetFile(Waiters, i, IF file[Waiters][i] = "held" THEN Cleared
                         ELSE file[Waiters][i])
  /\ Goto(i, "clearReg")
  /\ UNCHANGED <<cur, lock, reader, world, key, agent>>

\* Leave the start lock by an exception: teardown follows, from the first
\* sidecar on.
Abandon(i) ==
  /\ lock' = NoLaunch
  /\ Goto(i, "clearReg")
  /\ MoveTo(i, Provider[i])

\* Something under the start lock raises: the configuration, a docker command,
\* the port scan, a hook, the startup script, a registration, or Ctrl-C.
Fail(i) ==
  /\ "fail" \in Faults
  /\ pc[i] \in HiPcs
  /\ Abandon(i)
  /\ UNCHANGED <<registry, world, key, agent>>

\* Done with one sidecar: on to the next one, or to the registrations.
NextEnsure(i) ==
  IF HasNext(i)
  THEN Goto(i, "ensure") /\ MoveTo(i, Telegram)
  ELSE Goto(i, "openReg") /\ MoveTo(i, Provider[i])

\* A headless launch leaves Telegram alone.
SkipHeadless(i) ==
  /\ pc[i] = "ensure"
  /\ cur[i] = Telegram /\ i \in Headless
  /\ NextEnsure(i)
  /\ UNCHANGED <<lock, registry, world, key, agent>>

\* A LiteLLM container from before agent-wrap-net is stopped, so that the same
\* ensure then finds nothing running.
StopLegacy(i) ==
  /\ pc[i] = "ensure"
  /\ cont[cur[i]] = "legacy"
  /\ SetCont(cur[i], "down")
  /\ UNCHANGED <<pc, cur, lock, registry, contKey, key, approved, agent>>

\* Mutant of RecoveredKey: the launch keeps whatever key it had.
RecoveredOwnKey(i, c) == key[i]

\* The master key is read back from the environment of the container.
RecoveredKey(i, c) == contKey[c]

\* First launch wins: a running container is adopted as it is, with the key it
\* was started with; its health is not looked at.
Adopt(i) ==
  LET c == cur[i]
  IN /\ pc[i] = "ensure"
     /\ cont[c] \in {"starting", "healthy"}
     /\ ~(c = Telegram /\ i \in Headless)
     /\ key' = IF c = Telegram THEN key ELSE [key EXCEPT ![i] = RecoveredKey(i, c)]
     /\ NextEnsure(i)
     /\ UNCHANGED <<lock, registry, world, agent>>

\* A master key is drawn at random: one per launch that mints one.
FreshKey(i, c) == i

\* Nothing is running: start it.  A LiteLLM sidecar gets a fresh master key.
ColdStart(i) ==
  LET c == cur[i]
  IN /\ pc[i] = "ensure"
     /\ ~Running(c)
     /\ ~(c = Telegram /\ i \in Headless)
     /\ SetCont(c, "starting")
     /\ contKey' = IF c = Telegram THEN contKey ELSE [contKey EXCEPT ![c] = FreshKey(i, c)]
     /\ key' = IF c = Telegram THEN key ELSE [key EXCEPT ![i] = FreshKey(i, c)]
     /\ Goto(i, IF c = Telegram THEN "poll" ELSE "approve")
     /\ UNCHANGED <<cur, lock, registry, approved, agent>>

\* on_started: the key is added to .claude.json.
Approve(i) ==
  /\ pc[i] = "approve"
  /\ approved' = approved \cup {key[i]}
  /\ Goto(i, "poll")
  /\ UNCHANGED <<cur, lock, registry, cont, contKey, key, agent>>

PollHealthy(i) ==
  /\ pc[i] = "poll"
  /\ cont[cur[i]] = "healthy"
  /\ NextEnsure(i)
  /\ UNCHANGED <<lock, registry, world, key, agent>>

\* Mutant of PollFailed: the poll has no deadline.
PollFailedIfDown(i) ==
  /\ pc[i] = "poll"
  /\ ~Running(cur[i])
  /\ Abandon(i)
  /\ UNCHANGED <<registry, world, key, agent>>

\* The container died, or did not turn healthy in time.  LiteLLM is left in
\* place for release() to stop; Telegram is stopped and removed here.
PollFailed(i) ==
  /\ pc[i] = "poll"
  /\ ~Running(cur[i]) \/ ("slow" \in Faults /\ cont[cur[i]] = "starting")
  /\ IF cur[i] = Telegram THEN SetCont(Telegram, "down") ELSE UNCHANGED cont
  /\ Abandon(i)
  /\ UNCHANGED <<registry, contKey, key, approved, agent>>

\* The registrations, the last thing done under the lock: per container the
\* file is opened, then locked; a lock not obtained is not noticed.
OpenReg(i) ==
  /\ pc[i] = "openReg"
  /\ SetFile(cur[i], i, Opened(file[cur[i]][i]))
  /\ Goto(i, "lockReg")
  /\ UNCHANGED <<cur, lock, reader, world, key, agent>>

\* Mutant of LockReg: only the first sidecar is registered.
LockRegFirst(i) ==
  /\ pc[i] = "lockReg"
  /\ SetFile(cur[i], i, Acquired(file[cur[i]][i]))
  /\ lock' = NoLaunch /\ Goto(i, "launch") /\ UNCHANGED cur
  /\ UNCHANGED <<reader, world, key, agent>>

LockReg(i) ==
  /\ pc[i] = "lockReg"
  /\ SetFile(cur[i], i, Acquired(file[cur[i]][i]))
  /\ IF HasNext(i)
     THEN Goto(i, "openReg") /\ MoveTo(i, Telegram) /\ UNCHANGED lock
     ELSE lock' = NoLaunch /\ Goto(i, "launch") /\ UNCHANGED cur
  /\ UNCHANGED <<reader, world, key, agent>>

-----------------------------------------------------------------------------
(* The agent: `docker run` in the foreground, or its failure.              *)

RunAgent(i) ==
  /\ pc[i] = "launch"
  /\ \/ agent' = [agent EXCEPT ![i] = TRUE] /\ Goto(i, "agent") /\ UNCHANGED cur
     \/ UNCHANGED agent /\ Goto(i, "clearReg") /\ MoveTo(i, Provider[i])
  /\ UNCHANGED <<lock, registry, world, key>>

AgentExits(i) ==
  /\ pc[i] = "agent"
  /\ agent' = [agent EXCEPT ![i] = FALSE]
  /\ Goto(i, "clearReg")
  /\ MoveTo(i, Provider[i])
  /\ UNCHANGED <<lock, registry, world, key>>

\* The agent of a killed launcher lives on until it exits by itself.
OrphanExits(i) ==
  /\ pc[i] = "killed" /\ agent[i]
  /\ agent' = [agent EXCEPT ![i] = FALSE]
  /\ UNCHANGED <<pc, cur, lock, registry, world, key>>

-----------------------------------------------------------------------------
(* The stop path: _release_sidecars under _low_priority_lock.              *)

\* Every registration is dropped before the lock is asked for.
ClearReg(i) ==
  /\ pc[i] = "clearReg"
  /\ SetFile(cur[i], i, Cleared)
  /\ IF HasNext(i) THEN MoveTo(i, Telegram) /\ UNCHANGED pc
                   ELSE Goto(i, "waitLo") /\ UNCHANGED cur
  /\ UNCHANGED <<lock, reader, world, key, agent>>

LoEnter(i) ==
  /\ pc[i] = "waitLo"
  /\ LockFree
  /\ lock' = i
  /\ Goto(i, "loCheck")
  /\ UNCHANGED <<cur, registry, world, key, agent>>

\* Some launch holds a start ticket: give the lock back, sleep, try again.
LoYield(i) ==
  /\ pc[i] = "loCheck"
  /\ AnyLive(file[Waiters], {})
  /\ file' = [file EXCEPT ![Waiters] = Reaped(@, {})]
  /\ lock' = NoLaunch
  /\ Goto(i, "waitLo")
  /\ UNCHANGED <<cur, reader, world, key, agent>>

LoProceed(i) ==
  /\ pc[i] = "loCheck"
  /\ ~AnyLive(file[Waiters], {})
  /\ file' = [file EXCEPT ![Waiters] = Reaped(@, {})]
  /\ Goto(i, "probeReg")
  /\ MoveTo(i, FirstInReverse(i))
  /\ UNCHANGED <<lock, reader, world, key, agent>>

\* Done with one sidecar: on to the one declared before it, or out of the lock.
NextRelease(i) ==
  IF HasPrevious(i)
  THEN Goto(i, "probeReg") /\ MoveTo(i, Provider[i]) /\ UNCHANGED lock
  ELSE Goto(i, "done") /\ lock' = NoLaunch /\ UNCHANGED cur

\* Mutant of HasLiveRunners: it looks for waiters instead of users.
HasLiveWaiters(i, c) == AnyLive(file[Waiters], {i})

\* has_live_runners: somebody else is registered on the container.
HasLiveRunners(i, c) == AnyLive(file[c], {i})

ReapRunners(i, c) == file' = [file EXCEPT ![c] = Reaped(@, {i})]

\* The container has other users, or is not running: nothing to stop.
KeepSidecar(i) ==
  /\ pc[i] = "probeReg"
  /\ HasLiveRunners(i, cur[i]) \/ ~Running(cur[i])
  /\ ReapRunners(i, cur[i])
  /\ NextRelease(i)
  /\ UNCHANGED <<reader, world, key, agent>>

\* The last one out: LiteLLM's key is recovered from the container for
\* on_stopping; Telegram is stopped straight away.
ReleaseSidecar(i) ==
  LET c == cur[i]
  IN /\ pc[i] = "probeReg"
     /\ ~HasLiveRunners(i, c)
     /\ Running(c)
     /\ ReapRunners(i, c)
     /\ key' = IF c = Telegram THEN key ELSE [key EXCEPT ![i] = RecoveredKey(i, c)]
     /\ Goto(i, IF c = Telegram THEN "stop" ELSE "unapprove")
     /\ UNCHANGED <<cur, lock, reader, world, agent>>

\* Mutant of Unapprove: it forgets to take the key out.
UnapproveNothing(i) ==
  /\ pc[i] = "unapprove"
  /\ Goto(i, "stop")
  /\ UNCHANGED <<approved, cur, lock, registry, cont, contKey, key, agent>>

Unapprove(i) ==
  /\ pc[i] = "unapprove"
  /\ approved' = approved \ {key[i]}
  /\ Goto(i, "stop")
  /\ UNCHANGED <<cur, lock, registry, cont, contKey, key, agent>>

\* docker stop; its outcome is not looked at.
StopSidecar(i) ==
  /\ pc[i] = "stop"
  /\ \/ SetCont(cur[i], "down")
     \/ "stopfail" \in Faults /\ UNCHANGED cont
  /\ NextRelease(i)
  /\ UNCHANGED <<registry, contKey, key, approved, agent>>

\* Something under the stop lock raises and ends the launch.
FailRelease(i) ==
  /\ "stopfail" \in Faults
  /\ pc[i] \in LoPcs
  /\ lock' = NoLaunch
  /\ Goto(i, "done")
  /\ UNCHANGED <<cur, registry, world, key, agent>>

-----------------------------------------------------------------------------
(* What happens to a launch, to a container and in the registry.           *)

\* The kernel drops every flock of a dead process.
DropLocks(i) ==
  /\ file' = [d \in Dirs |-> [file[d] EXCEPT ![i] = Dropped(@)]]
  /\ lock' = IF lock = i THEN NoLaunch ELSE lock

Kill(i) ==
  /\ "kill" \in Faults
  /\ pc[i] \notin EndPcs \cup {"idle"}
  /\ DropLocks(i)
  /\ Goto(i, "killed")
  /\ UNCHANGED <<cur, reader, world, key, agent>>

TurnHealthy(c) ==
  /\ cont[c] = "starting"
  /\ SetCont(c, "healthy")
  /\ UNCHANGED <<pc, cur, lock, registry, contKey, key, approved, agent>>

Die(c) ==
  /\ "death" \in Faults
  /\ Running(c)
  /\ SetCont(c, "down")
  /\ UNCHANGED <<pc, cur, lock, registry, contKey, key, approved, agent>>

\* live_lock_ids: list the directory, then take and release each file's lock.
\* It takes no other lock, so anything may happen between two of these steps.
ReaderLists(d, i) ==
  /\ "reader" \in Faults
  /\ reader = NoReader
  /\ file[d][i] # "none"
  /\ reader' = [phase |-> "listed", dir |-> d, id |-> i]
  /\ UNCHANGED <<pc, cur, lock, file, world, key, agent>>

ReaderProbes(d, i) ==
  /\ reader = [phase |-> "listed", dir |-> d, id |-> i]
  /\ SetFile(d, i, Probed(file[d][i]))
  /\ reader' = IF file[d][i] = "held" THEN NoReader
               ELSE [phase |-> "holding", dir |-> d, id |-> i]
  /\ UNCHANGED <<pc, cur, lock, world, key, agent>>

ReaderReleases(d, i) ==
  /\ reader = [phase |-> "holding", dir |-> d, id |-> i]
  /\ SetFile(d, i, Unprobed(file[d][i]))
  /\ reader' = NoReader
  /\ UNCHANGED <<pc, cur, lock, world, key, agent>>

-----------------------------------------------------------------------------
Start(i) ==
  \/ Prepare(i) \/ OpenTicket(i) \/ LockTicket(i) \/ HiEnter(i) \/ HiTimeout(i)
  \/ Fail(i) \/ SkipHeadless(i) \/ StopLegacy(i) \/ Adopt(i) \/ ColdStart(i)
  \/ Approve(i) \/ PollHealthy(i) \/ PollFailed(i) \/ OpenReg(i) \/ LockReg(i)

Release(i) ==
  \/ ClearReg(i) \/ LoEnter(i) \/ LoYield(i) \/ LoProceed(i) \/ KeepSidecar(i)
  \/ ReleaseSidecar(i) \/ Unapprove(i) \/ StopSidecar(i) \/ FailRelease(i)

Launch(i) == Start(i) \/ RunAgent(i) \/ AgentExits(i) \/ Release(i)

\* Every launch has ended and no agent is left: the program has stopped.
Finished ==
  /\ \A i \in Launches : pc[i] \in EndPcs /\ ~agent[i]
  /\ UNCHANGED vars

Next ==
  \/ \E i \in Launches : Launch(i) \/ Kill(i) \/ OrphanExits(i)
  \/ \E c \in Containers : TurnHealthy(c) \/ Die(c)
  \/ \E d \in Dirs, i \in Launches :
       ReaderLists(d, i) \/ ReaderProbes(d, i) \/ ReaderReleases(d, i)
  \/ Finished

Spec == Init /\ [][Next]_vars

\* What a live launcher does by itself.  It leaves out what a user does (to
\* start a launch, to end an agent) and every failure but the two deadlines:
\* the code bounds the wait for the start lock and the health poll.
Step(i) ==
  \/ OpenTicket(i) \/ LockTicket(i) \/ HiEnter(i) \/ HiTimeout(i)
  \/ SkipHeadless(i) \/ StopLegacy(i) \/ Adopt(i) \/ ColdStart(i)
  \/ Approve(i) \/ PollHealthy(i) \/ PollFailed(i) \/ OpenReg(i) \/ LockReg(i)
  \/ RunAgent(i)
  \/ ClearReg(i) \/ LoEnter(i) \/ LoYield(i) \/ LoProceed(i) \/ KeepSidecar(i)
  \/ ReleaseSidecar(i) \/ Unapprove(i) \/ StopSidecar(i)

FairSpec == Spec /\ \A i \in Launches : WF_vars(Step(i))

-----------------------------------------------------------------------------
(* Properties.                                                             *)

\* Every variable has its type.
TypeOK ==
  /\ pc \in [Launches -> Pcs]
  /\ cur \in [Launches -> Containers]
  /\ lock \in Launches \cup {NoLaunch}
  /\ file \in [Dirs -> [Launches -> FileState]]
  /\ cont \in [Containers -> ContState]
  /\ contKey \in [Containers -> Keys]
  /\ key \in [Launches -> Keys]
  /\ approved \subseteq Keys
  /\ agent \in [Launches -> BOOLEAN]
  /\ reader \in ReaderStates

\* sidecars.lock serializes every ensure and every release of the host: no two
\* launches are inside the lock, at either priority (tracker.py, launch
\* service).
MutualExclusion ==
  \A i, j \in Launches : pc[i] \in CritPcs /\ pc[j] \in CritPcs => i = j

Registered(i, c) == file[c][i] = "held"

\* A container an agent is registered on and needs is up, and is not one that
\* the next ensure would restart: no stopper, failed start or migration took
\* it away (launch service, _release_sidecars; tracker.has_live_runners).
RegisteredIsServed ==
  \A i \in Launches : \A c \in Needs(i) :
    Registered(i, c) => cont[c] \in {"starting", "healthy"}

\* The launcher's agent is running.
LiveAgent(i) == pc[i] = "agent" /\ agent[i]

\* While its agent runs, a launch holds its registration on every sidecar it
\* declared (tracker.py: "from just before it launches the agent until it
\* exits").
AgentIsRegistered ==
  \A i \in Launches : pc[i] \in {"launch", "agent"} =>
    \A c \in Declared(i) : Registered(i, c)

\* The master key the agent was given is the one its provider's proxy was
\* started with, whoever started it, and Claude Code has it approved
\* (litellm.py, _ensure_sidecar; key_approval.py).
AgentKeyWorks ==
  \A i \in Launches : LiveAgent(i) =>
    key[i] = contKey[Provider[i]] /\ key[i] \in approved

\* Whenever nobody is inside the lock, the approved keys are exactly those of
\* the running LiteLLM sidecars (key_approval.py: "approved exactly once when
\* the shared sidecar starts and un-approved once when it stops").
ApprovedIsRunning ==
  lock = NoLaunch =>
    approved = { contKey[c] : c \in {d \in LiteLLM : Running(d)} }

\* Last light out: a running sidecar has a launch that declared it and has not
\* decided about it yet, so it cannot be left behind for good.
Undecided(i, c) ==
  /\ c \in Declared(i)
  /\ \/ pc[i] \in HiPcs \cup {"launch", "agent", "clearReg", "waitLo", "loCheck"}
     \/ pc[i] \in {"probeReg", "unapprove", "stop"} /\ (cur[i] = c \/ cur[i] = Telegram)

LastLightOut ==
  \A c \in Containers \ Legacy : Running(c) =>
    \E i \in Launches : Undecided(i, c)

\* No step takes a container away from under a running agent that needs it,
\* not even from under the agent of a killed launcher.
NoStopUnderAgent ==
  [][\A i \in Launches : \A c \in Needs(i) :
       agent[i] /\ agent'[i] /\ Running(c) => Running(c)']_vars

\* A launch that asked for its sidecars gets its agent running or ends: neither
\* the lock nor the tickets of others, dead or alive, hold it up forever.
StartIsDecided ==
  \A i \in Launches :
    pc[i] = "openTicket" ~> pc[i] \in {"agent"} \cup EndPcs

\* A launch whose agent is gone gets through its teardown, even though a stop
\* gives way to every start.
TeardownEnds ==
  \A i \in Launches : pc[i] = "clearReg" ~> pc[i] \in EndPcs

-----------------------------------------------------------------------------
(* The abstract view: users of a container are the launches registered on  *)
(* it that need it.                                                        *)
Users == [c \in Containers |->
            {i \in Launches : c \in Needs(i) /\ Registered(i, c)}]
Up == {c \in Containers : Running(c)}

Abstract == INSTANCE RefCount WITH users <- Users, up <- Up

\* The registry and the lock implement the per-container use count.
ImplementsRefCount == Abstract!RefSpec
=============================================================================
