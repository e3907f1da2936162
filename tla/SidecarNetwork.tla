--------------------------- MODULE SidecarNetwork ---------------------------
(***************************************************************************)
(* How an agent gets to its sidecars: the network a project declares       *)
(* (domain/launch/service.py), the mode and port a LiteLLM proxy is        *)
(* started with and found again by (domain/sidecars/litellm.py,            *)
(* lib/net.py), the Telegram container and the session each agent gets     *)
(* from it (telegram.py, base.py), and the project's startup script, which *)
(* runs under the same lock (domain/startup/service.py).                   *)
(*                                                                         *)
(* Launches run one after the other under sidecars.lock; who may hold it,  *)
(* and who is registered on what, is SidecarLifecycle's subject and is     *)
(* taken here as it is shown there: a start goes before a stop, and a      *)
(* launch is registered from the moment it leaves the lock until its agent *)
(* is gone.  Everything else on the host happens at any time: a proxy      *)
(* begins to listen or dies, another process takes or frees a port, the    *)
(* user removes the network or takes a container off it.                   *)
(***************************************************************************)
EXTENDS FiniteSetsExt, Preflight

CONSTANTS
  Launches,    \* the `agent run` processes, also their instance ids
  LiteLLM,     \* the container names of the providers' proxies
  Telegram,    \* the one Telegram container
  Plans,       \* what the launches may be: functions from Launches to Launch
  PortLimit,   \* a scan tries the ports 1 to PortLimit (PORT_SCAN_LIMIT)
  Faults,      \* the kinds of mishap that may happen, see FaultKinds
  MaxFaults,   \* how many kinds may happen in one run
  Nobody       \* no launch

FaultKinds ==
  { "fail",       \* a command under the lock raises, or Ctrl-C
    "slow",       \* a proxy does not answer its health check in time
    "kill",       \* a launcher is killed
    "death",      \* a sidecar dies on its own
    "foreign",    \* another process takes a port of the host
    "network",    \* the user removes the network, or takes a container off it
    "lost",       \* an answer of the Telegram sidecar does not arrive
    "impatient",  \* a Ctrl-C where nothing ends the script: before it is waited
                  \* for, or a second one, while it is being ended
    "deaf" }      \* SIGKILL does not end a process of the script

\* One launch: its provider's proxy, what Preflight looks at, whether
\* AGENT_USE_HOST_NETWORK is on (on WSL), and whether the Telegram secrets are
\* there.
Launch == [proxy : LiteLLM, setting : Setting, hostSwitch : BOOLEAN, telegram : BOOLEAN]

Containers == LiteLLM \cup {Telegram}
Ports == 1..PortLimit

ASSUME NetworkAssumption ==
  /\ Telegram \notin LiteLLM
  /\ \A s \in Plans : s \in [Launches -> Launch]
  /\ PortLimit \in Nat /\ MaxFaults \in Nat
  /\ Faults \subseteq FaultKinds
  /\ Nobody \notin Launches

VARIABLES
  plan,      \* plan[i]: launch i
  pc,        \* pc[i]: where launch i is
  lock,      \* the holder of sidecars.lock
  box,       \* box[c]: what docker knows of container c
  netUp,     \* agent-wrap-net exists
  foreign,   \* the scanned ports that other processes listen on
  found,     \* found[i]: the mode and port launch i takes its proxy to have
  route,     \* route[i][c]: the arguments that lead the agent of i to c
  sessions,  \* the launches that have a session in the Telegram sidecar
  token,     \* token[i]: launch i has a token for its session
  script,    \* script[i][p]: where process p of i's startup script is
  faults,    \* the kinds of mishap that have happened, each of them once
  orphaned   \* a proxy on the host's network was left behind before it listened

docker == <<box, netUp, foreign>>
mine == <<found, route, token>>
vars == <<plan, pc, lock, docker, mine, sessions, script, faults, orphaned>>

\* What docker says of a container: [state, mode, port, joined, by].  It is
\* gone, booting or serving; mode is its network, the sidecars' bridge or the
\* host's; port is what AGENT_WRAP_SIDECAR_PORT says; joined: on agent-wrap-net.
\* The launch that started it, `by`, stands for the container and its address.
Gone == [state |-> "gone", mode |-> "bridge", port |-> 0, joined |-> FALSE, by |-> Nobody]

\* An agent's way to a container: [via, port, by].  --add-host gives the name
\* 127.0.0.1, host-gateway or the container's address; without it, via "name",
\* agent-wrap-net resolves it.
Nowhere == [via |-> "nowhere", port |-> 0, by |-> Nobody]

\* The script itself, the leader of a process group of its own, and one process
\* it has spawned.  Each is gone, in that group, or on its own: it called setsid,
\* or its script was not ended by the launch.
Processes == {"leader", "child"}
Places == {"gone", "group", "own"}
NoScriptRuns == [p \in Processes |-> "gone"]

HiPcs == {"network", "proxy", "start", "poll", "connect", "tgNetwork", "telegram",
          "tgPoll", "register", "script", "scripting", "grace"}
RegPcs == {"launch", "agent"}
EndPcs == {"done", "killed"}

Init ==
  /\ plan \in Plans
  /\ pc = [i \in Launches |-> "idle"]
  /\ lock = Nobody
  /\ box = [c \in Containers |-> Gone]
  /\ netUp = FALSE /\ foreign = {}
  /\ found = [i \in Launches |-> [mode |-> "bridge", port |-> 0]]
  /\ route = [i \in Launches |-> [c \in Containers |-> Nowhere]]
  /\ sessions = {} /\ token = [i \in Launches |-> FALSE]
  /\ script = [i \in Launches |-> NoScriptRuns]
  /\ faults = {} /\ orphaned = FALSE

Goto(i, l) == pc' = [pc EXCEPT ![i] = l]
SetBox(c, b) == box' = [box EXCEPT ![c] = b]
SetRoute(i, c, r) == route' = [route EXCEPT ![i][c] = r]

\* A mishap happens: remembered, because it may excuse what comes of it.
Happens(f) ==
  /\ f \in Faults \ faults
  /\ Cardinality(faults) < MaxFaults
  /\ faults' = faults \cup {f}

-----------------------------------------------------------------------------
(* What the Dockerfile and the environment say.                            *)

Network(i) == ExtractNetwork(plan[i].setting)

\* The switch counts only if the project names no network itself.
UseHostNet(i) == plan[i].hostSwitch /\ Network(i) = "unset"
InHostNetns(i) == UseHostNet(i) \/ Network(i) = "host"

\* The agent joins agent-wrap-net beside what its project declares, unless it
\* is on the host's network or on none.
OnSidecarNet(i) == ~(UseHostNet(i) \/ Network(i) \in {"host", "none"})

Declares(i, c) == c = plan[i].proxy \/ (c = Telegram /\ plan[i].telegram)
Needs(i) == {plan[i].proxy} \cup
            IF plan[i].telegram /\ ~plan[i].setting.headless THEN {Telegram} ELSE {}

-----------------------------------------------------------------------------
(* Who listens where.                                                      *)

Running(c) == box[c].state # "gone"
OnHost(p) == {c \in LiteLLM : /\ box[c].state = "serving"
                              /\ box[c].mode = "host" /\ box[c].port = p}
Taken(p) == p \in foreign \/ OnHost(p) # {}

\* Bound and closed again, the probe says what is free at that moment only.
FreePorts == {p \in Ports : ~Taken(p)}

\* The health command runs in the container: in host mode, whoever listens on
\* the port answers it.
AnswersHealth(c) ==
  IF box[c].mode = "host" THEN OnHost(box[c].port) # {} ELSE box[c].state = "serving"

\* The containers an agent gets to at the address it has for c.
Answers(i, c) ==
  LET r == route[i][c]
      bridged == {d \in {c} : /\ box[d].state = "serving" /\ box[d].joined
                              /\ box[d].port = r.port}
  IN CASE r.via = "loopback" -> OnHost(r.port)
       [] r.via = "gateway" -> IF Network(i) = "none" THEN {} ELSE OnHost(r.port)
       [] r.via = "address" -> {d \in bridged : box[d].by = r.by}
       [] r.via = "name" -> IF OnSidecarNet(i) THEN bridged ELSE {}
       [] OTHER -> {}

-----------------------------------------------------------------------------
(* The lock.                                                               *)

\* What giving up the lock leaves behind.
GiveUp ==
  /\ lock' = Nobody
  /\ orphaned' = (orphaned \/ \E c \in LiteLLM : /\ box[c].state = "booting"
                                                 /\ box[c].mode = "host")

\* Before the lock.  A launch that ends here has touched nothing.
Stay(i) ==
  /\ pc[i] = "idle"
  /\ Goto(i, "done")
  /\ UNCHANGED <<plan, lock, docker, mine, sessions, script, faults, orphaned>>

\* The user says no, or nobody is there to ask.
RefuseHere(i) == Hazard(plan[i].setting) /\ Stay(i)
RefuseProvider(i) == ~plan[i].setting.known /\ Stay(i)
\* An update was taken, or refused because agents run.
RefuseUpdate(i) == ~plan[i].setting.headless /\ Stay(i)
RefuseDocker(i) == plan[i].setting.old /\ Stay(i)
RefuseDockerfile(i) == ResolveImage(plan[i].setting) = Refused /\ Stay(i)
\* The image cannot be built.
RefuseImage(i) == Stay(i)
RefuseDirective(i) == DirectiveRefused(plan[i].setting) /\ Stay(i)
RefuseSecrets(i) == SecretsRefused(plan[i].setting) /\ Stay(i)

Refuse(i) ==
  \/ RefuseHere(i) \/ RefuseProvider(i) \/ RefuseUpdate(i) \/ RefuseDocker(i)
  \/ RefuseDockerfile(i) \/ RefuseImage(i) \/ RefuseDirective(i) \/ RefuseSecrets(i)

Accept(i) ==
  /\ pc[i] = "idle"
  /\ MayProceed(plan[i].setting)
  /\ Goto(i, "waitHi")
  /\ UNCHANGED <<plan, lock, docker, mine, sessions, script, faults, orphaned>>

HiEnter(i) ==
  /\ pc[i] = "waitHi"
  /\ lock = Nobody
  /\ lock' = i
  /\ Goto(i, "network")
  /\ UNCHANGED <<plan, docker, mine, sessions, script, faults, orphaned>>

\* Something under the lock raises: the teardown follows.
Fail(i) ==
  /\ pc[i] \in HiPcs \ {"scripting", "grace"}
  /\ Happens("fail")
  /\ GiveUp
  /\ Goto(i, "exit")
  /\ UNCHANGED <<plan, docker, mine, sessions, script>>

-----------------------------------------------------------------------------
(* ensure() of the LiteLLM proxy.                                          *)

\* agent-wrap-net is created if it is missing, by either sidecar.
EnsureNetwork(i) ==
  /\ pc[i] \in {"network", "tgNetwork"}
  /\ netUp' = TRUE
  /\ Goto(i, IF pc[i] = "network" THEN "proxy" ELSE "telegram")
  /\ UNCHANGED <<plan, lock, box, foreign, mine, sessions, script, faults, orphaned>>

\* A proxy on neither network is taken for one of an earlier release.
StopPredating(i) ==
  LET c == plan[i].proxy
  IN /\ pc[i] = "proxy"
     /\ Running(c) /\ ~box[c].joined /\ box[c].mode # "host"
     /\ SetBox(c, Gone)
     /\ UNCHANGED <<plan, pc, lock, netUp, foreign, mine, sessions, script, faults, orphaned>>

\* Mutant of RecoveredPort: the provider's preferred port is taken for it.
PreferredPort(c) == 1

\* The port a running container recorded when it was started.
RecoveredPort(c) == box[c].port

\* First launch wins: mode and port of a running proxy are kept.
Adopt(i) ==
  LET c == plan[i].proxy
  IN /\ pc[i] = "proxy"
     /\ Running(c) /\ (box[c].joined \/ box[c].mode = "host")
     /\ found' = [found EXCEPT ![i] = [mode |-> box[c].mode, port |-> RecoveredPort(c)]]
     /\ Goto(i, "connect")
     /\ UNCHANGED <<plan, lock, docker, route, token, sessions, script, faults, orphaned>>

\* find_free_port: from the preferred port up, in either mode.
ScanPort(i) ==
  /\ pc[i] = "proxy"
  /\ ~Running(plan[i].proxy)
  /\ FreePorts # {}
  /\ found' = [found EXCEPT ![i] = [mode |-> IF UseHostNet(i) THEN "host" ELSE "bridge",
                                   port |-> Min(FreePorts)]]
  /\ Goto(i, "start")
  /\ UNCHANGED <<plan, lock, docker, route, token, sessions, script, faults, orphaned>>

NoPort(i) ==
  /\ pc[i] = "proxy"
  /\ ~Running(plan[i].proxy)
  /\ FreePorts = {}
  /\ GiveUp
  /\ Goto(i, "exit")
  /\ UNCHANGED <<plan, docker, mine, sessions, script, faults>>

\* docker run -d: it fails only on a network that has gone again.
Start(i) ==
  /\ pc[i] = "start"
  /\ IF found[i].mode = "host" \/ netUp
     THEN /\ SetBox(plan[i].proxy,
                    [state |-> "booting", mode |-> found[i].mode, port |-> found[i].port,
                     joined |-> found[i].mode = "bridge", by |-> i])
          /\ Goto(i, "poll")
          /\ UNCHANGED <<lock, orphaned>>
     ELSE /\ Goto(i, "exit") /\ GiveUp /\ UNCHANGED box
  /\ UNCHANGED <<plan, netUp, foreign, mine, sessions, script, faults>>

PollHealthy(i) ==
  /\ pc[i] = "poll"
  /\ Running(plan[i].proxy) /\ AnswersHealth(plan[i].proxy)
  /\ Goto(i, "connect")
  /\ UNCHANGED <<plan, lock, docker, mine, sessions, script, faults, orphaned>>

\* The container has gone, or is too slow; it is left for release() to stop.
PollFailed(i) ==
  /\ pc[i] = "poll"
  /\ \/ ~Running(plan[i].proxy) /\ UNCHANGED faults
     \/ Running(plan[i].proxy) /\ Happens("slow")
  /\ GiveUp
  /\ Goto(i, "exit")
  /\ UNCHANGED <<plan, docker, mine, sessions, script>>

\* The agent's network namespace and the proxy's decide on the arguments.
RouteTo(i, c) ==
  [via |-> IF found[i].mode = "host"
           THEN IF InHostNetns(i) THEN "loopback" ELSE "gateway"
           ELSE IF InHostNetns(i) THEN "address" ELSE "name",
   port |-> found[i].port, by |-> box[c].by]

\* Without an address on agent-wrap-net for an agent that needs one, it ends.
Connect(i) ==
  LET c == plan[i].proxy
      r == RouteTo(i, c)
  IN /\ pc[i] = "connect"
     /\ IF r.via = "address" /\ ~box[c].joined
        THEN Goto(i, "exit") /\ GiveUp /\ UNCHANGED route
        ELSE /\ SetRoute(i, c, r)
             /\ Goto(i, IF Telegram \in Needs(i) THEN "tgNetwork" ELSE "script")
             /\ UNCHANGED <<lock, orphaned>>
     /\ UNCHANGED <<plan, docker, found, token, sessions, script, faults>>

-----------------------------------------------------------------------------
(* ensure() of the Telegram sidecar, which a headless launch skips.        *)

AdoptTelegram(i) ==
  /\ pc[i] = "telegram"
  /\ Running(Telegram)
  /\ Goto(i, "register")
  /\ UNCHANGED <<plan, lock, docker, mine, sessions, script, faults, orphaned>>

\* A corpse is removed first; a new container knows no sessions.
StartTelegram(i) ==
  /\ pc[i] = "telegram"
  /\ ~Running(Telegram)
  /\ IF netUp
     THEN /\ SetBox(Telegram, [state |-> "booting", mode |-> "bridge", port |-> 0,
                               joined |-> TRUE, by |-> i])
          /\ sessions' = {}
          /\ Goto(i, "tgPoll")
          /\ UNCHANGED <<lock, orphaned>>
     ELSE Goto(i, "exit") /\ GiveUp /\ UNCHANGED <<box, sessions>>
  /\ UNCHANGED <<plan, netUp, foreign, mine, script, faults>>

TelegramHealthy(i) ==
  /\ pc[i] = "tgPoll"
  /\ AnswersHealth(Telegram)
  /\ Goto(i, "register")
  /\ UNCHANGED <<plan, lock, docker, mine, sessions, script, faults, orphaned>>

\* Unlike a proxy it is stopped and removed here.
TelegramFailed(i) ==
  /\ pc[i] = "tgPoll"
  /\ \/ ~Running(Telegram) /\ UNCHANGED faults
     \/ Running(Telegram) /\ Happens("slow")
  /\ SetBox(Telegram, Gone)
  /\ GiveUp
  /\ Goto(i, "exit")
  /\ UNCHANGED <<plan, netUp, foreign, mine, sessions, script>>

\* Mutant of Session: the agent is registered under the name of the launch that
\* started the container.
StartersSession(i) == {box[Telegram].by}

\* The agent id of a registration is the launch's own.
Session(i) == {i}

\* /register on the published port: whoever serves there opens a session.  No
\* answer, no token: the agent runs without notifications.
Register(i) ==
  /\ pc[i] = "register"
  /\ IF box[Telegram].state = "serving"
     THEN /\ sessions' = sessions \cup Session(i)
          /\ \/ token' = [token EXCEPT ![i] = TRUE] /\ UNCHANGED faults
             \/ UNCHANGED token /\ Happens("lost")
     ELSE UNCHANGED <<sessions, token, faults>>
  /\ SetRoute(i, Telegram,
       IF ~InHostNetns(i) THEN [via |-> "name", port |-> 0, by |-> box[Telegram].by]
       ELSE IF box[Telegram].joined
       THEN [via |-> "address", port |-> 0, by |-> box[Telegram].by]
       ELSE Nowhere)
  /\ Goto(i, "script")
  /\ UNCHANGED <<plan, lock, docker, found, script, orphaned>>

-----------------------------------------------------------------------------
(* The startup script: a process group of its own.                         *)

\* Registered and out of the lock.
LeaveLock(i) == lock' = Nobody /\ Goto(i, "launch") /\ UNCHANGED orphaned

NoScript(i) ==
  /\ pc[i] = "script" /\ ~RunsScript(plan[i].setting)
  /\ LeaveLock(i)
  /\ UNCHANGED <<plan, docker, mine, sessions, script, faults>>

InGroup(i) == {p \in Processes : script[i][p] = "group"}

\* The processes P of i's script come to be at `place`.
Become(i, P, place) ==
  script' = [script EXCEPT ![i] = [p \in Processes |-> IF p \in P THEN place ELSE script[i][p]]]

RunScript(i) ==
  /\ pc[i] = "script" /\ RunsScript(plan[i].setting)
  /\ Become(i, {"leader"}, "group")
  /\ Goto(i, "scripting")
  /\ UNCHANGED <<plan, lock, docker, mine, sessions, faults, orphaned>>

\* It exits by itself, well or badly, and nobody signals what it leaves running.
ScriptExits(i) ==
  /\ pc[i] = "scripting"
  /\ script' = [script EXCEPT ![i] = [leader |-> "gone",
                  child |-> IF script[i]["child"] = "gone" THEN "gone" ELSE "own"]]
  /\ \/ LeaveLock(i)
     \/ Goto(i, "exit") /\ GiveUp
  /\ UNCHANGED <<plan, docker, mine, sessions, faults>>

\* Its timeout, or Ctrl-C: SIGTERM to the group ends those that heed it.
StopScript(i) ==
  /\ pc[i] = "scripting"
  /\ \E heed \in SUBSET InGroup(i) : Become(i, heed, "gone")
  /\ Goto(i, "grace")
  /\ UNCHANGED <<plan, lock, docker, mine, sessions, faults, orphaned>>

\* Mutant of Killed: no SIGKILL when the script itself has heeded the SIGTERM.
KilledIfLed(i) == IF "leader" \in InGroup(i) THEN InGroup(i) ELSE {}

\* SIGKILL after the grace time goes to the group, whether its leader lives or not.
Killed(i) == InGroup(i)

\* The wait that follows is bounded: an unkillable process is left behind.
KillScript(i) ==
  /\ pc[i] = "grace"
  /\ \/ Become(i, Killed(i), "gone") /\ UNCHANGED faults
     \/ \E deaf \in Killed(i) : Become(i, Killed(i) \ {deaf}, "gone") /\ Happens("deaf")
  /\ GiveUp
  /\ Goto(i, "exit")
  /\ UNCHANGED <<plan, docker, mine, sessions>>

\* Ctrl-C between the start of the script and the wait for it, or a second one,
\* which ends the wait after the SIGTERM and with it the ladder.
CutShort(i) ==
  /\ pc[i] \in {"scripting", "grace"}
  /\ Happens("impatient")
  /\ GiveUp
  /\ Goto(i, "exit")
  /\ UNCHANGED <<plan, docker, mine, sessions, script>>

-----------------------------------------------------------------------------
(* The agent and the teardown.                                             *)

\* docker run refuses a second network beside the host's, another container's
\* or none, and one that is not there.
Combines(i) ==
  LET asked == Asked(plan[i].setting)
  IN Range(asked) \cap {"host", "none", "joined"} # {} => Len(asked) = 1 /\ ~OnSidecarNet(i)
RunAgent(i) ==
  /\ pc[i] = "launch"
  /\ \/ /\ OnSidecarNet(i) => netUp
        /\ Combines(i)
        /\ Goto(i, "agent")
     \/ Goto(i, "exit")
  /\ UNCHANGED <<plan, lock, docker, mine, sessions, script, faults, orphaned>>

AgentExits(i) ==
  /\ pc[i] = "agent"
  /\ Goto(i, "exit")
  /\ UNCHANGED <<plan, lock, docker, mine, sessions, script, faults, orphaned>>

\* on_exit, before the lock is asked for; it does its best only.
OnExit(i) ==
  /\ pc[i] = "exit"
  /\ IF token[i] /\ box[Telegram].state = "serving"
     THEN \/ sessions' = sessions \ {i} /\ UNCHANGED faults
          \/ Happens("lost") /\ UNCHANGED sessions
     ELSE UNCHANGED <<sessions, faults>>
  /\ token' = [token EXCEPT ![i] = FALSE]
  /\ route' = [route EXCEPT ![i] = [c \in Containers |-> Nowhere]]
  /\ Goto(i, "waitLo")
  /\ UNCHANGED <<plan, lock, docker, found, script, orphaned>>

LoEnter(i) ==
  /\ pc[i] = "waitLo"
  /\ lock = Nobody /\ \A j \in Launches : pc[j] # "waitHi"
  /\ lock' = i
  /\ Goto(i, "freeTelegram")
  /\ UNCHANGED <<plan, docker, mine, sessions, script, faults, orphaned>>

\* The last one that declared a sidecar stops it; nobody is asked about one
\* that this launch did not declare.
StoppedBy(i, c) ==
  /\ Declares(i, c)
  /\ \A j \in Launches \ {i} : ~(pc[j] \in RegPcs /\ Declares(j, c))

FreeTelegram(i) ==
  /\ pc[i] = "freeTelegram"
  /\ IF StoppedBy(i, Telegram) /\ Running(Telegram)
     THEN SetBox(Telegram, Gone) /\ sessions' = {}
     ELSE UNCHANGED <<box, sessions>>
  /\ Goto(i, "freeProxy")
  /\ UNCHANGED <<plan, lock, netUp, foreign, mine, script, faults, orphaned>>

FreeProxy(i) ==
  LET c == plan[i].proxy
  IN /\ pc[i] = "freeProxy"
     /\ IF StoppedBy(i, c) THEN SetBox(c, Gone) ELSE UNCHANGED box
     /\ lock' = Nobody
     /\ Goto(i, "done")
     /\ UNCHANGED <<plan, netUp, foreign, mine, sessions, script, faults, orphaned>>

\* Nothing of the launcher runs any more; its agent and its script do.
Kill(i) ==
  /\ pc[i] \notin EndPcs \cup {"idle"}
  /\ Happens("kill")
  /\ IF lock = i THEN GiveUp ELSE UNCHANGED <<lock, orphaned>>
  /\ Goto(i, "killed")
  /\ UNCHANGED <<plan, docker, mine, sessions, script>>

LaunchStep(i) ==
  \/ Refuse(i) \/ Accept(i) \/ HiEnter(i) \/ Fail(i) \/ EnsureNetwork(i)
  \/ StopPredating(i) \/ Adopt(i) \/ ScanPort(i) \/ NoPort(i) \/ Start(i)
  \/ PollHealthy(i) \/ PollFailed(i) \/ Connect(i) \/ AdoptTelegram(i)
  \/ StartTelegram(i) \/ TelegramHealthy(i) \/ TelegramFailed(i) \/ Register(i)
  \/ NoScript(i) \/ RunScript(i) \/ ScriptExits(i) \/ StopScript(i) \/ KillScript(i)
  \/ CutShort(i) \/ RunAgent(i) \/ AgentExits(i) \/ OnExit(i) \/ LoEnter(i)
  \/ FreeTelegram(i) \/ FreeProxy(i) \/ Kill(i)

-----------------------------------------------------------------------------
(* The host.                                                               *)

\* A sidecar begins to listen.  On the host's network somebody may have been
\* faster; then it exits, and --rm removes it.
Listen(c) ==
  /\ box[c].state = "booting"
  /\ IF box[c].mode = "host" /\ Taken(box[c].port)
     THEN SetBox(c, Gone)
     ELSE SetBox(c, [box[c] EXCEPT !.state = "serving"])
  /\ UNCHANGED <<plan, pc, lock, netUp, foreign, mine, sessions, script, faults, orphaned>>

Die(c) ==
  /\ Running(c)
  /\ Happens("death")
  /\ SetBox(c, Gone)
  /\ sessions' = IF c = Telegram THEN {} ELSE sessions
  /\ UNCHANGED <<plan, pc, lock, netUp, foreign, mine, script, orphaned>>

ForeignTakes(p) ==
  /\ ~Taken(p)
  /\ Happens("foreign")
  /\ foreign' = {p}
  /\ UNCHANGED <<plan, pc, lock, box, netUp, mine, sessions, script, orphaned>>

ForeignLeaves ==
  /\ foreign # {}
  /\ foreign' = {}
  /\ UNCHANGED <<plan, pc, lock, box, netUp, mine, sessions, script, faults, orphaned>>

\* docker network rm, of a network nobody is on.
RemoveNetwork ==
  /\ netUp
  /\ \A c \in Containers : ~box[c].joined
  /\ \A i \in Launches : pc[i] = "agent" => ~OnSidecarNet(i)
  /\ Happens("network")
  /\ netUp' = FALSE
  /\ UNCHANGED <<plan, pc, lock, box, foreign, mine, sessions, script, orphaned>>

\* docker network disconnect.
TakeOff(c) ==
  /\ box[c].joined
  /\ Happens("network")
  /\ SetBox(c, [box[c] EXCEPT !.joined = FALSE])
  /\ UNCHANGED <<plan, pc, lock, netUp, foreign, mine, sessions, script, orphaned>>

\* While anything of the group runs it may start another process.
Spawn(i) ==
  /\ InGroup(i) # {} /\ script[i]["child"] = "gone"
  /\ Become(i, {"child"}, "group")
  /\ UNCHANGED <<plan, pc, lock, docker, mine, sessions, faults, orphaned>>

\* setsid, which the leader of a group cannot call.
Escape(i) ==
  /\ "child" \in InGroup(i)
  /\ Become(i, {"child"}, "own")
  /\ UNCHANGED <<plan, pc, lock, docker, mine, sessions, faults, orphaned>>

\* A process ends by itself; that the script does is ScriptExits, if it is
\* waited for.
Ends(i, p) ==
  /\ script[i][p] # "gone"
  /\ p = "leader" => pc[i] # "scripting"
  /\ Become(i, {p}, "gone")
  /\ UNCHANGED <<plan, pc, lock, docker, mine, sessions, faults, orphaned>>

ScriptStep(i) == Spawn(i) \/ Escape(i) \/ \E p \in Processes : Ends(i, p)

HostStep ==
  \/ \E c \in Containers : Listen(c) \/ Die(c) \/ TakeOff(c)
  \/ \E p \in Ports : ForeignTakes(p)
  \/ \E i \in Launches : ScriptStep(i)
  \/ ForeignLeaves \/ RemoveNetwork

Finished ==
  /\ \A i \in Launches : pc[i] \in EndPcs
  /\ UNCHANGED vars

Next == (\E i \in Launches : LaunchStep(i)) \/ HostStep \/ Finished

Spec == Init /\ [][Next]_vars

-----------------------------------------------------------------------------
(* Properties.                                                             *)

\* The container i was led to still runs and is on a network i can be on.
StillUp(i, c) ==
  /\ box[c].state = "serving" /\ box[c].by = route[i][c].by
  /\ box[c].mode = "host" \/ box[c].joined
  /\ Network(i) # "none"

\* A running agent gets to every sidecar it needs, whatever networks it and the
\* sidecar were started on and whoever started the sidecar, and it never gets
\* to another provider's (launch service: "so that the Telegram sidecar is
\* reachable too even when this one is in host mode"; litellm.py, _recover_port:
\* a guess "would misroute rather than fail").  Not claimed where a proxy on
\* the host's network was left behind before it listened: the next launch is
\* given the same port.
ReachesItsSidecars ==
  \A i \in Launches : pc[i] = "agent" /\ ~orphaned =>
    \A c \in Needs(i) :
      /\ StillUp(i, c) => Answers(i, c) = {c}
      /\ "death" \notin faults => Answers(i, c) \subseteq {c}

\* A token is good for as long as the Telegram container that gave it runs, and
\* no session outlives its launch, unless an answer got lost or the launcher
\* was killed (telegram.py: /register and on_exit).
HasSession == {"script", "scripting", "grace", "launch", "agent", "exit", "killed"}
SessionsAreOfAgents ==
  /\ \A i \in Launches :
       (/\ pc[i] = "agent" /\ token[i]
        /\ Running(Telegram) /\ box[Telegram].by = route[i][Telegram].by)
         => i \in sessions
  /\ "lost" \notin faults => \A i \in sessions : pc[i] \in HasSession

\* A startup script runs under the lock: of one that was ended for its launch,
\* by its timeout or by Ctrl-C, the whole process group is gone before the next
\* launch can run its own, whichever of its processes heeded the SIGTERM and
\* whatever they started meanwhile (startup service: "the script and everything
\* it spawned").  Not claimed of a process that left the group ("A descendant
\* that calls setsid for itself does escape the group, and is out of reach"),
\* of one that SIGKILL does not end, of the script of a launcher that was
\* killed, nor after a Ctrl-C that ended the wait itself.
StoppedScriptIsGone ==
  \A i \in Launches :
    InGroup(i) # {} =>
      lock = i \/ pc[i] = "killed" \/ faults \cap {"impatient", "deaf"} # {}
=============================================================================
