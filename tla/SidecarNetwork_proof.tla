------------------------ MODULE SidecarNetwork_proof ------------------------
(***************************************************************************)
(* Proofs about SidecarNetwork, for every set of launches and every plan   *)
(* of theirs, every number of proxies and ports, and every mishap.         *)
(***************************************************************************)
EXTENDS SidecarNetwork, WellFoundedInduction, TLAPS

-----------------------------------------------------------------------------
(* Types.                                                                  *)

Locked == HiPcs \cup {"freeTelegram", "freeProxy"}
PcStates == Locked \cup RegPcs \cup EndPcs \cup {"idle", "waitHi", "exit", "waitLo"}
Modes == {"bridge", "host"}
Owners == Launches \cup {Nobody}
Box == [state : {"gone", "booting", "serving"}, mode : Modes, port : 0..PortLimit,
        joined : BOOLEAN, by : Owners]
Route == [via : {"nowhere", "loopback", "gateway", "address", "name"}, port : 0..PortLimit,
          by : Owners]

\* A launch that is where the lock is held holds it.  What docker says of a
\* container that is not there is Gone, a container on the host's network is on
\* no other, and the Telegram container is never on the host's.
TypeInv ==
  /\ plan \in Plans
  /\ pc \in [Launches -> PcStates] /\ lock \in Owners
  /\ box \in [Containers -> Box]
  /\ found \in [Launches -> [mode : Modes, port : 0..PortLimit]]
  /\ route \in [Launches -> [Containers -> Route]]
  /\ sessions \subseteq Launches /\ token \in [Launches -> BOOLEAN]
  /\ script \in [Launches -> [Processes -> Places]]
  /\ orphaned \in BOOLEAN
  /\ \A i \in Launches : pc[i] \in Locked => lock = i
  /\ \A c \in Containers : /\ ~ Running(c) => box[c] = Gone
                           /\ Running(c) => box[c].by \in Launches
                           /\ box[c].mode = "host" => ~ box[c].joined
  /\ box[Telegram].mode = "bridge" /\ box[Telegram].port = 0

LEMMA PlanType ==
  ASSUME TypeInv, NEW i \in Launches
  PROVE  /\ plan[i] \in Launch /\ plan[i].proxy \in LiteLLM
         /\ plan[i].proxy \in Containers /\ Telegram \in Containers
         /\ plan[i].proxy # Telegram
<1>1. plan \in [Launches -> Launch]
  BY NetworkAssumption DEF TypeInv
<1>2. plan[i] \in Launch
  BY <1>1
<1>3. plan[i].proxy \in LiteLLM
  BY <1>2 DEF Launch
<1> QED
  BY <1>2, <1>3, NetworkAssumption DEF Containers

LEMMA GoneType == Gone \in Box /\ Gone.state = "gone" /\ Gone.by = Nobody
BY NetworkAssumption DEF Gone, Box, Modes, Owners

LEMMA Serving ==
  ASSUME NEW b \in Box
  PROVE  [b EXCEPT !.state = "serving"] =
           [state |-> "serving", mode |-> b.mode, port |-> b.port, joined |-> b.joined, by |-> b.by]
BY DEF Box

LEMMA OffNetwork ==
  ASSUME NEW b \in Box, NEW j
  PROVE  [b EXCEPT !.joined = j] =
           [state |-> b.state, mode |-> b.mode, port |-> b.port, joined |-> j, by |-> b.by]
BY DEF Box

\* A nonempty set of numbers has a least one: a scan finds a free port.
LEMMA Least ==
  ASSUME NEW S \in SUBSET Nat, S # {}
  PROVE  Min(S) \in S
<1>1. IsWellFoundedOn(OpToRel(<, Nat), Nat)
  BY NatLessThanWellFounded
<1>2. PICK m \in S : \A n \in S : ~ (<<n, m>> \in OpToRel(<, Nat))
  BY <1>1, WFMin
<1>3. \A n \in S : ~ (n < m)
  BY <1>2 DEF OpToRel
<1>4. \A n \in S : m <= n
  BY <1>3
<1> QED
  BY <1>4 DEF Min

LEMMA FreePortType ==
  ASSUME FreePorts # {}
  PROVE  Min(FreePorts) \in FreePorts /\ Min(FreePorts) \in 0..PortLimit
<1>1. FreePorts \in SUBSET Nat /\ FreePorts \subseteq 0..PortLimit
  BY NetworkAssumption DEF FreePorts, Ports
<1>2. Min(FreePorts) \in FreePorts
  BY <1>1, Least
<1> QED
  BY <1>1, <1>2

LEMMA InitType == Init => TypeInv
<1> SUFFICES ASSUME Init PROVE TypeInv
  OBVIOUS
<1>1. Nowhere \in Route /\ Gone \in Box
  BY GoneType, NetworkAssumption DEF Nowhere, Route, Owners
<1>2. Telegram \in Containers
  BY DEF Containers
<1>3. 0 \in 0..PortLimit
  BY NetworkAssumption
<1>4. NoScriptRuns \in [Processes -> Places]
  BY DEF NoScriptRuns, Places
<1> QED
  BY <1>1, <1>2, <1>3, <1>4
     DEF Init, TypeInv, PcStates, Locked, HiPcs, Owners, Gone, Running, Modes

-----------------------------------------------------------------------------
(* What a step does to the containers.                                     *)

\* What docker says is kept consistent, whatever becomes of one container.
BoxesOK ==
  /\ box \in [Containers -> Box]
  /\ \A c \in Containers : /\ ~ Running(c) => box[c] = Gone
                           /\ Running(c) => box[c].by \in Launches
                           /\ box[c].mode = "host" => ~ box[c].joined
  /\ box[Telegram].mode = "bridge" /\ box[Telegram].port = 0

LEMMA OneBox ==
  ASSUME BoxesOK, NEW c \in Containers, NEW b \in Box, SetBox(c, b),
         b.state = "gone" => b = Gone,
         b.state # "gone" => b.by \in Launches,
         b.mode = "host" => ~ b.joined,
         c = Telegram => b.mode = "bridge" /\ b.port = 0
  PROVE  BoxesOK'
<1>1. box' \in [Containers -> Box] /\ box'[c] = b
      /\ \A d \in Containers \ {c} : box'[d] = box[d]
  BY DEF SetBox, BoxesOK
<1>2. Telegram \in Containers
  BY DEF Containers
<1> QED
  BY <1>1, <1>2 DEF BoxesOK, Running

\* A container goes.
LEMMA BoxGone ==
  ASSUME BoxesOK, NEW c \in Containers, SetBox(c, Gone)
  PROVE  BoxesOK'
BY GoneType, OneBox DEF Gone

LEMMA LaunchBoxes ==
  ASSUME TypeInv, NEW i \in Launches, LaunchStep(i)
  PROVE  BoxesOK'
<1>0. BoxesOK
  BY DEF TypeInv, BoxesOK
<1>p. plan[i].proxy \in Containers /\ Telegram \in Containers /\ plan[i].proxy # Telegram
  BY PlanType
<1>1. CASE UNCHANGED box
  BY <1>0, <1>1 DEF BoxesOK, Running
<1>2. CASE \E c \in Containers : SetBox(c, Gone)
  BY <1>0, <1>2, BoxGone
<1>3. CASE Start(i)
  <2>1. CASE found[i].mode = "host" \/ netUp
    <3> DEFINE b == [state |-> "booting", mode |-> found[i].mode, port |-> found[i].port,
                     joined |-> found[i].mode = "bridge", by |-> i]
    <3>1. b \in Box /\ b.state = "booting" /\ b.by = i /\ (b.mode = "host" => ~ b.joined)
      BY DEF TypeInv, Box, Owners
    <3>2. SetBox(plan[i].proxy, b)
      BY <1>3, <2>1 DEF Start
    <3> HIDE DEF b
    <3> QED
      BY <1>0, <1>p, <3>1, <3>2, OneBox
  <2>2. CASE ~ (found[i].mode = "host" \/ netUp)
    BY <1>1, <1>3, <2>2 DEF Start
  <2> QED
    BY <2>1, <2>2
<1>4. CASE StartTelegram(i)
  <2>1. CASE netUp
    <3> DEFINE b == [state |-> "booting", mode |-> "bridge", port |-> 0, joined |-> TRUE, by |-> i]
    <3>1. b \in Box /\ b.state = "booting" /\ b.by = i /\ b.mode = "bridge" /\ b.port = 0
      BY NetworkAssumption DEF Box, Owners, Modes
    <3>2. SetBox(Telegram, b)
      BY <1>4, <2>1 DEF StartTelegram
    <3> HIDE DEF b
    <3> QED
      BY <1>0, <1>p, <3>1, <3>2, OneBox
  <2>2. CASE ~ netUp
    BY <1>1, <1>4, <2>2 DEF StartTelegram
  <2> QED
    BY <2>1, <2>2
<1>5. CASE ~ Start(i) /\ ~ StartTelegram(i)
  <2>1. CASE Refuse(i) \/ Accept(i) \/ HiEnter(i) \/ Fail(i) \/ EnsureNetwork(i) \/ Adopt(i)
             \/ ScanPort(i) \/ NoPort(i) \/ PollHealthy(i) \/ PollFailed(i) \/ Connect(i)
    BY <1>1, <2>1 DEF Refuse, RefuseHere, RefuseProvider, RefuseUpdate, RefuseDocker,
       RefuseDockerfile, RefuseImage, RefuseDirective, RefuseSecrets, Stay, Accept, HiEnter, Fail,
       EnsureNetwork, Adopt, ScanPort, NoPort, PollHealthy, PollFailed, Connect, docker
  <2>2. CASE AdoptTelegram(i) \/ TelegramHealthy(i) \/ Register(i) \/ NoScript(i) \/ RunScript(i)
             \/ ScriptExits(i) \/ StopScript(i) \/ KillScript(i) \/ CutShort(i) \/ RunAgent(i)
             \/ AgentExits(i) \/ OnExit(i) \/ LoEnter(i) \/ Kill(i)
    BY <1>1, <2>2 DEF AdoptTelegram, TelegramHealthy, Register, NoScript, RunScript, ScriptExits,
       StopScript, KillScript, CutShort, RunAgent, AgentExits, OnExit, LoEnter, Kill, docker
  <2>3. CASE StopPredating(i) \/ TelegramFailed(i) \/ FreeTelegram(i) \/ FreeProxy(i)
    BY <1>1, <1>2, <1>p, <2>3 DEF StopPredating, TelegramFailed, FreeTelegram, FreeProxy
  <2> QED
    BY <1>5, <2>1, <2>2, <2>3 DEF LaunchStep
<1> QED
  BY <1>3, <1>4, <1>5

LEMMA HostBoxes ==
  ASSUME TypeInv, HostStep
  PROVE  BoxesOK'
<1>0. BoxesOK
  BY DEF TypeInv, BoxesOK
<1>1. CASE UNCHANGED box
  BY <1>0, <1>1 DEF BoxesOK, Running
<1>2. ASSUME NEW c \in Containers, Listen(c) PROVE BoxesOK'
  <2>1. CASE SetBox(c, Gone)
    BY <1>0, <2>1, BoxGone
  <2>2. CASE SetBox(c, [box[c] EXCEPT !.state = "serving"])
    <3> DEFINE b == [box[c] EXCEPT !.state = "serving"]
    <3>1. box[c] \in Box /\ box[c].state = "booting"
      BY <1>0, <1>2 DEF BoxesOK, Listen
    <3>2. b = [state |-> "serving", mode |-> box[c].mode, port |-> box[c].port,
               joined |-> box[c].joined, by |-> box[c].by]
      BY <3>1, Serving
    <3> HIDE DEF b
    <3>3. b \in Box /\ b.state = "serving" /\ b.by = box[c].by /\ b.mode = box[c].mode
          /\ b.port = box[c].port /\ b.joined = box[c].joined
      BY <3>1, <3>2 DEF Box
    <3>4. SetBox(c, b)
      BY <2>2 DEF b
    <3>5. b.by \in Launches /\ (b.mode = "host" => ~ b.joined)
          /\ (c = Telegram => b.mode = "bridge" /\ b.port = 0)
      BY <1>0, <3>1, <3>3 DEF BoxesOK, Running
    <3> QED
      BY <1>0, <3>3, <3>4, <3>5, OneBox
  <2> QED
    BY <1>2, <2>1, <2>2 DEF Listen
<1>3. ASSUME NEW c \in Containers, Die(c) PROVE BoxesOK'
  BY <1>0, <1>3, BoxGone DEF Die
<1>4. ASSUME NEW c \in Containers, TakeOff(c) PROVE BoxesOK'
  <2> DEFINE b == [box[c] EXCEPT !.joined = FALSE]
  <2>1. box[c] \in Box /\ box[c].joined
    BY <1>0, <1>4 DEF BoxesOK, TakeOff
  <2>2. b = [state |-> box[c].state, mode |-> box[c].mode, port |-> box[c].port,
             joined |-> FALSE, by |-> box[c].by]
    BY <2>1, OffNetwork
  <2> HIDE DEF b
  <2>3. b \in Box /\ b.state = box[c].state /\ b.by = box[c].by /\ b.mode = box[c].mode
        /\ b.port = box[c].port /\ ~ b.joined
    BY <2>1, <2>2 DEF Box
  <2>4. SetBox(c, b)
    BY <1>4 DEF TakeOff, b
  <2>5. Running(c)
    BY <1>0, <2>1 DEF BoxesOK, Gone
  <2>6. b.state # "gone" /\ b.by \in Launches /\ (c = Telegram => b.mode = "bridge" /\ b.port = 0)
    BY <1>0, <2>3, <2>5 DEF BoxesOK, Running
  <2> QED
    BY <1>0, <2>3, <2>4, <2>6, OneBox
<1>5. CASE ForeignLeaves \/ RemoveNetwork \/ (\E p \in Ports : ForeignTakes(p))
           \/ \E i \in Launches : ScriptStep(i)
  BY <1>1, <1>5 DEF ForeignLeaves, RemoveNetwork, ForeignTakes, ScriptStep, Spawn, Escape, Ends, docker
<1> QED
  BY <1>2, <1>3, <1>4, <1>5 DEF HostStep
-----------------------------------------------------------------------------
(* Types, kept.                                                            *)

\* Where a step takes a launch, and what becomes of the lock.
LEMMA LaunchMoves ==
  ASSUME TypeInv, NEW i \in Launches, LaunchStep(i)
  PROVE  /\ pc' \in [Launches -> PcStates] /\ \A j \in Launches \ {i} : pc'[j] = pc[j]
         /\ lock' \in Owners
         /\ \/ lock' = lock /\ (pc'[i] \in Locked => pc[i] \in Locked)
            \/ lock = Nobody /\ lock' = i
            \/ lock = i /\ lock' = Nobody /\ pc'[i] \notin Locked
<1> USE DEF PcStates, Locked, HiPcs, RegPcs, EndPcs
<1>l. pc[i] \in Locked => lock = i
  BY DEF TypeInv
<1>m. ASSUME NEW l \in PcStates, pc' = [pc EXCEPT ![i] = l]
      PROVE  /\ pc' \in [Launches -> PcStates] /\ \A j \in Launches \ {i} : pc'[j] = pc[j]
             /\ pc'[i] = l
  BY <1>m DEF TypeInv
<1>o. lock \in Owners /\ Nobody \in Owners /\ i \in Owners
  BY DEF TypeInv, Owners
<1>1. CASE Refuse(i) \/ Accept(i)
  <2>1. UNCHANGED lock /\ \E l \in {"done", "waitHi"} : pc' = [pc EXCEPT ![i] = l]
    BY <1>1 DEF Refuse, RefuseHere, RefuseProvider, RefuseUpdate, RefuseDocker, RefuseDockerfile,
       RefuseImage, RefuseDirective, RefuseSecrets, Stay, Accept, Goto
  <2> QED
    BY <1>m, <1>o, <2>1
<1>2. CASE HiEnter(i) \/ LoEnter(i)
  <2>1. lock = Nobody /\ lock' = i
        /\ \E l \in {"network", "freeTelegram"} : pc' = [pc EXCEPT ![i] = l]
    BY <1>2 DEF HiEnter, LoEnter, Goto
  <2> QED
    BY <1>m, <1>o, <2>1
<1>3. CASE Fail(i) \/ NoPort(i) \/ PollFailed(i) \/ TelegramFailed(i) \/ KillScript(i) \/ CutShort(i)
  <2>1. pc[i] \in HiPcs /\ lock' = Nobody /\ pc' = [pc EXCEPT ![i] = "exit"]
    BY <1>3 DEF Fail, NoPort, PollFailed, TelegramFailed, KillScript, CutShort, GiveUp, Goto
  <2> QED
    BY <1>l, <1>m, <1>o, <2>1
<1>4. CASE EnsureNetwork(i) \/ StopPredating(i) \/ Adopt(i) \/ ScanPort(i) \/ PollHealthy(i)
           \/ AdoptTelegram(i) \/ TelegramHealthy(i) \/ Register(i) \/ RunScript(i) \/ StopScript(i)
           \/ FreeTelegram(i)
  <2>1. CASE StopPredating(i)
    BY <1>o, <2>1 DEF StopPredating, TypeInv
  <2>2. CASE ~ StopPredating(i)
    <3>1. /\ pc[i] \in Locked /\ lock' = lock
          /\ \E l \in Locked : pc' = [pc EXCEPT ![i] = l]
      BY <1>4, <2>2 DEF EnsureNetwork, Adopt, ScanPort, PollHealthy, AdoptTelegram,
         TelegramHealthy, Register, RunScript, StopScript, FreeTelegram, Goto
    <3> QED
      BY <1>m, <1>o, <3>1
  <2> QED
    BY <2>1, <2>2
<1>5. CASE Start(i) \/ Connect(i) \/ StartTelegram(i) \/ ScriptExits(i) \/ NoScript(i) \/ FreeProxy(i)
  <2>1. pc[i] \in Locked
    BY <1>5 DEF Start, Connect, StartTelegram, ScriptExits, NoScript, FreeProxy
  <2>2. \/ lock' = lock /\ \E l \in HiPcs : pc' = [pc EXCEPT ![i] = l]
        \/ lock' = Nobody /\ \E l \in {"exit", "launch", "done"} : pc' = [pc EXCEPT ![i] = l]
    <3>1. CASE Start(i)
      BY <3>1 DEF Start, Goto, GiveUp
    <3>2. CASE Connect(i)
      BY <3>2 DEF Connect, Goto, GiveUp
    <3>3. CASE StartTelegram(i)
      BY <3>3 DEF StartTelegram, Goto, GiveUp
    <3>4. CASE ScriptExits(i) \/ NoScript(i) \/ FreeProxy(i)
      BY <3>4 DEF ScriptExits, NoScript, FreeProxy, LeaveLock, Goto, GiveUp
    <3> QED
      BY <1>5, <3>1, <3>2, <3>3, <3>4
  <2> QED
    BY <1>l, <1>m, <1>o, <2>1, <2>2
<1>6. CASE RunAgent(i) \/ AgentExits(i) \/ OnExit(i)
  <2>1. UNCHANGED lock /\ \E l \in {"agent", "exit", "waitLo"} : pc' = [pc EXCEPT ![i] = l]
    BY <1>6 DEF RunAgent, AgentExits, OnExit, Goto
  <2> QED
    BY <1>m, <1>o, <2>1
<1>7. CASE Kill(i)
  <2>1. /\ lock' = IF lock = i THEN Nobody ELSE lock
        /\ pc' = [pc EXCEPT ![i] = "killed"]
    BY <1>7 DEF Kill, GiveUp, Goto
  <2> QED
    BY <1>m, <1>o, <2>1
<1> QED
  BY <1>1, <1>2, <1>3, <1>4, <1>5, <1>6, <1>7 DEF LaunchStep

LEMMA RouteToType ==
  ASSUME TypeInv, NEW i \in Launches, NEW c \in Containers
  PROVE  RouteTo(i, c) \in Route
<1>1. found[i].mode \in Modes /\ found[i].port \in 0..PortLimit
  BY DEF TypeInv
<1>2. box[c].by \in Owners
  BY DEF TypeInv, Box
<1> QED
  BY <1>1, <1>2 DEF RouteTo, Route

\* What a launch finds, the arguments it makes of it, and its session.
MineOK ==
  /\ found \in [Launches -> [mode : Modes, port : 0..PortLimit]]
  /\ route \in [Launches -> [Containers -> Route]]
  /\ sessions \subseteq Launches /\ token \in [Launches -> BOOLEAN]
  /\ script \in [Launches -> [Processes -> Places]]
  /\ orphaned \in BOOLEAN /\ plan \in Plans

LEMMA ScriptBecomes ==
  ASSUME TypeInv, NEW i \in Launches, NEW P, NEW place \in Places, Become(i, P, place)
  PROVE  /\ script' \in [Launches -> [Processes -> Places]]
         /\ \A j \in Launches \ {i} : script'[j] = script[j]
         /\ \A p \in Processes : script'[i][p] = IF p \in P THEN place ELSE script[i][p]
<1> DEFINE s == [p \in Processes |-> IF p \in P THEN place ELSE script[i][p]]
<1>1. script \in [Launches -> [Processes -> Places]]
  BY DEF TypeInv
<1>2. s \in [Processes -> Places] /\ script' = [script EXCEPT ![i] = s]
  BY <1>1 DEF Become
<1>3. \A p \in Processes : s[p] = IF p \in P THEN place ELSE script[i][p]
  OBVIOUS
<1> HIDE DEF s
<1> QED
  BY <1>1, <1>2, <1>3

LEMMA ScriptLeft ==
  ASSUME TypeInv, NEW i \in Launches, ScriptExits(i)
  PROVE  /\ script' \in [Launches -> [Processes -> Places]]
         /\ \A j \in Launches \ {i} : script'[j] = script[j]
         /\ \A p \in Processes : script'[i][p] # "group"
<1> DEFINE s == [leader |-> "gone",
                 child |-> IF script[i]["child"] = "gone" THEN "gone" ELSE "own"]
<1>1. script \in [Launches -> [Processes -> Places]]
  BY DEF TypeInv
<1>2. s \in [Processes -> Places] /\ s["leader"] # "group" /\ s["child"] # "group"
  BY DEF Processes, Places
<1>3. script' = [script EXCEPT ![i] = s]
  BY DEF ScriptExits
<1> HIDE DEF s
<1> QED
  BY <1>1, <1>2, <1>3 DEF Processes

LEMMA ScriptSteps ==
  ASSUME TypeInv, NEW i \in Launches, ScriptStep(i)
  PROVE  /\ script' \in [Launches -> [Processes -> Places]]
         /\ \A j \in Launches \ {i} : script'[j] = script[j]
         /\ InGroup(i)' # {} => InGroup(i) # {}
<1>1. CASE Spawn(i)
  <2>1. Become(i, {"child"}, "group") /\ InGroup(i) # {} /\ "group" \in Places
    BY <1>1 DEF Spawn, Places
  <2> QED
    BY <2>1, ScriptBecomes
<1>2. CASE Escape(i) \/ \E p \in Processes : Ends(i, p)
  <2>1. \E P \in SUBSET Processes, place \in Places \ {"group"} : Become(i, P, place)
    BY <1>2 DEF Escape, Ends, InGroup, Processes, Places
  <2>2. PICK P \in SUBSET Processes, place \in Places \ {"group"} : Become(i, P, place)
    BY <2>1
  <2>3. \A p \in Processes : script'[i][p] = "group" => script[i][p] = "group"
    BY <2>2, ScriptBecomes
  <2> QED
    BY <2>2, <2>3, ScriptBecomes DEF InGroup
<1> QED
  BY <1>1, <1>2 DEF ScriptStep

\* The steps a launch begins with, and those in which it leaves these alone.
LEMMA LaunchMine ==
  ASSUME TypeInv, NEW i \in Launches, LaunchStep(i)
  PROVE  MineOK'
<1>0. MineOK
  BY DEF TypeInv, MineOK
<1>p. plan[i].proxy \in Containers /\ Telegram \in Containers
  BY PlanType
<1>r. ASSUME NEW c \in Containers, NEW r \in Route, SetRoute(i, c, r)
      PROVE  route' \in [Launches -> [Containers -> Route]]
  <2>1. [route[i] EXCEPT ![c] = r] \in [Containers -> Route]
    BY DEF TypeInv
  <2>2. route' = [route EXCEPT ![i] = [route[i] EXCEPT ![c] = r]]
    BY <1>r DEF SetRoute
  <2> QED
    BY <2>1, <2>2 DEF TypeInv
<1>1. CASE Refuse(i) \/ Accept(i) \/ HiEnter(i) \/ Fail(i) \/ EnsureNetwork(i) \/ StopPredating(i)
           \/ NoPort(i) \/ Start(i) \/ PollHealthy(i) \/ PollFailed(i)
  <2>1. UNCHANGED <<plan, found, route, token, sessions, script>> /\ orphaned' \in BOOLEAN
    BY <1>0, <1>1 DEF Refuse, RefuseHere, RefuseProvider, RefuseUpdate, RefuseDocker,
       RefuseDockerfile, RefuseImage, RefuseDirective, RefuseSecrets, Stay, Accept, HiEnter, Fail,
       EnsureNetwork, StopPredating, NoPort, Start, PollHealthy, PollFailed, GiveUp, mine, MineOK
  <2> QED
    BY <1>0, <2>1 DEF MineOK
<1>2. CASE AdoptTelegram(i) \/ TelegramHealthy(i) \/ TelegramFailed(i) \/ StartTelegram(i)
           \/ NoScript(i) \/ CutShort(i) \/ RunAgent(i) \/ AgentExits(i) \/ LoEnter(i)
           \/ FreeTelegram(i) \/ FreeProxy(i) \/ Kill(i)
  <2>1. UNCHANGED <<plan, found, route, token, script>> /\ orphaned' \in BOOLEAN
        /\ (sessions' = sessions \/ sessions' = {})
    BY <1>0, <1>2 DEF AdoptTelegram, TelegramHealthy, TelegramFailed, StartTelegram, NoScript,
       LeaveLock, CutShort, RunAgent, AgentExits, LoEnter, FreeTelegram, FreeProxy, Kill, GiveUp,
       mine, MineOK
  <2> QED
    BY <1>0, <2>1 DEF MineOK
<1>3. CASE Adopt(i) \/ ScanPort(i)
  <2>1. \E m \in Modes, n \in 0..PortLimit : found' = [found EXCEPT ![i] = [mode |-> m, port |-> n]]
    <3>1. CASE Adopt(i)
      <4>1. box[plan[i].proxy] \in Box
        BY <1>p DEF TypeInv
      <4> QED
        BY <3>1, <4>1 DEF Adopt, RecoveredPort, Box
    <3>2. CASE ScanPort(i)
      BY <3>2, FreePortType DEF ScanPort, Modes
    <3> QED
      BY <1>3, <3>1, <3>2
  <2>2. UNCHANGED <<plan, route, token, sessions, script, orphaned>>
    BY <1>3 DEF Adopt, ScanPort
  <2> QED
    BY <1>0, <2>1, <2>2 DEF MineOK
<1>4. CASE Connect(i)
  <2>1. UNCHANGED <<plan, found, token, sessions, script>> /\ orphaned' \in BOOLEAN
    BY <1>0, <1>4 DEF Connect, GiveUp, MineOK
  <2>2. RouteTo(i, plan[i].proxy) \in Route
    BY <1>p, RouteToType
  <2>3. UNCHANGED route \/ SetRoute(i, plan[i].proxy, RouteTo(i, plan[i].proxy))
    BY <1>4 DEF Connect
  <2>4. route' \in [Launches -> [Containers -> Route]]
    BY <1>0, <1>p, <1>r, <2>2, <2>3 DEF MineOK
  <2> QED
    BY <1>0, <2>1, <2>4 DEF MineOK
<1>5. CASE Register(i)
  <2> DEFINE r == IF ~InHostNetns(i) THEN [via |-> "name", port |-> 0, by |-> box[Telegram].by]
                  ELSE IF box[Telegram].joined
                  THEN [via |-> "address", port |-> 0, by |-> box[Telegram].by]
                  ELSE Nowhere
  <2>1. UNCHANGED <<plan, found, script, orphaned>> /\ SetRoute(i, Telegram, r)
    BY <1>5 DEF Register
  <2>2. r \in Route
    <3>1. box[Telegram].by \in Owners /\ Nobody \in Owners /\ 0 \in 0..PortLimit
      BY <1>p, NetworkAssumption DEF TypeInv, Box, Owners
    <3> QED
      BY <3>1 DEF Route, Nowhere
  <2> HIDE DEF r
  <2>3. /\ sessions' = sessions \/ sessions' = sessions \cup Session(i)
        /\ token' = token \/ token' = [token EXCEPT ![i] = TRUE]
    BY <1>5 DEF Register
  <2>4. route' \in [Launches -> [Containers -> Route]]
    BY <1>p, <1>r, <2>1, <2>2
  <2> QED
    BY <1>0, <2>1, <2>3, <2>4 DEF MineOK, Session
<1>6. CASE RunScript(i) \/ ScriptExits(i) \/ StopScript(i) \/ KillScript(i)
  <2>1. UNCHANGED <<plan, found, route, token, sessions>> /\ orphaned' \in BOOLEAN
    BY <1>0, <1>6 DEF RunScript, ScriptExits, StopScript, KillScript, LeaveLock, GiveUp, mine, MineOK
  <2>2. script' \in [Launches -> [Processes -> Places]]
    <3>1. CASE ScriptExits(i)
      BY <3>1, ScriptLeft DEF ScriptExits
    <3>2. CASE RunScript(i) \/ StopScript(i) \/ KillScript(i)
      <4>1. \E P \in SUBSET Processes, place \in Places : Become(i, P, place)
        BY <3>2 DEF RunScript, StopScript, KillScript, Killed, InGroup, Processes, Places
      <4> QED
        BY <4>1, ScriptBecomes
    <3> QED
      BY <1>6, <3>1, <3>2
  <2> QED
    BY <1>0, <2>1, <2>2 DEF MineOK
<1>7. CASE OnExit(i)
  <2>1. UNCHANGED <<plan, found, script, orphaned>>
        /\ (sessions' = sessions \/ sessions' = sessions \ {i})
        /\ token' = [token EXCEPT ![i] = FALSE]
        /\ route' = [route EXCEPT ![i] = [c \in Containers |-> Nowhere]]
    BY <1>7 DEF OnExit
  <2>2. Nowhere \in Route
    BY NetworkAssumption DEF Nowhere, Route, Owners
  <2> QED
    BY <1>0, <2>1, <2>2 DEF MineOK
<1> QED
  BY <1>1, <1>2, <1>3, <1>4, <1>5, <1>6, <1>7 DEF LaunchStep

LEMMA HostMine ==
  ASSUME TypeInv, HostStep
  PROVE  MineOK' /\ UNCHANGED <<pc, lock, plan, found, route, token>>
<1>1. UNCHANGED <<plan, pc, lock, mine, orphaned>>
      /\ (sessions' = sessions \/ sessions' = {})
  BY DEF HostStep, Listen, Die, TakeOff, ForeignTakes, ForeignLeaves, RemoveNetwork, ScriptStep, Spawn, Escape, Ends
<1>2. script' \in [Launches -> [Processes -> Places]]
  <2>1. CASE \E i \in Launches : ScriptStep(i)
    BY <2>1, ScriptSteps
  <2>2. CASE UNCHANGED script
    BY <2>2 DEF TypeInv
  <2> QED
    BY <2>1, <2>2 DEF HostStep, Listen, Die, TakeOff, ForeignTakes, ForeignLeaves, RemoveNetwork
<1> QED
  BY <1>1, <1>2 DEF MineOK, TypeInv, mine

LEMMA NextType == TypeInv /\ [Next]_vars => TypeInv'
<1> SUFFICES ASSUME TypeInv, [Next]_vars PROVE TypeInv'
  OBVIOUS
<1>1. ASSUME NEW i \in Launches, LaunchStep(i) PROVE TypeInv'
  <2>1. \A j \in Launches : pc'[j] \in Locked => lock' = j
    <3> TAKE j \in Launches
    <3>1. /\ \A k \in Launches \ {i} : pc'[k] = pc[k]
          /\ \/ lock' = lock /\ (pc'[i] \in Locked => pc[i] \in Locked)
             \/ lock = Nobody /\ lock' = i
             \/ lock = i /\ lock' = Nobody /\ pc'[i] \notin Locked
      BY <1>1, LaunchMoves
    <3>2. \A k \in Launches : pc[k] \in Locked => lock = k /\ lock # Nobody
      BY NetworkAssumption DEF TypeInv
    <3> HIDE DEF Locked
    <3> QED
      BY <3>1, <3>2
  <2> QED
    BY <1>1, <2>1, LaunchMoves, LaunchBoxes, LaunchMine DEF TypeInv, BoxesOK, MineOK
<1>2. CASE HostStep
  BY <1>2, HostBoxes, HostMine DEF TypeInv, BoxesOK, MineOK
<1>3. CASE UNCHANGED vars
  BY <1>3 DEF vars, docker, mine, TypeInv, Running
<1> QED
  BY <1>1, <1>2, <1>3 DEF Next, Finished

-----------------------------------------------------------------------------
(* The startup script.                                                     *)

ScriptInv ==
  \A i \in Launches :
    InGroup(i) # {} => \/ pc[i] \in {"scripting", "grace", "killed"}
                       \/ faults \cap {"impatient", "deaf"} # {}

\* What has happened is not forgotten.
LEMMA FaultsStay ==
  ASSUME [Next]_vars
  PROVE  faults \subseteq faults'
<1>1. ASSUME NEW i \in Launches, LaunchStep(i) PROVE faults \subseteq faults'
  <2>1. CASE Refuse(i) \/ Accept(i) \/ HiEnter(i) \/ Fail(i) \/ EnsureNetwork(i)
             \/ StopPredating(i) \/ Adopt(i) \/ ScanPort(i) \/ NoPort(i) \/ Start(i)
             \/ PollHealthy(i)
    BY <2>1 DEF Refuse, RefuseHere, RefuseProvider, RefuseUpdate, RefuseDocker,
       RefuseDockerfile, RefuseImage, RefuseDirective, RefuseSecrets, Stay, Accept, HiEnter, Fail,
       EnsureNetwork, StopPredating, Adopt, ScanPort, NoPort, Start, PollHealthy, Happens
  <2>2. CASE PollFailed(i) \/ Connect(i) \/ AdoptTelegram(i) \/ StartTelegram(i)
             \/ TelegramHealthy(i) \/ TelegramFailed(i) \/ Register(i)
    BY <2>2 DEF PollFailed, Connect, AdoptTelegram, StartTelegram, TelegramHealthy,
       TelegramFailed, Register, NoScript, Happens
  <2>3. CASE NoScript(i) \/ RunScript(i) \/ ScriptExits(i) \/ StopScript(i) \/ KillScript(i)
             \/ CutShort(i) \/ RunAgent(i) \/ AgentExits(i) \/ OnExit(i) \/ LoEnter(i)
             \/ FreeTelegram(i) \/ FreeProxy(i) \/ Kill(i)
    BY <2>3 DEF NoScript, RunScript, ScriptExits, StopScript, KillScript, CutShort, LeaveLock,
       RunAgent, AgentExits, OnExit, LoEnter, FreeTelegram, FreeProxy, Kill, Happens
  <2> QED
    BY <1>1, <2>1, <2>2, <2>3 DEF LaunchStep
<1>2. ASSUME HostStep PROVE faults \subseteq faults'
  <2>1. CASE \E c \in Containers : Listen(c) \/ Die(c) \/ TakeOff(c)
    BY <2>1 DEF Listen, Die, TakeOff, Happens
  <2>2. CASE ~ \E c \in Containers : Listen(c) \/ Die(c) \/ TakeOff(c)
    BY <1>2, <2>2 DEF HostStep, ForeignTakes, ForeignLeaves, RemoveNetwork, ScriptStep, Spawn, Escape, Ends, Happens
  <2> QED
    BY <2>1, <2>2
<1>3. ASSUME UNCHANGED vars PROVE faults \subseteq faults'
  BY <1>3 DEF vars
<1> QED
  BY <1>1, <1>2, <1>3 DEF Next, Finished

\* A proxy that was left behind stays so.
LEMMA OrphansStay ==
  ASSUME [Next]_vars
  PROVE  orphaned => orphaned'
<1>1. ASSUME NEW i \in Launches, LaunchStep(i) PROVE orphaned => orphaned'
  <2>1. CASE Refuse(i) \/ Accept(i) \/ HiEnter(i) \/ Fail(i) \/ EnsureNetwork(i)
             \/ StopPredating(i) \/ Adopt(i) \/ ScanPort(i) \/ NoPort(i) \/ Start(i)
             \/ PollHealthy(i)
    BY <2>1 DEF Refuse, RefuseHere, RefuseProvider, RefuseUpdate, RefuseDocker,
       RefuseDockerfile, RefuseImage, RefuseDirective, RefuseSecrets, Stay, Accept, HiEnter, Fail,
       EnsureNetwork, StopPredating, Adopt, ScanPort, NoPort, Start, PollHealthy, GiveUp
  <2>2. CASE PollFailed(i) \/ Connect(i) \/ AdoptTelegram(i) \/ StartTelegram(i)
             \/ TelegramHealthy(i) \/ TelegramFailed(i) \/ Register(i)
    BY <2>2 DEF PollFailed, Connect, AdoptTelegram, StartTelegram, TelegramHealthy,
       TelegramFailed, Register, NoScript, GiveUp
  <2>3. CASE NoScript(i) \/ RunScript(i) \/ ScriptExits(i) \/ StopScript(i) \/ KillScript(i)
             \/ CutShort(i) \/ RunAgent(i) \/ AgentExits(i) \/ OnExit(i) \/ LoEnter(i)
             \/ FreeTelegram(i) \/ FreeProxy(i) \/ Kill(i)
    BY <2>3 DEF NoScript, RunScript, ScriptExits, StopScript, KillScript, CutShort, LeaveLock,
       RunAgent, AgentExits, OnExit, LoEnter, FreeTelegram, FreeProxy, Kill, GiveUp
  <2> QED
    BY <1>1, <2>1, <2>2, <2>3 DEF LaunchStep
<1>2. ASSUME HostStep PROVE orphaned => orphaned'
  <2>1. CASE \E c \in Containers : Listen(c) \/ Die(c) \/ TakeOff(c)
    BY <2>1 DEF Listen, Die, TakeOff, Happens
  <2>2. CASE ~ \E c \in Containers : Listen(c) \/ Die(c) \/ TakeOff(c)
    BY <1>2, <2>2 DEF HostStep, ForeignTakes, ForeignLeaves, RemoveNetwork, ScriptStep, Spawn, Escape, Ends, Happens
  <2> QED
    BY <2>1, <2>2
<1>3. ASSUME UNCHANGED vars PROVE orphaned => orphaned'
  BY <1>3 DEF vars
<1> QED
  BY <1>1, <1>2, <1>3 DEF Next, Finished

LEMMA NextScript == TypeInv /\ ScriptInv /\ [Next]_vars => ScriptInv'
<1> SUFFICES ASSUME TypeInv, ScriptInv, [Next]_vars PROVE ScriptInv'
  OBVIOUS
<1>f. faults \subseteq faults'
  BY FaultsStay
<1>1. ASSUME NEW i \in Launches, LaunchStep(i) PROVE ScriptInv'
  <2>0. \A j \in Launches \ {i} : pc'[j] = pc[j]
    BY <1>1, LaunchMoves
  <2>s. ASSUME \A j \in Launches \ {i} : script'[j] = script[j],
               \/ InGroup(i)' = {} \/ pc'[i] \in {"scripting", "grace", "killed"}
               \/ faults' \cap {"impatient", "deaf"} # {}
        PROVE  ScriptInv'
    BY <1>f, <2>0, <2>s DEF ScriptInv, InGroup
  <2>1. CASE UNCHANGED script /\ pc[i] \notin {"scripting", "grace", "killed"}
    BY <1>f, <2>0, <2>1 DEF ScriptInv, InGroup
  <2>2. CASE RunScript(i) \/ StopScript(i)
    <3>1. pc'[i] \in {"scripting", "grace"}
      BY <2>2 DEF RunScript, StopScript, Goto, TypeInv
    <3>2. \E P \in SUBSET Processes, place \in Places : Become(i, P, place)
      BY <2>2 DEF RunScript, StopScript, InGroup, Processes, Places
    <3> QED
      BY <2>s, <3>1, <3>2, ScriptBecomes
  <2>3. CASE ScriptExits(i)
    BY <2>3, <2>s, ScriptLeft DEF InGroup
  <2>4. CASE KillScript(i)
    <3>1. CASE Become(i, Killed(i), "gone")
      <4>1. "gone" \in Places
        BY DEF Places
      <4>2. \A p \in Processes : script'[i][p] # "group"
        BY <3>1, <4>1, ScriptBecomes DEF Killed, InGroup
      <4> QED
        BY <2>s, <3>1, <4>1, <4>2, ScriptBecomes DEF InGroup
    <3>2. CASE \E deaf \in Killed(i) : Become(i, Killed(i) \ {deaf}, "gone") /\ Happens("deaf")
      <4>1. "gone" \in Places
        BY DEF Places
      <4>2. "deaf" \in faults'
        BY <3>2 DEF Happens
      <4> QED
        BY <2>s, <3>2, <4>1, <4>2, ScriptBecomes
    <3> QED
      BY <2>4, <3>1, <3>2 DEF KillScript
  <2>c. CASE CutShort(i)
    BY <2>c, <2>s DEF CutShort, Happens
  <2>5. CASE Kill(i)
    <3>1. pc'[i] = "killed" /\ UNCHANGED script
      BY <2>5 DEF Kill, Goto, TypeInv
    <3> QED
      BY <2>s, <3>1
  <2>6. CASE Refuse(i) \/ Accept(i) \/ HiEnter(i) \/ Fail(i) \/ EnsureNetwork(i)
             \/ StopPredating(i) \/ Adopt(i) \/ ScanPort(i) \/ NoPort(i) \/ Start(i)
             \/ PollHealthy(i) \/ PollFailed(i) \/ Connect(i) \/ AdoptTelegram(i)
    BY <2>1, <2>6 DEF Refuse, RefuseHere, RefuseProvider, RefuseUpdate, RefuseDocker,
       RefuseDockerfile, RefuseImage, RefuseDirective, RefuseSecrets, Stay, Accept, HiEnter, Fail,
       EnsureNetwork, StopPredating, Adopt, ScanPort, NoPort, Start, PollHealthy, PollFailed,
       Connect, AdoptTelegram, HiPcs
  <2>7. CASE StartTelegram(i) \/ TelegramHealthy(i) \/ TelegramFailed(i) \/ Register(i)
             \/ NoScript(i) \/ RunAgent(i) \/ AgentExits(i) \/ OnExit(i) \/ LoEnter(i)
             \/ FreeTelegram(i) \/ FreeProxy(i)
    BY <2>1, <2>7 DEF StartTelegram, TelegramHealthy, TelegramFailed, Register, NoScript,
       RunAgent, AgentExits, OnExit, LoEnter, FreeTelegram, FreeProxy
  <2> QED
    BY <1>1, <2>2, <2>3, <2>4, <2>c, <2>5, <2>6, <2>7 DEF LaunchStep
<1>2. CASE HostStep
  <2>1. UNCHANGED script \/ \E i \in Launches : ScriptStep(i)
    BY <1>2 DEF HostStep, Listen, Die, TakeOff, ForeignTakes, ForeignLeaves, RemoveNetwork
  <2>2. UNCHANGED pc
    BY <1>2, HostMine
  <2>3. \A j \in Launches : InGroup(j)' # {} => InGroup(j) # {}
    BY <2>1, ScriptSteps DEF InGroup
  <2> QED
    BY <1>f, <2>2, <2>3 DEF ScriptInv
<1>3. CASE UNCHANGED vars
  BY <1>3 DEF vars, ScriptInv, InGroup
<1> QED
  BY <1>1, <1>2, <1>3 DEF Next, Finished

\* StoppedScriptIsGone holds: a startup script runs under the lock of its
\* launch, and of one that was ended nothing is left in its process group when the
\* lock is free, for every plan of every set of launches and every mishap but the
\* three the property names (StartupScriptService.run, terminate_tree).  ScriptInv
\* says where in the launch a process of the group can be; whether the script
\* itself lives on or not, a process of the group may start another until SIGKILL.
THEOREM StoppedScriptIsGoneHolds == Spec => []StoppedScriptIsGone
<1>1. Init => ScriptInv
  BY DEF Init, ScriptInv, InGroup, NoScriptRuns
<1>2. TypeInv /\ ScriptInv => StoppedScriptIsGone
  BY DEF TypeInv, ScriptInv, StoppedScriptIsGone, Locked, HiPcs
<1> QED
  BY <1>1, <1>2, InitType, NextType, NextScript, PTL DEF Spec

-----------------------------------------------------------------------------
(* The Telegram sidecar and its sessions.                                  *)

Earlier == {"idle", "waitHi", "network", "proxy", "start", "poll", "connect", "tgNetwork", "telegram"}

\* A launch that has yet to start the container did not start the one there is,
\* and no agent was led to one of its making.
StarterInv ==
  \A j \in Launches : pc[j] \in Earlier =>
    box[Telegram].by # j /\ \A i \in Launches : route[i][Telegram].by # j

\* Sessions are in a container that serves; a launch that polls has just
\* started one.  A token is good while its container runs, and a session whose
\* answer arrived has one.
SessionInv ==
  /\ sessions # {} => box[Telegram].state = "serving"
  /\ \A i \in Launches :
       /\ pc[i] = "tgPoll" => sessions = {}
       /\ pc[i] \in Earlier \cup {"tgPoll", "register"} => ~ token[i]
       /\ token[i] /\ Running(Telegram) /\ box[Telegram].by = route[i][Telegram].by => i \in sessions
  /\ "lost" \notin faults => \A i \in sessions : pc[i] \in HasSession /\ token[i]

\* A step that leaves the sessions, the tokens and the ways to the container
\* alone, and the container but for its beginning to serve.
LEMMA CalmSessions ==
  ASSUME TypeInv, StarterInv, SessionInv,
         UNCHANGED <<sessions, token>>, faults \subseteq faults',
         \A i \in Launches : route'[i][Telegram] = route[i][Telegram],
         box'[Telegram].by = box[Telegram].by,
         box'[Telegram].state = box[Telegram].state
           \/ (box[Telegram].state = "booting" /\ box'[Telegram].state = "serving"),
         \A i \in Launches :
            /\ pc'[i] \in Earlier => pc[i] \in Earlier
            /\ pc'[i] \in {"tgPoll", "register"} => pc[i] \in Earlier \cup {"tgPoll", "register"}
            /\ pc'[i] = "tgPoll" => pc[i] = "tgPoll"
            /\ pc[i] \in HasSession => pc'[i] \in HasSession
  PROVE  StarterInv' /\ SessionInv'
<1>1. StarterInv'
  BY DEF StarterInv
<1>2. SessionInv'
  <2>1. sessions' # {} => box'[Telegram].state = "serving"
    BY DEF SessionInv
  <2>2. ASSUME NEW i \in Launches
        PROVE  /\ pc'[i] = "tgPoll" => sessions' = {}
               /\ pc'[i] \in Earlier \cup {"tgPoll", "register"} => ~ token'[i]
    BY <2>2 DEF SessionInv
  <2>3. ASSUME NEW i \in Launches, token'[i], box'[Telegram].state # "gone",
               box'[Telegram].by = route'[i][Telegram].by
        PROVE  i \in sessions'
    <3>1. Running(Telegram) /\ token[i] /\ box[Telegram].by = route[i][Telegram].by
      BY <2>3 DEF Running
    <3> QED
      BY <3>1 DEF SessionInv
  <2>4. ASSUME "lost" \notin faults', NEW i \in sessions' PROVE pc'[i] \in HasSession /\ token'[i]
    BY <2>4 DEF SessionInv, TypeInv
  <2> QED
    BY <2>1, <2>2, <2>3, <2>4 DEF SessionInv, Running
<1> QED
  BY <1>1, <1>2

\* The container goes, and its sessions with it.
LEMMA GoneSessions ==
  ASSUME TypeInv, StarterInv, SessionInv, box'[Telegram] = Gone, sessions' = {},
         UNCHANGED <<token, route>>,
         \A i \in Launches :
            /\ pc'[i] \in Earlier => pc[i] \in Earlier
            /\ pc'[i] \in {"tgPoll", "register"} => pc[i] \in Earlier \cup {"tgPoll", "register"}
  PROVE  StarterInv' /\ SessionInv'
<1>1. Gone.state = "gone" /\ Gone.by \notin Launches
  BY NetworkAssumption, GoneType
<1>2. StarterInv'
  BY <1>1 DEF StarterInv
<1>3. SessionInv'
  BY <1>1 DEF SessionInv, Running
<1> QED
  BY <1>2, <1>3

\* The steps of a launch that have nothing to do with it.
LEMMA OtherSessions ==
  ASSUME TypeInv, StarterInv, SessionInv, [Next]_vars, NEW i \in Launches,
         \/ Refuse(i) \/ Accept(i) \/ HiEnter(i) \/ Fail(i) \/ EnsureNetwork(i)
         \/ StopPredating(i) \/ Adopt(i) \/ ScanPort(i) \/ NoPort(i) \/ Start(i)
         \/ PollHealthy(i) \/ PollFailed(i) \/ Connect(i) \/ AdoptTelegram(i)
         \/ TelegramHealthy(i) \/ NoScript(i) \/ RunScript(i) \/ ScriptExits(i) \/ StopScript(i)
         \/ KillScript(i) \/ CutShort(i) \/ RunAgent(i) \/ AgentExits(i) \/ LoEnter(i)
         \/ FreeProxy(i) \/ Kill(i)
  PROVE  StarterInv' /\ SessionInv'
<1>f. faults \subseteq faults'
  BY FaultsStay
<1>p. /\ plan[i].proxy \in Containers /\ Telegram \in Containers /\ plan[i].proxy # Telegram
  BY PlanType
<1>b. ASSUME NEW b, SetBox(plan[i].proxy, b) PROVE box'[Telegram] = box[Telegram]
  BY <1>b, <1>p DEF SetBox, TypeInv
<1>1. UNCHANGED <<sessions, token>> /\ box'[Telegram] = box[Telegram]
  <2>1. CASE Refuse(i) \/ Accept(i) \/ HiEnter(i) \/ Fail(i) \/ EnsureNetwork(i) \/ Adopt(i)
             \/ ScanPort(i) \/ NoPort(i) \/ PollHealthy(i) \/ PollFailed(i) \/ Connect(i)
             \/ AdoptTelegram(i)
    BY <2>1 DEF Refuse, RefuseHere, RefuseProvider, RefuseUpdate, RefuseDocker,
       RefuseDockerfile, RefuseImage, RefuseDirective, RefuseSecrets, Stay, Accept, HiEnter, Fail,
       EnsureNetwork, Adopt, ScanPort, NoPort, PollHealthy, PollFailed, Connect, AdoptTelegram,
       docker, mine
  <2>2. CASE StopPredating(i) \/ Start(i) \/ FreeProxy(i)
    BY <1>b, <2>2 DEF StopPredating, Start, FreeProxy, mine
  <2>3. CASE TelegramHealthy(i) \/ NoScript(i) \/ RunScript(i) \/ ScriptExits(i) \/ StopScript(i)
             \/ KillScript(i) \/ CutShort(i) \/ RunAgent(i) \/ AgentExits(i) \/ LoEnter(i) \/ Kill(i)
    BY <2>3 DEF TelegramHealthy, NoScript, RunScript, ScriptExits, StopScript, KillScript, CutShort,
       RunAgent, AgentExits, LoEnter, Kill, docker, mine
  <2> QED
    BY <2>1, <2>2, <2>3
<1>2. \A j \in Launches : route'[j][Telegram] = route[j][Telegram]
  <2>1. CASE Connect(i)
    <3>1. UNCHANGED route \/ \E r : SetRoute(i, plan[i].proxy, r)
      BY <2>1 DEF Connect
    <3>2. CASE UNCHANGED route
      BY <3>2
    <3>3. ASSUME NEW r, SetRoute(i, plan[i].proxy, r)
          PROVE  \A j \in Launches : route'[j][Telegram] = route[j][Telegram]
      <4>1. route' = [route EXCEPT ![i] = [route[i] EXCEPT ![plan[i].proxy] = r]]
        BY <3>3 DEF SetRoute
      <4>2. route[i] \in [Containers -> Route]
        BY DEF TypeInv
      <4>3. route'[i][Telegram] = route[i][Telegram]
        BY <1>p, <4>1, <4>2 DEF TypeInv
      <4>4. \A j \in Launches \ {i} : route'[j] = route[j]
        BY <4>1 DEF TypeInv
      <4> QED
        BY <4>3, <4>4
    <3> QED
      BY <3>1, <3>2, <3>3
  <2>2. CASE ~ Connect(i)
    <3>1. UNCHANGED route
      <4>1. CASE Refuse(i) \/ Accept(i) \/ HiEnter(i) \/ Fail(i) \/ EnsureNetwork(i)
                 \/ StopPredating(i) \/ Adopt(i) \/ ScanPort(i) \/ NoPort(i) \/ Start(i)
                 \/ PollHealthy(i) \/ PollFailed(i) \/ AdoptTelegram(i)
        BY <4>1 DEF Refuse, RefuseHere, RefuseProvider, RefuseUpdate, RefuseDocker,
           RefuseDockerfile, RefuseImage, RefuseDirective, RefuseSecrets, Stay, Accept, HiEnter,
           Fail, EnsureNetwork, StopPredating, Adopt, ScanPort, NoPort, Start, PollHealthy,
           PollFailed, AdoptTelegram, mine
      <4>2. CASE TelegramHealthy(i) \/ NoScript(i) \/ RunScript(i) \/ ScriptExits(i)
                 \/ StopScript(i) \/ KillScript(i) \/ CutShort(i) \/ RunAgent(i) \/ AgentExits(i)
                 \/ LoEnter(i) \/ FreeProxy(i) \/ Kill(i)
        BY <4>2 DEF TelegramHealthy, NoScript, RunScript, ScriptExits, StopScript, KillScript,
           CutShort, RunAgent, AgentExits, LoEnter, FreeProxy, Kill, mine
      <4> QED
        BY <2>2, <4>1, <4>2
    <3> QED
      BY <3>1
  <2> QED
    BY <2>1, <2>2
<1>3. /\ \A j \in Launches \ {i} : pc'[j] = pc[j]
      /\ pc'[i] \in Earlier => pc[i] \in Earlier
      /\ pc'[i] = "register" => pc[i] \in {"telegram", "tgPoll"}
      /\ pc'[i] # "tgPoll"
      /\ pc[i] \in HasSession => pc'[i] \in HasSession
  <2>1. CASE Refuse(i) \/ Accept(i) \/ HiEnter(i) \/ EnsureNetwork(i) \/ Adopt(i) \/ ScanPort(i)
             \/ NoPort(i) \/ PollHealthy(i) \/ PollFailed(i)
    BY <2>1 DEF Refuse, RefuseHere, RefuseProvider, RefuseUpdate, RefuseDocker, RefuseDockerfile,
       RefuseImage, RefuseDirective, RefuseSecrets, Stay, Accept, HiEnter, EnsureNetwork, Adopt,
       ScanPort, NoPort, PollHealthy, PollFailed, Goto, TypeInv, Earlier, HasSession
  <2>2. CASE Fail(i)
    BY <2>2 DEF Fail, Goto, TypeInv, Earlier, HasSession
  <2>3. CASE StopPredating(i)
    BY <2>3 DEF StopPredating, Earlier, HasSession
  <2>4. CASE Start(i) \/ Connect(i)
    <3>1. PICK l \in {"exit", "poll", "tgNetwork", "script"} :
            pc' = [pc EXCEPT ![i] = l] /\ pc[i] \in {"start", "connect"}
      BY <2>4 DEF Start, Connect, Goto
    <3> QED
      BY <3>1 DEF TypeInv, Earlier, HasSession
  <2>5. CASE AdoptTelegram(i) \/ TelegramHealthy(i) \/ NoScript(i) \/ RunScript(i) \/ ScriptExits(i)
             \/ StopScript(i) \/ KillScript(i) \/ CutShort(i) \/ RunAgent(i)
    BY <2>5 DEF AdoptTelegram, TelegramHealthy, NoScript, RunScript, ScriptExits, StopScript,
       KillScript, CutShort, RunAgent, LeaveLock, Goto, TypeInv, Earlier, HasSession
  <2>6. CASE AgentExits(i) \/ LoEnter(i) \/ FreeProxy(i) \/ Kill(i)
    BY <2>6 DEF AgentExits, LoEnter, FreeProxy, Kill, Goto, TypeInv, Earlier, HasSession
  <2> QED
    BY <2>1, <2>2, <2>3, <2>4, <2>5, <2>6
<1>4. \A j \in Launches :
        /\ pc'[j] \in Earlier => pc[j] \in Earlier
        /\ pc'[j] \in {"tgPoll", "register"} => pc[j] \in Earlier \cup {"tgPoll", "register"}
        /\ pc'[j] = "tgPoll" => pc[j] = "tgPoll"
        /\ pc[j] \in HasSession => pc'[j] \in HasSession
  <2>1. "telegram" \in Earlier
    BY DEF Earlier
  <2> QED
    BY <1>3, <2>1
<1> QED
  BY <1>f, <1>1, <1>2, <1>4, CalmSessions

LEMMA StartTelegramSessions ==
  ASSUME TypeInv, StarterInv, SessionInv, [Next]_vars, NEW i \in Launches, StartTelegram(i)
  PROVE  StarterInv' /\ SessionInv'
<1>f. faults \subseteq faults'
  BY FaultsStay
<1>t. Telegram \in Containers /\ pc[i] = "telegram" /\ "telegram" \in Earlier
  BY DEF Containers, StartTelegram, Earlier
<1>1. CASE netUp
  <2>1. /\ box'[Telegram].state = "booting" /\ box'[Telegram].by = i /\ sessions' = {}
        /\ UNCHANGED <<route, token>>
    BY <1>1, <1>t DEF StartTelegram, SetBox, TypeInv, mine
  <2>2. pc'[i] = "tgPoll" /\ \A j \in Launches \ {i} : pc'[j] = pc[j]
    BY <1>1 DEF StartTelegram, Goto, TypeInv
  <2>3. \A j \in Launches : pc'[j] \in Earlier => j # i /\ pc[j] \in Earlier
    BY <2>2 DEF Earlier
  <2>4. StarterInv'
    BY <2>1, <2>3 DEF StarterInv
  <2>5. \A j \in Launches : route[j][Telegram].by # i
    BY <1>t DEF StarterInv
  <2>6. \A j \in Launches : pc'[j] \in Earlier \cup {"tgPoll", "register"} => ~ token[j]
    BY <2>2, <2>3, <1>t DEF SessionInv
  <2> QED
    BY <2>1, <2>4, <2>5, <2>6 DEF SessionInv, Running
<1>2. CASE ~ netUp
  <2>1. UNCHANGED <<box, sessions, token, route>>
    BY <1>2 DEF StartTelegram, mine
  <2>2. pc'[i] = "exit" /\ \A j \in Launches \ {i} : pc'[j] = pc[j]
    BY <1>2 DEF StartTelegram, Goto, TypeInv
  <2>3. \A j \in Launches :
          /\ pc'[j] \in Earlier => pc[j] \in Earlier
          /\ pc'[j] \in {"tgPoll", "register"} => pc[j] \in Earlier \cup {"tgPoll", "register"}
          /\ pc'[j] = "tgPoll" => pc[j] = "tgPoll"
          /\ pc[j] \in HasSession => pc'[j] \in HasSession
    BY <2>2 DEF Earlier, HasSession
  <2> QED
    BY <1>f, <2>1, <2>3, CalmSessions
<1> QED
  BY <1>1, <1>2

LEMMA TelegramFailedSessions ==
  ASSUME TypeInv, StarterInv, SessionInv, NEW i \in Launches, TelegramFailed(i)
  PROVE  StarterInv' /\ SessionInv'
<1>1. box'[Telegram] = Gone /\ UNCHANGED <<token, route, sessions>>
  BY DEF TelegramFailed, SetBox, TypeInv, Containers, mine
<1>2. sessions' = {}
  BY <1>1 DEF TelegramFailed, SessionInv
<1>3. pc'[i] = "exit" /\ \A j \in Launches \ {i} : pc'[j] = pc[j]
  BY DEF TelegramFailed, Goto, TypeInv
<1>4. \A j \in Launches :
        /\ pc'[j] \in Earlier => pc[j] \in Earlier
        /\ pc'[j] \in {"tgPoll", "register"} => pc[j] \in Earlier \cup {"tgPoll", "register"}
  BY <1>3 DEF Earlier
<1> QED
  BY <1>1, <1>2, <1>4, GoneSessions

LEMMA RegisterSessions ==
  ASSUME TypeInv, StarterInv, SessionInv, [Next]_vars, NEW i \in Launches, Register(i)
  PROVE  StarterInv' /\ SessionInv'
<1>f. faults \subseteq faults'
  BY FaultsStay
<1>t. Telegram \in Containers /\ pc[i] = "register" /\ lock = i
  BY DEF Containers, Register, TypeInv, Locked, HiPcs
<1>p. pc'[i] = "script" /\ \A j \in Launches \ {i} : pc'[j] = pc[j]
  BY DEF Register, Goto, TypeInv
<1>b. UNCHANGED box
  BY DEF Register, docker
<1>1. /\ \A j \in Launches \ {i} : route'[j] = route[j]
      /\ route'[i][Telegram].by \in {box[Telegram].by, Nobody}
  <2> DEFINE r == IF ~InHostNetns(i) THEN [via |-> "name", port |-> 0, by |-> box[Telegram].by]
                  ELSE IF box[Telegram].joined
                  THEN [via |-> "address", port |-> 0, by |-> box[Telegram].by]
                  ELSE Nowhere
  <2>1. SetRoute(i, Telegram, r)
    BY DEF Register
  <2>2. r.by \in {box[Telegram].by, Nobody}
    BY DEF Nowhere
  <2> HIDE DEF r
  <2>3. route' = [route EXCEPT ![i] = [route[i] EXCEPT ![Telegram] = r]]
    BY <2>1 DEF SetRoute
  <2>4. route[i] \in [Containers -> Route]
    BY DEF TypeInv
  <2>5. route'[i][Telegram] = r
    BY <1>t, <2>3, <2>4 DEF TypeInv
  <2>6. \A j \in Launches \ {i} : route'[j] = route[j]
    BY <2>3 DEF TypeInv
  <2> QED
    BY <2>2, <2>5, <2>6
<1>2. StarterInv'
  <2>1. \A j \in Launches : pc'[j] \in Earlier => j # i /\ pc[j] \in Earlier
    BY <1>p DEF Earlier
  <2>2. ASSUME NEW j \in Launches, pc'[j] \in Earlier, NEW k \in Launches
        PROVE  box'[Telegram].by # j /\ route'[k][Telegram].by # j
    <3>1. box[Telegram].by # j /\ route[k][Telegram].by # j
      BY <2>1, <2>2 DEF StarterInv
    <3>2. j # Nobody
      BY NetworkAssumption
    <3> QED
      BY <1>1, <1>b, <3>1, <3>2
  <2> QED
    BY <2>2 DEF StarterInv
<1>3. /\ ~ token[i]
      /\ "lost" \notin faults => i \notin sessions
  BY <1>t DEF SessionInv, HasSession
<1>4. \A j \in Launches \ {i} : token'[j] = token[j] /\ (j \in sessions' <=> j \in sessions)
  BY DEF Register, Session, TypeInv
<1>5. \/ box[Telegram].state # "serving" /\ UNCHANGED <<sessions, token, faults>>
      \/ box[Telegram].state = "serving" /\ i \in sessions' /\ token'[i]
      \/ box[Telegram].state = "serving" /\ i \in sessions' /\ ~ token'[i] /\ "lost" \in faults'
  BY <1>3 DEF Register, Session, Happens, TypeInv
<1>6. SessionInv'
  <2>1. sessions' # {} => box'[Telegram].state = "serving"
    BY <1>b, <1>5 DEF SessionInv
  <2>2. ASSUME NEW j \in Launches
        PROVE  /\ pc'[j] = "tgPoll" => sessions' = {}
               /\ pc'[j] \in Earlier \cup {"tgPoll", "register"} => ~ token'[j]
    <3>1. pc'[j] # "tgPoll"
      BY <1>t, <1>p DEF TypeInv, Locked, HiPcs
    <3>2. CASE j = i
      BY <1>p, <3>2 DEF Earlier
    <3>3. CASE j # i
      BY <1>p, <1>4, <3>1, <3>3 DEF SessionInv
    <3> QED
      BY <3>2, <3>3
  <2>3. ASSUME NEW j \in Launches, token'[j], box'[Telegram].state # "gone",
               box'[Telegram].by = route'[j][Telegram].by
        PROVE  j \in sessions'
    <3>1. CASE j = i
      BY <1>3, <1>5, <2>3, <3>1
    <3>2. CASE j # i
      <4>1. token[j] /\ Running(Telegram) /\ box[Telegram].by = route[j][Telegram].by
        BY <1>1, <1>4, <1>b, <2>3, <3>2 DEF Running
      <4>2. j \in sessions
        BY <4>1 DEF SessionInv
      <4> QED
        BY <1>4, <3>2, <4>2
    <3> QED
      BY <3>1, <3>2
  <2>4. ASSUME "lost" \notin faults', NEW j \in sessions'
        PROVE  pc'[j] \in HasSession /\ token'[j]
    <3>0. "lost" \notin faults /\ sessions \subseteq Launches
      BY <1>f, <2>4 DEF TypeInv
    <3>1. CASE j = i
      BY <1>3, <1>5, <1>p, <2>4, <3>0, <3>1 DEF HasSession
    <3>2. CASE j # i
      <4>1. j \in sessions /\ j \in Launches \ {i}
        BY <3>2, <2>4, <3>0 DEF Register, Session
      <4> QED
        BY <1>4, <1>p, <3>0, <4>1 DEF SessionInv
    <3> QED
      BY <3>1, <3>2
  <2> QED
    BY <2>1, <2>2, <2>3, <2>4 DEF SessionInv, Running
<1> QED
  BY <1>2, <1>6

LEMMA OnExitSessions ==
  ASSUME TypeInv, StarterInv, SessionInv, [Next]_vars, NEW i \in Launches, OnExit(i)
  PROVE  StarterInv' /\ SessionInv'
<1>f. faults \subseteq faults'
  BY FaultsStay
<1>t. Telegram \in Containers /\ pc[i] = "exit"
  BY DEF Containers, OnExit
<1>p. pc'[i] = "waitLo" /\ \A j \in Launches \ {i} : pc'[j] = pc[j]
  BY DEF OnExit, Goto, TypeInv
<1>b. UNCHANGED box
  BY DEF OnExit, docker
<1>1. /\ \A j \in Launches \ {i} : route'[j] = route[j] /\ token'[j] = token[j]
      /\ route'[i][Telegram].by = Nobody /\ ~ token'[i]
  BY <1>t DEF OnExit, TypeInv, Nowhere
<1>2. StarterInv'
  <2>1. \A j \in Launches : pc'[j] \in Earlier => pc[j] \in Earlier /\ j # Nobody
    BY <1>p, NetworkAssumption DEF Earlier
  <2>2. ASSUME NEW j \in Launches, pc'[j] \in Earlier, NEW k \in Launches
        PROVE  box'[Telegram].by # j /\ route'[k][Telegram].by # j
    BY <1>1, <1>b, <2>1, <2>2 DEF StarterInv
  <2> QED
    BY <2>2 DEF StarterInv
<1>3. /\ sessions' \subseteq sessions
      /\ \A j \in Launches \ {i} : j \in sessions' <=> j \in sessions
  BY DEF OnExit
<1>4. "lost" \notin faults' => i \notin sessions'
  <2>1. CASE token[i] /\ box[Telegram].state = "serving"
    BY <2>1 DEF OnExit, Happens
  <2>2. CASE ~ token[i]
    BY <1>f, <1>3, <2>2 DEF SessionInv
  <2>3. CASE box[Telegram].state # "serving"
    BY <1>3, <2>3 DEF SessionInv
  <2> QED
    BY <2>1, <2>2, <2>3
<1>5. SessionInv'
  <2>1. sessions' # {} => box'[Telegram].state = "serving"
    BY <1>b, <1>3 DEF SessionInv
  <2>2. ASSUME NEW j \in Launches
        PROVE  /\ pc'[j] = "tgPoll" => sessions' = {}
               /\ pc'[j] \in Earlier \cup {"tgPoll", "register"} => ~ token'[j]
    BY <1>1, <1>3, <1>p DEF SessionInv
  <2>3. ASSUME NEW j \in Launches, token'[j], box'[Telegram].state # "gone",
               box'[Telegram].by = route'[j][Telegram].by
        PROVE  j \in sessions'
    <3>1. j # i
      BY <1>1, <2>3
    <3>2. token[j] /\ Running(Telegram) /\ box[Telegram].by = route[j][Telegram].by
      BY <1>1, <1>b, <2>3, <3>1 DEF Running
    <3>3. j \in sessions
      BY <3>2 DEF SessionInv
    <3> QED
      BY <1>3, <3>1, <3>3
  <2>4. ASSUME "lost" \notin faults', NEW j \in sessions'
        PROVE  pc'[j] \in HasSession /\ token'[j]
    <3>1. j # i /\ j \in Launches /\ j \in sessions /\ "lost" \notin faults
      BY <1>f, <1>3, <1>4, <2>4 DEF TypeInv
    <3>2. pc[j] \in HasSession /\ token[j]
      BY <3>1 DEF SessionInv
    <3> QED
      BY <1>1, <1>p, <3>1, <3>2
  <2> QED
    BY <2>1, <2>2, <2>3, <2>4 DEF SessionInv, Running
<1> QED
  BY <1>2, <1>5

LEMMA FreeTelegramSessions ==
  ASSUME TypeInv, StarterInv, SessionInv, [Next]_vars, NEW i \in Launches, FreeTelegram(i)
  PROVE  StarterInv' /\ SessionInv'
<1>f. faults \subseteq faults'
  BY FaultsStay
<1>p. pc[i] = "freeTelegram" /\ pc'[i] = "freeProxy" /\ \A j \in Launches \ {i} : pc'[j] = pc[j]
  BY DEF FreeTelegram, Goto, TypeInv
<1>1. \A j \in Launches :
        /\ pc'[j] \in Earlier => pc[j] \in Earlier
        /\ pc'[j] \in {"tgPoll", "register"} => pc[j] \in Earlier \cup {"tgPoll", "register"}
        /\ pc'[j] = "tgPoll" => pc[j] = "tgPoll"
        /\ pc[j] \in HasSession => pc'[j] \in HasSession
  BY <1>p DEF Earlier, HasSession
<1>2. UNCHANGED <<token, route>>
  BY DEF FreeTelegram, mine
<1>3. CASE UNCHANGED <<box, sessions>>
  BY <1>f, <1>1, <1>2, <1>3, CalmSessions
<1>4. CASE SetBox(Telegram, Gone) /\ sessions' = {}
  <2>1. box'[Telegram] = Gone
    BY <1>4 DEF SetBox, TypeInv, Containers
  <2> QED
    BY <1>1, <1>2, <1>4, <2>1, GoneSessions
<1> QED
  BY <1>3, <1>4 DEF FreeTelegram

LEMMA HostSessions ==
  ASSUME TypeInv, StarterInv, SessionInv, [Next]_vars, HostStep
  PROVE  StarterInv' /\ SessionInv'
<1>f. faults \subseteq faults'
  BY FaultsStay
<1>p. UNCHANGED <<pc, route, token>>
  BY HostMine DEF mine
<1>c. ASSUME UNCHANGED sessions, box'[Telegram].by = box[Telegram].by,
             box'[Telegram].state = box[Telegram].state
               \/ (box[Telegram].state = "booting" /\ box'[Telegram].state = "serving")
      PROVE  StarterInv' /\ SessionInv'
  BY <1>f, <1>p, <1>c, CalmSessions
<1>t. Telegram \in Containers /\ box[Telegram] \in Box /\ box[Telegram].mode = "bridge"
  BY DEF TypeInv, Containers
<1>1. ASSUME NEW c \in Containers, Listen(c) PROVE StarterInv' /\ SessionInv'
  <2>0. UNCHANGED sessions
    BY <1>1 DEF Listen
  <2>1. CASE c = Telegram
    <3>1. box'[Telegram] = [box[Telegram] EXCEPT !.state = "serving"]
          /\ box[Telegram].state = "booting"
      BY <1>1, <1>t, <2>1 DEF Listen, SetBox, TypeInv
    <3>2. box'[Telegram].by = box[Telegram].by /\ box'[Telegram].state = "serving"
      BY <1>t, <3>1, Serving
    <3> QED
      BY <1>c, <2>0, <3>1, <3>2
  <2>2. CASE c # Telegram
    <3>1. box'[Telegram] = box[Telegram]
      BY <1>1, <1>t, <2>2 DEF Listen, SetBox, TypeInv
    <3> QED
      BY <1>c, <2>0, <3>1
  <2> QED
    BY <2>1, <2>2
<1>2. ASSUME NEW c \in Containers, Die(c) PROVE StarterInv' /\ SessionInv'
  <2>1. CASE c = Telegram
    <3>1. box'[Telegram] = Gone /\ sessions' = {}
      BY <1>2, <1>t, <2>1 DEF Die, SetBox, TypeInv
    <3> QED
      BY <1>p, <3>1, GoneSessions
  <2>2. CASE c # Telegram
    <3>1. box'[Telegram] = box[Telegram] /\ UNCHANGED sessions
      BY <1>2, <1>t, <2>2 DEF Die, SetBox, TypeInv
    <3> QED
      BY <1>c, <3>1
  <2> QED
    BY <2>1, <2>2
<1>3. ASSUME NEW c \in Containers, TakeOff(c) PROVE StarterInv' /\ SessionInv'
  <2>0. UNCHANGED sessions
    BY <1>3 DEF TakeOff
  <2>1. CASE c = Telegram
    <3>1. box'[Telegram] = [box[Telegram] EXCEPT !.joined = FALSE]
      BY <1>3, <1>t, <2>1 DEF TakeOff, SetBox, TypeInv
    <3>2. box'[Telegram].by = box[Telegram].by /\ box'[Telegram].state = box[Telegram].state
      BY <1>t, <3>1, OffNetwork
    <3> QED
      BY <1>c, <2>0, <3>2
  <2>2. CASE c # Telegram
    <3>1. box'[Telegram] = box[Telegram]
      BY <1>3, <1>t, <2>2 DEF TakeOff, SetBox, TypeInv
    <3> QED
      BY <1>c, <2>0, <3>1
  <2> QED
    BY <2>1, <2>2
<1>4. CASE (\E p \in Ports : ForeignTakes(p)) \/ (\E i \in Launches : ScriptStep(i))
           \/ ForeignLeaves \/ RemoveNetwork
  <2>1. UNCHANGED <<box, sessions>>
    BY <1>4 DEF ForeignTakes, ScriptStep, Spawn, Escape, Ends, ForeignLeaves, RemoveNetwork, docker
  <2> QED
    BY <1>c, <2>1
<1> QED
  BY <1>1, <1>2, <1>3, <1>4 DEF HostStep

LEMMA NextSessions ==
  TypeInv /\ StarterInv /\ SessionInv /\ [Next]_vars => StarterInv' /\ SessionInv'
<1> SUFFICES ASSUME TypeInv, StarterInv, SessionInv, [Next]_vars
             PROVE  StarterInv' /\ SessionInv'
  OBVIOUS
<1>1. ASSUME NEW i \in Launches, LaunchStep(i) PROVE StarterInv' /\ SessionInv'
  BY <1>1, OtherSessions, StartTelegramSessions, TelegramFailedSessions, RegisterSessions,
     OnExitSessions, FreeTelegramSessions DEF LaunchStep
<1>2. CASE HostStep
  BY <1>2, HostSessions
<1>3. CASE UNCHANGED vars
  BY <1>3, CalmSessions DEF vars, docker, mine
<1> QED
  BY <1>1, <1>2, <1>3 DEF Next, Finished

\* SessionsAreOfAgents holds: a token an agent has is good while the container
\* that gave it runs, and no session outlives its launch, for every plan of
\* every set of launches (telegram.py: /register, ensure and on_exit).
THEOREM SessionsAreOfAgentsHolds == Spec => []SessionsAreOfAgents
<1>1. Init => StarterInv /\ SessionInv
  <2> SUFFICES ASSUME Init PROVE StarterInv /\ SessionInv
    OBVIOUS
  <2>1. Telegram \in Containers /\ Gone.by = Nobody /\ Nowhere.by = Nobody /\ Gone.state = "gone"
    BY DEF Containers, Gone, Nowhere
  <2>2. /\ box[Telegram] = Gone /\ sessions = {}
        /\ \A i \in Launches : route[i][Telegram] = Nowhere /\ ~ token[i] /\ pc[i] = "idle"
    BY <2>1 DEF Init
  <2> QED
    BY <2>1, <2>2, NetworkAssumption DEF StarterInv, SessionInv, Running
<1>2. TypeInv /\ SessionInv => SessionsAreOfAgents
  BY DEF SessionInv, SessionsAreOfAgents
<1> QED
  BY <1>1, <1>2, InitType, NextType, NextSessions, PTL DEF Spec

-----------------------------------------------------------------------------
(* The ways to the containers.                                             *)

Proxy(i) == plan[i].proxy

\* How an agent gets to a container of a mode.
Via(i, m) ==
  IF m = "host" THEN IF InHostNetns(i) THEN "loopback" ELSE "gateway"
  ELSE IF InHostNetns(i) THEN "address" ELSE "name"

BeforePoll == {"idle", "waitHi", "network", "proxy", "start"}
Connected == {"tgNetwork", "telegram", "tgPoll", "register", "script", "scripting", "grace",
              "launch", "agent"}

\* Two proxies do not listen on one port of the host.
HostPorts ==
  \A c, d \in LiteLLM :
    /\ box[c].state = "serving" /\ box[d].state = "serving"
    /\ box[c].mode = "host" /\ box[d].mode = "host" /\ box[c].port = box[d].port
    => c = d

\* A proxy is started only when there is none, and what is found of one says
\* how it runs.
FoundInv ==
  \A i \in Launches :
    /\ pc[i] = "start" => ~ Running(Proxy(i))
    /\ pc[i] \in {"poll", "connect"} /\ Running(Proxy(i)) =>
         box[Proxy(i)].mode = found[i].mode /\ box[Proxy(i)].port = found[i].port

\* A launch that has yet to start its proxy did not start one there is, and no
\* agent was led to one of its making.
FreshInv ==
  \A i \in Launches : pc[i] \in BeforePoll =>
    /\ \A c \in LiteLLM : box[c].by # i
    /\ \A j \in Launches : route[j][Proxy(j)].by # i

\* The way to a proxy that still runs is the one for its mode and port; the way
\* to the Telegram container is always the same.
WayToProxy(i) ==
  Running(Proxy(i)) /\ box[Proxy(i)].by = route[i][Proxy(i)].by =>
    /\ route[i][Proxy(i)].via = Via(i, box[Proxy(i)].mode)
    /\ route[i][Proxy(i)].port = box[Proxy(i)].port
WayToTelegram(i) ==
  \/ route[i][Telegram] = Nowhere
  \/ route[i][Telegram].via = Via(i, "bridge") /\ route[i][Telegram].port = 0
RouteInv == \A i \in Launches : WayToProxy(i) /\ WayToTelegram(i)

\* Unless one was left behind, a proxy that boots on the host's network is
\* waited for by the launch that holds the lock,
BootInv ==
  ~ orphaned => \A c \in LiteLLM : box[c].state = "booting" /\ box[c].mode = "host" =>
    lock \in Launches /\ pc[lock] = "poll" /\ Proxy(lock) = c

\* and the port it is given is no other's.
AloneInv ==
  ~ orphaned => \A i \in Launches : pc[i] \in {"start", "poll"} /\ found[i].mode = "host" =>
    \A d \in LiteLLM : Running(d) /\ box[d].mode = "host" /\ box[d].port = found[i].port =>
      d = Proxy(i)

\* Without a death, a proxy on the host's network that a launch is connected to
\* serves as long as its agent may need it.
HeldInv ==
  ~ orphaned /\ "death" \notin faults => \A i \in Launches :
    /\ pc[i] = "connect" /\ found[i].mode = "host" => box[Proxy(i)].state = "serving"
    /\ pc[i] \in Connected /\ route[i][Proxy(i)].via \in {"loopback", "gateway"} =>
         /\ box[Proxy(i)].state = "serving" /\ box[Proxy(i)].mode = "host"
         /\ box[Proxy(i)].port = route[i][Proxy(i)].port

NetInv ==
  /\ HostPorts /\ FoundInv /\ FreshInv /\ RouteInv
  /\ BootInv /\ AloneInv /\ HeldInv

\* What a launch declares does not change.
LEMMA PlanStays ==
  ASSUME TypeInv, plan' = plan, NEW i \in Launches
  PROVE  /\ Proxy(i)' = Proxy(i) /\ Proxy(i) \in LiteLLM /\ Proxy(i) \in Containers
         /\ Proxy(i) # Telegram /\ InHostNetns(i)' = InHostNetns(i)
<1>1. Proxy(i)' = Proxy(i)
  BY DEF Proxy
<1>2. InHostNetns(i)' = InHostNetns(i)
  BY DEF InHostNetns, UseHostNet, Network
<1> QED
  BY <1>1, <1>2, PlanType DEF Proxy

LEMMA NowhereIs ==
  Nowhere.by = Nobody /\ Nowhere.via = "nowhere" /\ Nobody \notin Launches
BY NetworkAssumption DEF Nowhere

Away == {"exit", "done", "killed", "waitLo", "freeTelegram", "freeProxy"}

\* Where a step takes a launch that gets no closer to its proxy.
Aside(a, b) ==
  \/ a = b \/ b \in Away
  \/ a \in BeforePoll /\ b \in BeforePoll \ {"start"}
  \/ a \in Connected /\ b \in Connected

LEMMA AsideKeeps ==
  ASSUME NEW a, NEW b, Aside(a, b)
  PROVE  /\ b \in BeforePoll => a \in BeforePoll
         /\ b \in Connected => a \in Connected
         /\ b = "start" => a = "start"
         /\ b = "poll" => a = "poll"
         /\ b = "connect" => a = "connect"
BY DEF Aside, Away, BeforePoll, Connected

\* A step in which no proxy starts or goes, and a launch that has polled its
\* own goes on if it serves.
LEMMA CalmNet ==
  ASSUME TypeInv, TypeInv', NetInv, UNCHANGED <<plan, found>>,
         faults \subseteq faults', orphaned => orphaned', HostPorts', BootInv',
         \A c \in LiteLLM :
           /\ box'[c].mode = box[c].mode /\ box'[c].port = box[c].port /\ box'[c].by = box[c].by
           /\ \/ box'[c].state = box[c].state
              \/ box[c].state = "booting" /\ box'[c].state = "serving",
         \A i \in Launches :
           /\ route'[i][Proxy(i)] = route[i][Proxy(i)] \/ route'[i][Proxy(i)] = Nowhere
           /\ WayToTelegram(i)'
           /\ \/ Aside(pc[i], pc'[i])
              \/ /\ pc[i] = "poll" /\ pc'[i] = "connect"
                 /\ ~ orphaned /\ found[i].mode = "host" => box'[Proxy(i)].state = "serving"
  PROVE  NetInv'
<1>p. \A i \in Launches : Proxy(i)' = Proxy(i) /\ Proxy(i) \in LiteLLM
                          /\ InHostNetns(i)' = InHostNetns(i)
  BY PlanStays
<1>m. ASSUME NEW i \in Launches
      PROVE  /\ pc'[i] \in BeforePoll => pc[i] \in BeforePoll
             /\ pc'[i] \in Connected => pc[i] \in Connected
             /\ pc'[i] = "start" => pc[i] = "start"
             /\ pc'[i] = "poll" => pc[i] = "poll"
             /\ pc'[i] = "connect" => pc[i] \in {"poll", "connect"}
  <2>1. CASE Aside(pc[i], pc'[i])
    BY <2>1, AsideKeeps
  <2>2. CASE pc[i] = "poll" /\ pc'[i] = "connect"
    BY <2>2 DEF BeforePoll, Connected
  <2> QED
    BY <2>1, <2>2
<1>1. FoundInv'
  BY <1>p, <1>m DEF NetInv, FoundInv, Running
<1>2. FreshInv'
  BY <1>p, <1>m, NowhereIs DEF NetInv, FreshInv
<1>3. ASSUME NEW i \in Launches PROVE WayToProxy(i)'
  <2> SUFFICES ASSUME Running(Proxy(i))', box'[Proxy(i)].by = route'[i][Proxy(i)].by
               PROVE  /\ route'[i][Proxy(i)].via = Via(i, box[Proxy(i)].mode)'
                      /\ route'[i][Proxy(i)].port = box'[Proxy(i)].port
    BY <1>p DEF WayToProxy
  <2>0. Proxy(i) \in LiteLLM /\ box'[Proxy(i)].state # "gone"
    BY <1>p DEF Running
  <2>1. Running(Proxy(i)) /\ box'[Proxy(i)].by \in Launches
    <3>1. Running(Proxy(i))
      BY <2>0 DEF Running
    <3>2. \A c \in LiteLLM : box'[c].state # "gone" => box'[c].by \in Launches
      BY DEF Running, TypeInv, Containers
    <3> QED
      BY <2>0, <3>1, <3>2
  <2>2. route'[i][Proxy(i)] = route[i][Proxy(i)]
    BY <2>1, NowhereIs
  <2>3. WayToProxy(i)
    BY DEF NetInv, RouteInv
  <2> QED
    BY <1>p, <2>1, <2>2, <2>3 DEF WayToProxy, Via
<1>4. AloneInv'
  BY <1>p, <1>m DEF NetInv, AloneInv, Running
<1>5. HeldInv'
  <2> SUFFICES ASSUME ~ orphaned', "death" \notin faults', NEW i \in Launches
               PROVE  /\ pc'[i] = "connect" /\ found'[i].mode = "host" =>
                           box'[Proxy(i)].state = "serving"
                      /\ pc'[i] \in Connected /\ route'[i][Proxy(i)].via \in {"loopback", "gateway"} =>
                           /\ box'[Proxy(i)].state = "serving" /\ box'[Proxy(i)].mode = "host"
                           /\ box'[Proxy(i)].port = route'[i][Proxy(i)].port
    BY <1>p DEF HeldInv
  <2>1. ~ orphaned /\ "death" \notin faults
    OBVIOUS
  <2>2. ASSUME pc'[i] = "connect", found'[i].mode = "host" PROVE box'[Proxy(i)].state = "serving"
    <3>1. CASE Aside(pc[i], pc'[i])
      BY <1>p, <2>1, <2>2, <3>1, AsideKeeps DEF NetInv, HeldInv
    <3>2. CASE ~ Aside(pc[i], pc'[i])
      BY <2>1, <2>2, <3>2
    <3> QED
      BY <3>1, <3>2
  <2>3. ASSUME pc'[i] \in Connected, route'[i][Proxy(i)].via \in {"loopback", "gateway"}
        PROVE  /\ box'[Proxy(i)].state = "serving" /\ box'[Proxy(i)].mode = "host"
               /\ box'[Proxy(i)].port = route'[i][Proxy(i)].port
    <3>1. route'[i][Proxy(i)] = route[i][Proxy(i)] /\ pc[i] \in Connected
      BY <1>m, <2>3, NowhereIs
    <3> QED
      BY <1>p, <2>1, <2>3, <3>1 DEF NetInv, HeldInv
  <2> QED
    BY <2>2, <2>3
<1> QED
  BY <1>1, <1>2, <1>3, <1>4, <1>5 DEF NetInv, RouteInv

\* A proxy goes that no launch depends on, or by its own death.
LEMMA GoneNet ==
  ASSUME TypeInv, TypeInv', NetInv, UNCHANGED <<plan, found, route>>,
         faults \subseteq faults', orphaned => orphaned', BootInv',
         NEW c \in LiteLLM, box'[c] = Gone, \A d \in LiteLLM \ {c} : box'[d] = box[d],
         \A i \in Launches : Aside(pc[i], pc'[i]),
         ~ orphaned /\ "death" \notin faults' => \A i \in Launches : Proxy(i) = c =>
           /\ ~ (pc[i] = "connect" /\ found[i].mode = "host")
           /\ ~ (pc'[i] \in Connected /\ route[i][c].via \in {"loopback", "gateway"}
                 /\ box[c].state = "serving" /\ box[c].mode = "host")
  PROVE  NetInv'
<1>p. \A i \in Launches : Proxy(i)' = Proxy(i) /\ Proxy(i) \in LiteLLM
                          /\ InHostNetns(i)' = InHostNetns(i)
  BY PlanStays
<1>m. \A i \in Launches :
        /\ pc'[i] \in BeforePoll => pc[i] \in BeforePoll
        /\ pc'[i] \in Connected => pc[i] \in Connected
        /\ pc'[i] = "start" => pc[i] = "start"
        /\ pc'[i] = "poll" => pc[i] = "poll"
        /\ pc'[i] = "connect" => pc[i] = "connect"
  BY AsideKeeps
<1>g. box'[c].state = "gone" /\ box'[c].by = Nobody /\ Nobody \notin Launches
  BY GoneType, NetworkAssumption
<1>1. HostPorts'
  BY <1>g DEF NetInv, HostPorts
<1>2. FoundInv'
  BY <1>p, <1>m, <1>g DEF NetInv, FoundInv, Running
<1>3. FreshInv'
  BY <1>p, <1>m, <1>g DEF NetInv, FreshInv
<1>4. ASSUME NEW i \in Launches PROVE WayToProxy(i)' /\ WayToTelegram(i)'
  <2>1. WayToProxy(i) /\ WayToTelegram(i)
    BY DEF NetInv, RouteInv
  <2>2. WayToProxy(i)'
    BY <1>p, <1>g, <2>1 DEF WayToProxy, Via, Running
  <2>3. WayToTelegram(i)'
    BY <1>p, <2>1 DEF WayToTelegram, Via
  <2> QED
    BY <2>2, <2>3
<1>5. AloneInv'
  BY <1>p, <1>m, <1>g DEF NetInv, AloneInv, Running
<1>6. HeldInv'
  <2> SUFFICES ASSUME ~ orphaned', "death" \notin faults', NEW i \in Launches
               PROVE  /\ pc'[i] = "connect" /\ found[i].mode = "host" =>
                           box'[Proxy(i)].state = "serving"
                      /\ pc'[i] \in Connected /\ route[i][Proxy(i)].via \in {"loopback", "gateway"} =>
                           /\ box'[Proxy(i)].state = "serving" /\ box'[Proxy(i)].mode = "host"
                           /\ box'[Proxy(i)].port = route[i][Proxy(i)].port
    BY <1>p DEF HeldInv
  <2>1. ~ orphaned /\ "death" \notin faults
    OBVIOUS
  <2>2. /\ pc[i] = "connect" /\ found[i].mode = "host" => box[Proxy(i)].state = "serving"
        /\ pc[i] \in Connected /\ route[i][Proxy(i)].via \in {"loopback", "gateway"} =>
             /\ box[Proxy(i)].state = "serving" /\ box[Proxy(i)].mode = "host"
             /\ box[Proxy(i)].port = route[i][Proxy(i)].port
    BY <2>1 DEF NetInv, HeldInv
  <2>3. CASE Proxy(i) = c
    BY <1>m, <2>1, <2>2, <2>3
  <2>4. CASE Proxy(i) # c
    <3>1. box'[Proxy(i)] = box[Proxy(i)]
      BY <1>p, <2>4
    <3> QED
      BY <1>m, <2>2, <3>1
  <2> QED
    BY <2>3, <2>4
<1> QED
  BY <1>1, <1>2, <1>3, <1>4, <1>5, <1>6 DEF NetInv, RouteInv

\* Who holds the lock and does not poll knows that nothing boots on the host's
\* network, and so does everybody while it is free.
LEMMA NoneBoots ==
  ASSUME TypeInv, BootInv, ~ orphaned,
         lock = Nobody \/ \E i \in Launches : pc[i] \in Locked \ {"poll"}
  PROVE  \A c \in LiteLLM : ~ (box[c].state = "booting" /\ box[c].mode = "host")
BY NetworkAssumption DEF TypeInv, BootInv

\* What a step must keep of who waits for whom.
LEMMA BootStays ==
  ASSUME TypeInv, BootInv, plan' = plan, orphaned => orphaned',
         \A c \in LiteLLM : box'[c].state = "booting" /\ box'[c].mode = "host" =>
           box[c].state = "booting" /\ box[c].mode = "host",
         \/ lock = Nobody \/ \E i \in Launches : pc[i] \in Locked \ {"poll"}
         \/ lock' = lock /\ \A j \in Launches : pc[j] = "poll" => pc'[j] = "poll"
  PROVE  BootInv'
<1>1. CASE lock = Nobody \/ \E i \in Launches : pc[i] \in Locked \ {"poll"}
  BY <1>1, NoneBoots DEF BootInv
<1>2. CASE lock' = lock /\ \A j \in Launches : pc[j] = "poll" => pc'[j] = "poll"
  <2> SUFFICES ASSUME ~ orphaned', NEW c \in LiteLLM, box'[c].state = "booting", box'[c].mode = "host"
               PROVE  lock' \in Launches /\ pc'[lock'] = "poll" /\ Proxy(lock)' = c
    BY DEF BootInv
  <2>1. lock \in Launches /\ pc[lock] = "poll" /\ Proxy(lock) = c
    BY DEF BootInv
  <2>2. Proxy(lock)' = c
    BY <1>2, <2>1 DEF Proxy
  <2> QED
    BY <1>2, <2>1, <2>2
<1> QED
  BY <1>1, <1>2

LEMMA GivenUp ==
  ASSUME GiveUp, \A c \in LiteLLM : box'[c] = box[c]
  PROVE  BootInv'
BY DEF GiveUp, BootInv

LEMMA PortsStay ==
  ASSUME NetInv, \A c \in LiteLLM : box'[c].state = "serving" => box'[c] = box[c]
  PROVE  HostPorts'
BY DEF NetInv, HostPorts

-----------------------------------------------------------------------------
(* The ways to the containers: the steps.                                  *)

LEMMA RouteStays ==
  ASSUME TypeInv, NetInv, UNCHANGED <<plan, route>>, NEW j \in Launches
  PROVE  WayToTelegram(j)'
<1>1. WayToTelegram(j)
  BY DEF NetInv, RouteInv
<1> QED
  BY <1>1, PlanStays DEF WayToTelegram, Via

\* A step of a launch that leaves the proxies alone and gets no closer to one.
LEMMA QuietNet ==
  ASSUME TypeInv, TypeInv', NetInv, [Next]_vars, NEW i \in Launches,
         UNCHANGED <<plan, found>>, \A c \in LiteLLM : box'[c] = box[c],
         \A j \in Launches \ {i} : pc'[j] = pc[j], Aside(pc[i], pc'[i]),
         GiveUp \/ lock = Nobody \/ pc[i] \in Locked \ {"poll"} \/ (lock' = lock /\ pc[i] # "poll"),
         \A j \in Launches :
           /\ route'[j][Proxy(j)] = route[j][Proxy(j)] \/ route'[j][Proxy(j)] = Nowhere
           /\ WayToTelegram(j)'
  PROVE  NetInv'
<1>1. faults \subseteq faults' /\ (orphaned => orphaned')
  BY FaultsStay, OrphansStay
<1>2. HostPorts'
  BY PortsStay
<1>3. BootInv'
  <2>1. CASE GiveUp
    BY <2>1, GivenUp
  <2>2. CASE ~ GiveUp
    BY <1>1, <2>2, BootStays DEF NetInv
  <2> QED
    BY <2>1, <2>2
<1>4. \A j \in Launches : Aside(pc[j], pc'[j])
  BY DEF Aside
<1> QED
  BY <1>1, <1>2, <1>3, <1>4, CalmNet

LEMMA AwayFromProxies ==
  ASSUME TypeInv, TypeInv', NetInv, [Next]_vars, NEW i \in Launches, LaunchStep(i),
         \/ Refuse(i) \/ Accept(i) \/ HiEnter(i) \/ Fail(i) \/ EnsureNetwork(i) \/ NoPort(i)
         \/ PollFailed(i) \/ AdoptTelegram(i) \/ TelegramHealthy(i) \/ NoScript(i) \/ RunScript(i)
         \/ ScriptExits(i) \/ StopScript(i) \/ KillScript(i) \/ CutShort(i) \/ RunAgent(i)
         \/ AgentExits(i) \/ LoEnter(i) \/ Kill(i)
  PROVE  NetInv'
<1>o. \A j \in Launches \ {i} : pc'[j] = pc[j]
  BY LaunchMoves
<1>u. UNCHANGED <<plan, found, route, box>>
  <2>1. CASE Refuse(i) \/ Accept(i) \/ HiEnter(i) \/ Fail(i) \/ EnsureNetwork(i) \/ NoPort(i)
             \/ PollFailed(i) \/ AdoptTelegram(i) \/ TelegramHealthy(i) \/ NoScript(i)
    BY <2>1 DEF Refuse, RefuseHere, RefuseProvider, RefuseUpdate, RefuseDocker, RefuseDockerfile,
       RefuseImage, RefuseDirective, RefuseSecrets, Stay, Accept, HiEnter, Fail, EnsureNetwork,
       NoPort, PollFailed, AdoptTelegram, TelegramHealthy, NoScript, docker, mine
  <2>2. CASE RunScript(i) \/ ScriptExits(i) \/ StopScript(i) \/ KillScript(i) \/ CutShort(i)
             \/ RunAgent(i) \/ AgentExits(i) \/ LoEnter(i) \/ Kill(i)
    BY <2>2 DEF RunScript, ScriptExits, StopScript, KillScript, CutShort, RunAgent, AgentExits,
       LoEnter, Kill, docker, mine
  <2> QED
    BY <2>1, <2>2
<1>p. ASSUME NEW a, NEW b, pc[i] = a, Goto(i, b), Aside(a, b) PROVE Aside(pc[i], pc'[i])
  BY <1>p DEF Goto, TypeInv
<1>e. \A a : Aside(a, "exit") /\ Aside(a, "done") /\ Aside(a, "killed") /\ Aside(a, "freeTelegram")
  BY DEF Aside, Away
<1>1. Aside(pc[i], pc'[i])
  <2>1. CASE Refuse(i) \/ Fail(i) \/ NoPort(i) \/ PollFailed(i) \/ KillScript(i) \/ CutShort(i)
             \/ AgentExits(i) \/ LoEnter(i) \/ Kill(i)
    <3>1. \E b \in {"exit", "done", "killed", "freeTelegram"} : Goto(i, b)
      BY <2>1 DEF Refuse, RefuseHere, RefuseProvider, RefuseUpdate, RefuseDocker, RefuseDockerfile,
         RefuseImage, RefuseDirective, RefuseSecrets, Stay, Fail, NoPort, PollFailed, KillScript,
         CutShort, AgentExits, LoEnter, Kill
    <3> QED
      BY <1>p, <1>e, <3>1
  <2>2. CASE Accept(i) \/ HiEnter(i) \/ EnsureNetwork(i)
    <3>1. \/ pc[i] \in {"idle", "waitHi", "network"}
             /\ \E b \in {"waitHi", "network", "proxy"} : Goto(i, b)
          \/ pc[i] = "tgNetwork" /\ Goto(i, "telegram")
      BY <2>2 DEF Accept, HiEnter, EnsureNetwork
    <3> QED
      BY <1>p, <3>1 DEF Aside, BeforePoll, Connected
  <2>3. CASE AdoptTelegram(i) \/ TelegramHealthy(i) \/ NoScript(i) \/ RunScript(i)
             \/ ScriptExits(i) \/ StopScript(i) \/ RunAgent(i)
    <3>1. /\ pc[i] \in {"telegram", "tgPoll", "script", "scripting", "launch"}
          /\ \E b \in {"register", "launch", "scripting", "grace", "agent", "exit"} : Goto(i, b)
      BY <2>3 DEF AdoptTelegram, TelegramHealthy, NoScript, RunScript, ScriptExits, StopScript,
         RunAgent, LeaveLock
    <3> QED
      BY <1>p, <3>1 DEF Aside, Connected, Away
  <2> QED
    BY <2>1, <2>2, <2>3
<1>2. GiveUp \/ lock = Nobody \/ pc[i] \in Locked \ {"poll"} \/ (lock' = lock /\ pc[i] # "poll")
  <2>1. CASE Refuse(i) \/ Accept(i) \/ HiEnter(i) \/ Fail(i) \/ EnsureNetwork(i) \/ NoPort(i)
             \/ PollFailed(i) \/ AdoptTelegram(i) \/ TelegramHealthy(i) \/ NoScript(i)
    BY <2>1 DEF Refuse, RefuseHere, RefuseProvider, RefuseUpdate, RefuseDocker, RefuseDockerfile,
       RefuseImage, RefuseDirective, RefuseSecrets, Stay, Accept, HiEnter, Fail, EnsureNetwork,
       NoPort, PollFailed, AdoptTelegram, TelegramHealthy, NoScript, Locked, HiPcs
  <2>2. CASE RunScript(i) \/ ScriptExits(i) \/ StopScript(i) \/ KillScript(i) \/ CutShort(i)
             \/ RunAgent(i) \/ AgentExits(i) \/ LoEnter(i)
    BY <2>2 DEF RunScript, ScriptExits, StopScript, KillScript, CutShort, RunAgent, AgentExits,
       LoEnter, Locked, HiPcs
  <2>3. CASE Kill(i)
    <3>1. pc[i] = "poll" => lock = i
      BY DEF TypeInv, Locked, HiPcs
    <3> QED
      BY <2>3, <3>1 DEF Kill
  <2> QED
    BY <2>1, <2>2, <2>3
<1> QED
  BY <1>o, <1>u, <1>1, <1>2, RouteStays, QuietNet

\* The Telegram container is not on the host's network, and nobody is led to it
\* in another way than for that.
LEMMA TelegramNet ==
  ASSUME TypeInv, TypeInv', NetInv, [Next]_vars, NEW i \in Launches, LaunchStep(i),
         StartTelegram(i) \/ TelegramFailed(i) \/ FreeTelegram(i)
  PROVE  NetInv'
<1>o. \A j \in Launches \ {i} : pc'[j] = pc[j]
  BY LaunchMoves
<1>u. UNCHANGED <<plan, found, route>>
  BY DEF StartTelegram, TelegramFailed, FreeTelegram, mine
<1>b. \A c \in LiteLLM : box'[c] = box[c]
  <2>1. UNCHANGED box \/ \E b : SetBox(Telegram, b)
    BY DEF StartTelegram, TelegramFailed, FreeTelegram
  <2> QED
    BY <2>1, NetworkAssumption DEF SetBox, TypeInv, Containers
<1>1. /\ pc[i] \in {"telegram", "tgPoll", "freeTelegram"}
      /\ \E b \in {"tgPoll", "exit", "freeProxy"} : Goto(i, b) /\ (b = "tgPoll" => pc[i] = "telegram")
  BY DEF StartTelegram, TelegramFailed, FreeTelegram
<1>2. Aside(pc[i], pc'[i]) /\ pc[i] \in Locked \ {"poll"}
  BY <1>1 DEF Goto, TypeInv, Aside, Away, Connected, Locked, HiPcs
<1> QED
  BY <1>o, <1>u, <1>b, <1>2, RouteStays, QuietNet

LEMMA RegisterNet ==
  ASSUME TypeInv, TypeInv', NetInv, [Next]_vars, NEW i \in Launches, LaunchStep(i), Register(i)
  PROVE  NetInv'
<1>o. \A j \in Launches \ {i} : pc'[j] = pc[j]
  BY LaunchMoves
<1>u. UNCHANGED <<plan, found, box>> /\ pc[i] = "register" /\ Goto(i, "script")
  BY DEF Register, docker
<1>1. Aside(pc[i], pc'[i]) /\ pc[i] \in Locked \ {"poll"}
  BY <1>u DEF Goto, TypeInv, Aside, Connected, Locked, HiPcs
<1>2. \A j \in Launches : Proxy(j) \in Containers /\ Proxy(j) # Telegram /\ Telegram \in Containers
  BY <1>u, PlanStays DEF Containers
<1> DEFINE r == IF ~InHostNetns(i) THEN [via |-> "name", port |-> 0, by |-> box[Telegram].by]
                ELSE IF box[Telegram].joined
                THEN [via |-> "address", port |-> 0, by |-> box[Telegram].by]
                ELSE Nowhere
<1>3. route' = [route EXCEPT ![i] = [route[i] EXCEPT ![Telegram] = r]]
  BY DEF Register, SetRoute
<1>4. r = Nowhere \/ (r.via = Via(i, "bridge") /\ r.port = 0)
  BY DEF Via
<1> HIDE DEF r
<1>5. route[i] \in [Containers -> Route]
  BY DEF TypeInv
<1>6. route'[i][Telegram] = r /\ route'[i][Proxy(i)] = route[i][Proxy(i)]
      /\ \A j \in Launches \ {i} : route'[j] = route[j]
  BY <1>2, <1>3, <1>5 DEF TypeInv
<1>7. ASSUME NEW j \in Launches
      PROVE  route'[j][Proxy(j)] = route[j][Proxy(j)] /\ WayToTelegram(j)'
  <2>0. InHostNetns(j)' = InHostNetns(j) /\ WayToTelegram(j)
    BY <1>u, PlanStays DEF NetInv, RouteInv
  <2>1. CASE j = i
    BY <1>4, <1>6, <2>0, <2>1 DEF WayToTelegram, Via
  <2>2. CASE j # i
    BY <1>6, <2>0, <2>2 DEF WayToTelegram, Via
  <2> QED
    BY <2>1, <2>2
<1> QED
  BY <1>o, <1>u, <1>1, <1>7, QuietNet

LEMMA OnExitNet ==
  ASSUME TypeInv, TypeInv', NetInv, [Next]_vars, NEW i \in Launches, LaunchStep(i), OnExit(i)
  PROVE  NetInv'
<1>o. \A j \in Launches \ {i} : pc'[j] = pc[j]
  BY LaunchMoves
<1>u. /\ UNCHANGED <<plan, found, box, lock>> /\ pc[i] = "exit" /\ Goto(i, "waitLo")
      /\ route' = [route EXCEPT ![i] = [c \in Containers |-> Nowhere]]
  BY DEF OnExit, docker
<1>1. Aside(pc[i], pc'[i]) /\ pc[i] # "poll"
  BY <1>u DEF Goto, TypeInv, Aside, Away
<1>2. ASSUME NEW j \in Launches
      PROVE  /\ route'[j][Proxy(j)] = route[j][Proxy(j)] \/ route'[j][Proxy(j)] = Nowhere
             /\ WayToTelegram(j)'
  <2>0. InHostNetns(j)' = InHostNetns(j) /\ WayToTelegram(j)
        /\ Proxy(j) \in Containers /\ Telegram \in Containers
    BY <1>u, PlanStays DEF NetInv, RouteInv, Containers
  <2>1. CASE j = i
    BY <1>u, <2>0, <2>1 DEF WayToTelegram, TypeInv
  <2>2. CASE j # i
    <3>1. route'[j] = route[j]
      BY <1>u, <2>2 DEF TypeInv
    <3> QED
      BY <2>0, <3>1 DEF WayToTelegram, Via
  <2> QED
    BY <2>1, <2>2
<1> QED
  BY <1>o, <1>u, <1>1, <1>2, QuietNet

\* Who holds the lock is alone where it is held.
LEMMA LockedAlone ==
  ASSUME TypeInv, NEW i \in Launches, pc[i] \in Locked
  PROVE  lock = i /\ \A j \in Launches \ {i} : pc[j] \notin Locked
BY DEF TypeInv

LEMMA PollHealthyNet ==
  ASSUME TypeInv, TypeInv', NetInv, [Next]_vars, NEW i \in Launches, LaunchStep(i), PollHealthy(i)
  PROVE  NetInv'
<1>o. \A j \in Launches \ {i} : pc'[j] = pc[j]
  BY LaunchMoves
<1>u. /\ UNCHANGED <<plan, found, route, box, lock, orphaned>> /\ pc[i] = "poll" /\ pc'[i] = "connect"
      /\ Running(Proxy(i)) /\ AnswersHealth(Proxy(i))
  BY DEF PollHealthy, docker, mine, Goto, TypeInv, Proxy
<1>p. Proxy(i) \in LiteLLM /\ lock = i
  BY <1>u, PlanStays, LockedAlone DEF Locked, HiPcs
<1>1. ASSUME ~ orphaned, box[Proxy(i)].mode = "host" PROVE box[Proxy(i)].state = "serving"
  <2>1. found[i].mode = "host" /\ found[i].port = box[Proxy(i)].port
    BY <1>u, <1>1 DEF NetInv, FoundInv
  <2>2. PICK d \in LiteLLM : /\ box[d].state = "serving" /\ box[d].mode = "host"
                             /\ box[d].port = box[Proxy(i)].port
    BY <1>u, <1>1 DEF AnswersHealth, OnHost
  <2>3. d = Proxy(i)
    BY <1>u, <1>1, <2>1, <2>2 DEF NetInv, AloneInv, Running
  <2> QED
    BY <2>2, <2>3
<1>2. ASSUME ~ orphaned, found[i].mode = "host" PROVE box'[Proxy(i)].state = "serving"
  BY <1>1, <1>2, <1>u DEF NetInv, FoundInv
<1>3. BootInv'
  <2>1. ASSUME ~ orphaned, NEW c \in LiteLLM, box[c].state = "booting", box[c].mode = "host"
        PROVE  FALSE
    BY <1>1, <1>p, <2>1 DEF NetInv, BootInv
  <2> QED
    BY <1>u, <2>1 DEF BootInv
<1>4. faults \subseteq faults' /\ HostPorts'
  BY <1>u, FaultsStay, PortsStay
<1>5. \A j \in Launches \ {i} : Aside(pc[j], pc'[j])
  BY <1>o DEF Aside
<1>6. \A j \in Launches : WayToTelegram(j)'
  BY <1>u, RouteStays
<1> QED
  BY <1>u, <1>2, <1>3, <1>4, <1>5, <1>6, CalmNet

LEMMA AdoptNet ==
  ASSUME TypeInv, TypeInv', NetInv, [Next]_vars, NEW i \in Launches, LaunchStep(i), Adopt(i)
  PROVE  NetInv'
<1>o. \A j \in Launches \ {i} : pc'[j] = pc[j]
  BY LaunchMoves
<1>u. /\ UNCHANGED <<plan, route, box, lock, orphaned, faults>> /\ pc[i] = "proxy" /\ pc'[i] = "connect"
      /\ Running(Proxy(i)) /\ ~ (pc[i] = "poll")
      /\ found'[i].mode = box[Proxy(i)].mode /\ found'[i].port = box[Proxy(i)].port
      /\ \A j \in Launches \ {i} : found'[j] = found[j]
  BY DEF Adopt, RecoveredPort, docker, mine, Goto, TypeInv, Proxy
<1>p. \A j \in Launches : Proxy(j)' = Proxy(j) /\ Proxy(j) \in LiteLLM /\ Proxy(j) \in Containers
  BY <1>u, PlanStays
<1>l. pc[i] \in Locked \ {"poll"}
  BY <1>u DEF Locked, HiPcs
<1>1. HostPorts'
  BY <1>u, PortsStay
<1>2. FoundInv'
  BY <1>o, <1>u, <1>p DEF NetInv, FoundInv, Running
<1>3. FreshInv'
  <2>1. \A j \in Launches : pc'[j] \in BeforePoll => pc[j] \in BeforePoll
    BY <1>o, <1>u DEF BeforePoll
  <2> QED
    BY <1>u, <1>p, <2>1 DEF NetInv, FreshInv
<1>4. ASSUME NEW j \in Launches PROVE WayToProxy(j)' /\ WayToTelegram(j)'
  <2>1. WayToProxy(j) /\ InHostNetns(j)' = InHostNetns(j)
    BY <1>u, PlanStays DEF NetInv, RouteInv
  <2>2. WayToProxy(j)'
    BY <1>u, <1>p, <2>1 DEF WayToProxy, Via, Running
  <2> QED
    BY <1>u, <2>2, RouteStays
<1>5. BootInv'
  BY <1>u, <1>l, BootStays DEF NetInv
<1>6. AloneInv'
  BY <1>o, <1>u, <1>p DEF NetInv, AloneInv, Running
<1>7. HeldInv'
  <2> SUFFICES ASSUME ~ orphaned, "death" \notin faults, NEW j \in Launches
               PROVE  /\ pc'[j] = "connect" /\ found'[j].mode = "host" => box[Proxy(j)].state = "serving"
                      /\ pc'[j] \in Connected /\ route[j][Proxy(j)].via \in {"loopback", "gateway"} =>
                           /\ box[Proxy(j)].state = "serving" /\ box[Proxy(j)].mode = "host"
                           /\ box[Proxy(j)].port = route[j][Proxy(j)].port
    BY <1>u, <1>p DEF HeldInv
  <2>1. CASE j = i
    <3>1. pc'[i] \notin Connected
      BY <1>u DEF Connected
    <3>2. ASSUME found'[i].mode = "host" PROVE box[Proxy(i)].state = "serving"
      <4>1. box[Proxy(i)].state # "booting"
        BY <1>u, <1>p, <1>l, <3>2, NoneBoots DEF NetInv
      <4>2. box[Proxy(i)].state \in {"gone", "booting", "serving"}
        BY <1>p DEF TypeInv, Box
      <4> QED
        BY <1>u, <4>1, <4>2 DEF Running
    <3> QED
      BY <2>1, <3>1, <3>2
  <2>2. CASE j # i
    BY <1>o, <1>u, <2>2 DEF NetInv, HeldInv
  <2> QED
    BY <2>1, <2>2
<1> QED
  BY <1>1, <1>2, <1>3, <1>4, <1>5, <1>6, <1>7 DEF NetInv, RouteInv

LEMMA ScanPortNet ==
  ASSUME TypeInv, TypeInv', NetInv, [Next]_vars, NEW i \in Launches, LaunchStep(i), ScanPort(i)
  PROVE  NetInv'
<1>o. \A j \in Launches \ {i} : pc'[j] = pc[j]
  BY LaunchMoves
<1>u. /\ UNCHANGED <<plan, route, box, lock, orphaned, faults>> /\ pc[i] = "proxy" /\ pc'[i] = "start"
      /\ ~ Running(Proxy(i)) /\ FreePorts # {}
      /\ found'[i].port = Min(FreePorts)
      /\ \A j \in Launches \ {i} : found'[j] = found[j]
  BY DEF ScanPort, docker, mine, Goto, TypeInv, Proxy
<1>p. \A j \in Launches : Proxy(j)' = Proxy(j) /\ Proxy(j) \in LiteLLM /\ Proxy(j) \in Containers
  BY <1>u, PlanStays
<1>l. pc[i] \in Locked \ {"poll"}
  BY <1>u DEF Locked, HiPcs
<1>1. HostPorts'
  BY <1>u, PortsStay
<1>2. FoundInv'
  BY <1>o, <1>u, <1>p DEF NetInv, FoundInv, Running
<1>3. FreshInv'
  <2>1. \A j \in Launches : pc'[j] \in BeforePoll => pc[j] \in BeforePoll
    BY <1>o, <1>u DEF BeforePoll
  <2> QED
    BY <1>u, <1>p, <2>1 DEF NetInv, FreshInv
<1>4. ASSUME NEW j \in Launches PROVE WayToProxy(j)' /\ WayToTelegram(j)'
  <2>1. WayToProxy(j) /\ InHostNetns(j)' = InHostNetns(j)
    BY <1>u, PlanStays DEF NetInv, RouteInv
  <2>2. WayToProxy(j)'
    BY <1>u, <1>p, <2>1 DEF WayToProxy, Via, Running
  <2> QED
    BY <1>u, <2>2, RouteStays
<1>5. BootInv'
  BY <1>u, <1>l, BootStays DEF NetInv
<1>6. AloneInv'
  <2> SUFFICES ASSUME ~ orphaned, NEW j \in Launches, pc'[j] \in {"start", "poll"},
                      found'[j].mode = "host", NEW d \in LiteLLM,
                      Running(d), box[d].mode = "host", box[d].port = found'[j].port
               PROVE  d = Proxy(j)
    BY <1>u, <1>p DEF AloneInv, Running
  <2>1. CASE j = i
    <3>1. Min(FreePorts) \in FreePorts
      BY <1>u, FreePortType
    <3>2. OnHost(Min(FreePorts)) = {}
      BY <3>1 DEF FreePorts, Taken
    <3>3. box[d].state # "serving"
      BY <1>u, <2>1, <3>2 DEF OnHost
    <3>4. box[d].state # "booting"
      BY <1>l, NoneBoots DEF NetInv
    <3>5. box[d].state \in {"gone", "booting", "serving"}
      BY DEF TypeInv, Box, Containers
    <3> QED
      BY <3>3, <3>4, <3>5 DEF Running
  <2>2. CASE j # i
    BY <1>o, <1>u, <2>2 DEF NetInv, AloneInv
  <2> QED
    BY <2>1, <2>2
<1>7. HeldInv'
  <2>1. pc'[i] \notin Connected /\ pc'[i] # "connect"
    BY <1>u DEF Connected
  <2> QED
    BY <1>o, <1>u, <1>p, <2>1 DEF NetInv, HeldInv
<1> QED
  BY <1>1, <1>2, <1>3, <1>4, <1>5, <1>6, <1>7 DEF NetInv, RouteInv

LEMMA StartNet ==
  ASSUME TypeInv, TypeInv', NetInv, [Next]_vars, NEW i \in Launches, LaunchStep(i), Start(i)
  PROVE  NetInv'
<1>o. \A j \in Launches \ {i} : pc'[j] = pc[j]
  BY LaunchMoves
<1>u. UNCHANGED <<plan, found, route, faults>> /\ pc[i] = "start"
  BY DEF Start, mine
<1>p. \A j \in Launches : Proxy(j)' = Proxy(j) /\ Proxy(j) \in LiteLLM /\ Proxy(j) \in Containers
  BY <1>u, PlanStays
<1>l. pc[i] \in Locked \ {"poll"} /\ lock = i /\ \A j \in Launches \ {i} : pc[j] \notin Locked
  BY <1>u, LockedAlone DEF Locked, HiPcs
<1>1. CASE found[i].mode = "host" \/ netUp
  <2>u. /\ UNCHANGED <<lock, orphaned>> /\ pc'[i] = "poll"
        /\ \A c \in LiteLLM \ {Proxy(i)} : box'[c] = box[c]
        /\ box'[Proxy(i)] = [state |-> "booting", mode |-> found[i].mode, port |-> found[i].port,
                             joined |-> found[i].mode = "bridge", by |-> i]
    BY <1>1, <1>p DEF Start, SetBox, Goto, TypeInv, Proxy, Containers
  <2>b. box'[Proxy(i)].state = "booting" /\ box'[Proxy(i)].mode = found[i].mode
        /\ box'[Proxy(i)].port = found[i].port /\ box'[Proxy(i)].by = i
    BY <2>u
  <2>g. ~ Running(Proxy(i)) /\ i \in Launches /\ pc[i] \in BeforePoll
    BY <1>u DEF NetInv, FoundInv, BeforePoll
  <2>a. \A j \in Launches \ {i} : pc'[j] \notin {"start", "poll", "connect"}
    BY <1>o, <1>l DEF Locked, HiPcs
  <2>1. HostPorts'
    BY <2>b, <2>u, PortsStay
  <2>2. FoundInv'
    BY <1>u, <1>p, <2>a, <2>b, <2>u DEF FoundInv
  <2>3. FreshInv'
    <3>1. \A j \in Launches : pc'[j] \in BeforePoll => j # i /\ pc[j] \in BeforePoll
      BY <1>o, <2>u DEF BeforePoll
    <3> QED
      BY <1>u, <1>p, <2>u, <2>b, <3>1 DEF NetInv, FreshInv
  <2>4. ASSUME NEW j \in Launches PROVE WayToProxy(j)' /\ WayToTelegram(j)'
    <3>1. WayToProxy(j) /\ InHostNetns(j)' = InHostNetns(j)
      BY <1>u, PlanStays DEF NetInv, RouteInv
    <3>2. CASE Proxy(j) = Proxy(i)
      <4>1. route[j][Proxy(j)].by # i
        BY <2>g DEF NetInv, FreshInv
      <4>2. WayToProxy(j)'
        BY <1>u, <1>p, <2>b, <3>2, <4>1 DEF WayToProxy
      <4> QED
        BY <1>u, <4>2, RouteStays
    <3>3. CASE Proxy(j) # Proxy(i)
      <4>1. box'[Proxy(j)] = box[Proxy(j)]
        BY <1>p, <2>u, <3>3
      <4>2. WayToProxy(j)'
        BY <1>u, <1>p, <3>1, <4>1 DEF WayToProxy, Via, Running
      <4> QED
        BY <1>u, <4>2, RouteStays
    <3> QED
      BY <3>2, <3>3
  <2>5. BootInv'
    <3> SUFFICES ASSUME ~ orphaned, NEW c \in LiteLLM, box'[c].state = "booting", box'[c].mode = "host"
                 PROVE  lock' \in Launches /\ pc'[lock'] = "poll" /\ Proxy(lock)' = c
      BY <2>u DEF BootInv
    <3>1. c = Proxy(i)
      BY <1>l, <2>u, NoneBoots DEF NetInv
    <3>2. Proxy(lock)' = Proxy(i)
      BY <1>l, <1>u, <2>u DEF Proxy
    <3> QED
      BY <1>l, <2>u, <3>1, <3>2
  <2>6. AloneInv'
    <3> SUFFICES ASSUME ~ orphaned, NEW j \in Launches, pc'[j] \in {"start", "poll"},
                        found[j].mode = "host", NEW d \in LiteLLM,
                        Running(d)', box'[d].mode = "host", box'[d].port = found[j].port
                 PROVE  d = Proxy(j)
      BY <1>u, <1>p, <2>u DEF AloneInv
    <3>1. j = i
      BY <2>a
    <3>2. CASE d # Proxy(i)
      BY <1>u, <2>u, <3>1, <3>2 DEF NetInv, AloneInv, Running
    <3> QED
      BY <3>1, <3>2
  <2>7. HeldInv'
    <3> SUFFICES ASSUME ~ orphaned, "death" \notin faults, NEW j \in Launches
                 PROVE  /\ pc'[j] # "connect"
                        /\ pc'[j] \in Connected /\ route[j][Proxy(j)].via \in {"loopback", "gateway"} =>
                             /\ box'[Proxy(j)].state = "serving" /\ box'[Proxy(j)].mode = "host"
                             /\ box'[Proxy(j)].port = route[j][Proxy(j)].port
      BY <1>u, <1>p, <2>u DEF HeldInv
    <3>1. pc'[j] # "connect"
      BY <2>a, <2>u
    <3>2. ASSUME pc'[j] \in Connected, route[j][Proxy(j)].via \in {"loopback", "gateway"}
          PROVE  /\ box'[Proxy(j)].state = "serving" /\ box'[Proxy(j)].mode = "host"
                 /\ box'[Proxy(j)].port = route[j][Proxy(j)].port
      <4>1. j # i /\ pc[j] \in Connected
        BY <1>o, <2>u, <3>2 DEF Connected
      <4>2. /\ box[Proxy(j)].state = "serving" /\ box[Proxy(j)].mode = "host"
            /\ box[Proxy(j)].port = route[j][Proxy(j)].port
        BY <3>2, <4>1 DEF NetInv, HeldInv
      <4>3. Proxy(j) # Proxy(i)
        BY <2>g, <4>2 DEF Running
      <4> QED
        BY <1>p, <2>u, <4>2, <4>3
    <3> QED
      BY <3>1, <3>2
  <2> QED
    BY <2>1, <2>2, <2>3, <2>4, <2>5, <2>6, <2>7 DEF NetInv, RouteInv
<1>2. CASE ~ (found[i].mode = "host" \/ netUp)
  <2>1. Goto(i, "exit") /\ GiveUp /\ UNCHANGED box
    BY <1>2 DEF Start
  <2>2. Aside(pc[i], pc'[i])
    BY <2>1 DEF Goto, TypeInv, Aside, Away
  <2> QED
    BY <1>o, <1>u, <2>1, <2>2, RouteStays, QuietNet
<1> QED
  BY <1>1, <1>2

LEMMA ConnectNet ==
  ASSUME TypeInv, TypeInv', NetInv, [Next]_vars, NEW i \in Launches, LaunchStep(i), Connect(i)
  PROVE  NetInv'
<1>o. \A j \in Launches \ {i} : pc'[j] = pc[j]
  BY LaunchMoves
<1>u. UNCHANGED <<plan, box, found, faults>> /\ pc[i] = "connect"
  BY DEF Connect, docker
<1>p. \A j \in Launches : /\ Proxy(j)' = Proxy(j) /\ Proxy(j) \in LiteLLM /\ Proxy(j) \in Containers
                          /\ Proxy(j) # Telegram /\ Telegram \in Containers
  BY <1>u, PlanStays DEF Containers
<1>l. pc[i] \in Locked \ {"poll"} /\ lock = i /\ \A j \in Launches \ {i} : pc[j] \notin Locked
  BY <1>u, LockedAlone DEF Locked, HiPcs
<1> DEFINE r == RouteTo(i, Proxy(i))
<1>r. /\ r.via = Via(i, found[i].mode) /\ r.port = found[i].port /\ r.by = box[Proxy(i)].by
  BY DEF RouteTo, Via
<1>c. \/ Goto(i, "exit") /\ GiveUp /\ UNCHANGED route
      \/ /\ SetRoute(i, Proxy(i), r) /\ UNCHANGED <<lock, orphaned>>
         /\ Goto(i, "tgNetwork") \/ Goto(i, "script")
  BY DEF Connect, Proxy
<1> HIDE DEF r
<1>1. CASE Goto(i, "exit") /\ GiveUp /\ UNCHANGED route
  <2>1. Aside(pc[i], pc'[i])
    BY <1>1 DEF Goto, TypeInv, Aside, Away
  <2> QED
    BY <1>o, <1>u, <1>1, <2>1, RouteStays, QuietNet
<1>2. CASE /\ SetRoute(i, Proxy(i), r) /\ UNCHANGED <<lock, orphaned>>
           /\ Goto(i, "tgNetwork") \/ Goto(i, "script")
  <2>p. pc'[i] \in {"tgNetwork", "script"}
    BY <1>2 DEF Goto, TypeInv
  <2>s. route' = [route EXCEPT ![i] = [route[i] EXCEPT ![Proxy(i)] = r]]
    BY <1>2 DEF SetRoute
  <2>t. route[i] \in [Containers -> Route]
    BY DEF TypeInv
  <2>r. /\ route'[i][Proxy(i)] = r /\ route'[i][Telegram] = route[i][Telegram]
        /\ \A j \in Launches \ {i} : route'[j] = route[j]
    BY <1>p, <2>s, <2>t DEF TypeInv
  <2>m. \A j \in Launches : /\ pc'[j] \in BeforePoll => j # i /\ pc[j] \in BeforePoll
                            /\ pc'[j] \in {"start", "poll", "connect"} => j # i /\ pc'[j] = pc[j]
    BY <1>o, <2>p DEF BeforePoll
  <2>f. Running(Proxy(i)) => box[Proxy(i)].mode = found[i].mode /\ box[Proxy(i)].port = found[i].port
    BY <1>u DEF NetInv, FoundInv
  <2>1. HostPorts'
    BY <1>u, PortsStay
  <2>2. FoundInv'
    BY <1>u, <1>p, <2>m DEF NetInv, FoundInv, Running
  <2>3. FreshInv'
    <3> SUFFICES ASSUME NEW k \in Launches, pc'[k] \in BeforePoll, NEW j \in Launches
                 PROVE  route'[j][Proxy(j)].by # k
      BY <1>u, <1>p, <2>m DEF NetInv, FreshInv
    <3>1. route[j][Proxy(j)].by # k /\ \A c \in LiteLLM : box[c].by # k
      BY <2>m DEF NetInv, FreshInv
    <3> QED
      BY <1>p, <1>r, <2>r, <3>1
  <2>4. ASSUME NEW j \in Launches PROVE WayToProxy(j)' /\ WayToTelegram(j)'
    <3>1. WayToProxy(j) /\ WayToTelegram(j) /\ InHostNetns(j)' = InHostNetns(j)
      BY <1>u, PlanStays DEF NetInv, RouteInv
    <3>2. CASE j = i
      <4>1. WayToProxy(i)'
        BY <1>p, <1>r, <1>u, <2>f, <2>r, <3>1, <3>2 DEF WayToProxy, Via, Running
      <4>2. WayToTelegram(i)'
        BY <2>r, <3>1, <3>2 DEF WayToTelegram, Via
      <4> QED
        BY <3>2, <4>1, <4>2
    <3>3. CASE j # i
      BY <1>p, <1>u, <2>r, <3>1, <3>3 DEF WayToProxy, WayToTelegram, Via, Running
    <3> QED
      BY <3>2, <3>3
  <2>5. BootInv'
    BY <1>2, <1>l, <1>u, BootStays DEF NetInv
  <2>6. AloneInv'
    BY <1>2, <1>u, <1>p, <2>m DEF NetInv, AloneInv, Running
  <2>7. HeldInv'
    <3> SUFFICES ASSUME ~ orphaned, "death" \notin faults, NEW j \in Launches
                 PROVE  /\ pc'[j] = "connect" /\ found[j].mode = "host" => box[Proxy(j)].state = "serving"
                        /\ pc'[j] \in Connected /\ route'[j][Proxy(j)].via \in {"loopback", "gateway"} =>
                             /\ box[Proxy(j)].state = "serving" /\ box[Proxy(j)].mode = "host"
                             /\ box[Proxy(j)].port = route'[j][Proxy(j)].port
      BY <1>2, <1>u, <1>p DEF HeldInv
    <3>1. CASE j = i
      <4>1. ASSUME route'[i][Proxy(i)].via \in {"loopback", "gateway"}
            PROVE  /\ box[Proxy(i)].state = "serving" /\ box[Proxy(i)].mode = "host"
                   /\ box[Proxy(i)].port = route'[i][Proxy(i)].port
        <5>1. found[i].mode = "host"
          BY <1>r, <2>r, <4>1 DEF Via
        <5>2. box[Proxy(i)].state = "serving"
          BY <1>u, <5>1 DEF NetInv, HeldInv
        <5> QED
          BY <1>r, <2>f, <2>r, <5>1, <5>2 DEF Running
      <4> QED
        BY <2>p, <3>1, <4>1
    <3>2. CASE j # i
      BY <1>o, <2>r, <3>2 DEF NetInv, HeldInv
    <3> QED
      BY <3>1, <3>2
  <2> QED
    BY <2>1, <2>2, <2>3, <2>4, <2>5, <2>6, <2>7 DEF NetInv, RouteInv
<1> QED
  BY <1>c, <1>1, <1>2

\* Where a launch depends on its proxy, it is past the lock or in it.
LEMMA OthersElsewhere ==
  ASSUME TypeInv, NEW i \in Launches, pc[i] \in Locked, NEW j \in Launches, j # i
  PROVE  pc[j] # "connect" /\ (pc[j] \in Connected => pc[j] \in RegPcs)
BY LockedAlone DEF Locked, HiPcs, Connected, RegPcs

LEMMA StopPredatingNet ==
  ASSUME TypeInv, TypeInv', NetInv, [Next]_vars, NEW i \in Launches, LaunchStep(i), StopPredating(i)
  PROVE  NetInv'
<1> DEFINE c == Proxy(i)
<1>u. UNCHANGED <<plan, found, route, faults, orphaned, pc, lock>> /\ pc[i] = "proxy"
      /\ box[c].mode # "host" /\ SetBox(c, Gone)
  BY DEF StopPredating, mine, Proxy
<1>p. c \in LiteLLM /\ c \in Containers
  BY <1>u, PlanStays
<1> HIDE DEF c
<1>b. box'[c] = Gone /\ \A d \in LiteLLM \ {c} : box'[d] = box[d]
  BY <1>u, <1>p DEF SetBox, TypeInv, Containers
<1>l. pc[i] \in Locked \ {"poll"}
  BY <1>u DEF Locked, HiPcs
<1>1. BootInv'
  BY <1>u, <1>b, <1>l, GoneType, BootStays DEF NetInv
<1>2. \A j \in Launches : Aside(pc[j], pc'[j]) /\ pc[j] # "connect"
  BY <1>u, <1>l, OthersElsewhere DEF Aside
<1> QED
  BY <1>u, <1>p, <1>b, <1>1, <1>2, GoneNet

LEMMA FreeProxyNet ==
  ASSUME TypeInv, TypeInv', NetInv, [Next]_vars, NEW i \in Launches, LaunchStep(i), FreeProxy(i)
  PROVE  NetInv'
<1> DEFINE c == Proxy(i)
<1>o. \A j \in Launches \ {i} : pc'[j] = pc[j]
  BY LaunchMoves
<1>u. UNCHANGED <<plan, found, route, faults, orphaned>> /\ pc[i] = "freeProxy" /\ pc'[i] = "done"
      /\ (IF StoppedBy(i, c) THEN SetBox(c, Gone) ELSE UNCHANGED box)
  BY DEF FreeProxy, mine, Proxy, Goto, TypeInv
<1>p. c \in LiteLLM /\ c \in Containers
  BY <1>u, PlanStays
<1>l. pc[i] \in Locked \ {"poll"} /\ Aside(pc[i], pc'[i])
  BY <1>u DEF Locked, Aside, Away
<1>1. CASE StoppedBy(i, c)
  <2>1. \A j \in Launches \ {i} : Proxy(j) = c => pc[j] \notin RegPcs
    BY <1>1 DEF StoppedBy, Declares, Proxy
  <2> HIDE DEF c
  <2>b. box'[c] = Gone /\ \A d \in LiteLLM \ {c} : box'[d] = box[d]
    BY <1>u, <1>p, <1>1 DEF SetBox, TypeInv, Containers
  <2>2. BootInv'
    BY <1>u, <2>b, <1>l, GoneType, BootStays DEF NetInv
  <2>3. \A j \in Launches : Aside(pc[j], pc'[j])
    BY <1>o, <1>l DEF Aside
  <2>4. ASSUME NEW j \in Launches, Proxy(j) = c PROVE pc[j] # "connect" /\ pc'[j] \notin Connected
    <3>1. CASE j = i
      BY <1>u, <3>1 DEF Connected
    <3>2. CASE j # i
      BY <1>o, <1>l, <2>1, <2>4, <3>2, OthersElsewhere
    <3> QED
      BY <3>1, <3>2
  <2> QED
    BY <1>u, <1>p, <2>b, <2>2, <2>3, <2>4, GoneNet
<1>2. CASE ~ StoppedBy(i, c)
  BY <1>o, <1>u, <1>l, <1>2, RouteStays, QuietNet
<1> QED
  BY <1>1, <1>2

LEMMA HostNet ==
  ASSUME TypeInv, TypeInv', NetInv, [Next]_vars, HostStep
  PROVE  NetInv'
<1>u. UNCHANGED <<plan, pc, lock, found, route>>
  BY HostMine
<1>f. faults \subseteq faults' /\ (orphaned => orphaned')
  BY FaultsStay, OrphansStay
<1>a. \A j \in Launches : Aside(pc[j], pc'[j]) /\ WayToTelegram(j)'
  BY <1>u, RouteStays DEF Aside
<1>c. ASSUME \A c \in LiteLLM :
               /\ box'[c].mode = box[c].mode /\ box'[c].port = box[c].port /\ box'[c].by = box[c].by
               /\ \/ box'[c].state = box[c].state
                  \/ box[c].state = "booting" /\ box'[c].state = "serving",
             HostPorts'
      PROVE  NetInv'
  <2>1. BootInv'
    BY <1>u, <1>f, <1>c, BootStays DEF NetInv
  <2> QED
    BY <1>u, <1>f, <1>a, <1>c, <2>1, CalmNet
<1>s. ASSUME \A c \in LiteLLM : box'[c] = box[c] PROVE NetInv'
  BY <1>c, <1>s, PortsStay
<1>t. Telegram \in Containers /\ Telegram \notin LiteLLM
      /\ \A c \in Containers : c \in LiteLLM \/ c = Telegram
  BY NetworkAssumption DEF Containers
<1>b. ASSUME NEW c \in Containers, NEW b, SetBox(c, b)
      PROVE  box'[c] = b /\ \A d \in LiteLLM \ {c} : box'[d] = box[d]
  BY <1>b DEF SetBox, TypeInv, Containers
<1>g. ASSUME NEW c \in LiteLLM, SetBox(c, Gone),
             ~ orphaned /\ "death" \notin faults' => box[c].state # "serving"
      PROVE  NetInv'
  <2>1. box'[c] = Gone /\ \A d \in LiteLLM \ {c} : box'[d] = box[d]
    BY <1>b, <1>g DEF Containers
  <2>2. BootInv'
    BY <1>u, <1>f, <2>1, GoneType, BootStays DEF NetInv
  <2>3. ASSUME ~ orphaned, "death" \notin faults', NEW i \in Launches, Proxy(i) = c
        PROVE  /\ ~ (pc[i] = "connect" /\ found[i].mode = "host")
               /\ ~ (pc'[i] \in Connected /\ route[i][c].via \in {"loopback", "gateway"}
                     /\ box[c].state = "serving" /\ box[c].mode = "host")
    BY <1>f, <1>g, <2>3 DEF NetInv, HeldInv
  <2> QED
    BY <1>u, <1>f, <1>a, <2>1, <2>2, <2>3, GoneNet
<1>1. ASSUME NEW c \in Containers, Listen(c) PROVE NetInv'
  <2>1. CASE c = Telegram
    BY <1>b, <1>s, <1>t, <1>1, <2>1 DEF Listen
  <2>2. CASE c \in LiteLLM /\ SetBox(c, Gone)
    BY <1>g, <1>1, <2>2 DEF Listen
  <2>3. CASE /\ c \in LiteLLM /\ ~ (box[c].mode = "host" /\ Taken(box[c].port))
             /\ SetBox(c, [box[c] EXCEPT !.state = "serving"])
    <3>1. box[c] \in Box /\ box[c].state = "booting"
      BY <1>1 DEF Listen, TypeInv
    <3>2. box'[c] = [state |-> "serving", mode |-> box[c].mode, port |-> box[c].port,
                     joined |-> box[c].joined, by |-> box[c].by]
          /\ \A d \in LiteLLM \ {c} : box'[d] = box[d]
      BY <1>b, <2>3, <3>1, Serving
    <3>3. /\ box'[c].state = "serving" /\ box'[c].mode = box[c].mode /\ box'[c].port = box[c].port
          /\ box'[c].by = box[c].by
      BY <3>2
    <3>4. \A d \in LiteLLM \ {c} :
            ~ (box[d].state = "serving" /\ box[d].mode = "host" /\ box[c].mode = "host"
               /\ box[d].port = box[c].port)
      BY <2>3 DEF Taken, OnHost
    <3>5. HostPorts'
      BY <3>2, <3>3, <3>4 DEF NetInv, HostPorts
    <3> QED
      BY <1>c, <3>1, <3>2, <3>3, <3>5
  <2> QED
    BY <1>1, <1>t, <2>1, <2>2, <2>3 DEF Listen
<1>2. ASSUME NEW c \in Containers, Die(c) PROVE NetInv'
  <2>1. CASE c = Telegram
    BY <1>b, <1>s, <1>t, <1>2, <2>1 DEF Die
  <2>2. CASE c \in LiteLLM
    BY <1>g, <1>2, <2>2 DEF Die, Happens
  <2> QED
    BY <1>t, <2>1, <2>2
<1>3. ASSUME NEW c \in Containers, TakeOff(c) PROVE NetInv'
  <2>1. CASE c = Telegram
    BY <1>b, <1>s, <1>t, <1>3, <2>1 DEF TakeOff
  <2>2. CASE c \in LiteLLM
    <3>1. box[c] \in Box
      BY DEF TypeInv
    <3>b. SetBox(c, [box[c] EXCEPT !.joined = FALSE])
      BY <1>3 DEF TakeOff
    <3>2. box'[c] = [state |-> box[c].state, mode |-> box[c].mode, port |-> box[c].port,
                     joined |-> FALSE, by |-> box[c].by]
          /\ \A d \in LiteLLM \ {c} : box'[d] = box[d]
      <4> DEFINE b == [box[c] EXCEPT !.joined = FALSE]
      <4>1. b = [state |-> box[c].state, mode |-> box[c].mode, port |-> box[c].port,
                 joined |-> FALSE, by |-> box[c].by]
        BY <3>1, OffNetwork
      <4>2. SetBox(c, b)
        BY <3>b
      <4> HIDE DEF b
      <4>3. box'[c] = b /\ \A d \in LiteLLM \ {c} : box'[d] = box[d]
        BY <1>b, <4>2
      <4> QED
        BY <4>1, <4>3
    <3>3. \A d \in LiteLLM : /\ box'[d].state = box[d].state /\ box'[d].mode = box[d].mode
                             /\ box'[d].port = box[d].port /\ box'[d].by = box[d].by
      BY <3>2
    <3>4. HostPorts'
      BY <3>3 DEF NetInv, HostPorts
    <3> QED
      BY <1>c, <3>3, <3>4
  <2> QED
    BY <1>t, <2>1, <2>2
<1>4. CASE (\E p \in Ports : ForeignTakes(p)) \/ (\E i \in Launches : ScriptStep(i))
           \/ ForeignLeaves \/ RemoveNetwork
  <2>1. UNCHANGED box
    BY <1>4 DEF ForeignTakes, ScriptStep, Spawn, Escape, Ends, ForeignLeaves, RemoveNetwork, docker
  <2> QED
    BY <1>s, <2>1
<1> QED
  BY <1>1, <1>2, <1>3, <1>4 DEF HostStep

LEMMA NextNet == TypeInv /\ NetInv /\ [Next]_vars => NetInv'
<1> SUFFICES ASSUME TypeInv, NetInv, [Next]_vars PROVE NetInv'
  OBVIOUS
<1>0. TypeInv'
  BY NextType
<1>1. ASSUME NEW i \in Launches, LaunchStep(i) PROVE NetInv'
  BY <1>0, <1>1, AwayFromProxies, TelegramNet, RegisterNet, OnExitNet, PollHealthyNet, AdoptNet,
     ScanPortNet, StartNet, ConnectNet, StopPredatingNet, FreeProxyNet DEF LaunchStep
<1>2. CASE HostStep
  BY <1>0, <1>2, HostNet
<1>3. CASE UNCHANGED vars
  <2>1. UNCHANGED <<plan, pc, lock, box, found, route, faults, orphaned>>
    BY <1>3 DEF vars, docker, mine
  <2>2. \A j \in Launches : Aside(pc[j], pc'[j]) /\ WayToTelegram(j)'
    BY <2>1, RouteStays DEF Aside
  <2>3. HostPorts' /\ BootInv'
    BY <2>1, PortsStay, BootStays DEF NetInv
  <2> QED
    BY <1>0, <2>1, <2>2, <2>3, CalmNet
<1> QED
  BY <1>1, <1>2, <1>3 DEF Next, Finished

LEMMA InitNet == Init => NetInv
<1> SUFFICES ASSUME Init PROVE NetInv
  OBVIOUS
<1>1. TypeInv
  BY InitType
<1>2. \A i \in Launches : Proxy(i) \in LiteLLM /\ Proxy(i) \in Containers /\ Telegram \in Containers
  BY <1>1, PlanType DEF Proxy
<1>3. /\ \A c \in LiteLLM : box[c] = Gone
      /\ \A i \in Launches : route[i][Proxy(i)] = Nowhere /\ route[i][Telegram] = Nowhere /\ pc[i] = "idle"
  BY <1>2 DEF Init, Containers
<1> QED
  BY <1>2, <1>3, NowhereIs, GoneType
     DEF NetInv, HostPorts, FoundInv, FreshInv, RouteInv, WayToProxy, WayToTelegram, BootInv,
         AloneInv, HeldInv, Running, BeforePoll, Connected

\* Who is led to a container of a mode gets to it where it is.
LEMMA WayLeads ==
  ASSUME TypeInv, HostPorts, NEW i \in Launches, NEW c \in Containers, StillUp(i, c),
         route[i][c].via = Via(i, box[c].mode), route[i][c].port = box[c].port
  PROVE  Answers(i, c) = {c}
<1>u. /\ box[c].state = "serving" /\ box[c].by = route[i][c].by
      /\ box[c].mode = "host" \/ box[c].joined
      /\ Network(i) # "none"
  BY DEF StillUp
<1>1. CASE box[c].mode = "host"
  <2>1. c \in LiteLLM
    BY <1>1 DEF TypeInv, Containers
  <2>2. OnHost(route[i][c].port) = {c}
    BY <1>u, <1>1, <2>1 DEF HostPorts, OnHost
  <2>3. route[i][c].via \in {"loopback", "gateway"}
    BY <1>1 DEF Via
  <2> QED
    BY <1>u, <2>2, <2>3 DEF Answers
<1>2. CASE box[c].mode # "host"
  <2>1. route[i][c].via = IF InHostNetns(i) THEN "address" ELSE "name"
    BY <1>2 DEF Via
  <2>2. ~ InHostNetns(i) => OnSidecarNet(i)
    BY <1>u DEF InHostNetns, OnSidecarNet
  <2> QED
    BY <1>u, <1>2, <2>1, <2>2 DEF Answers
<1> QED
  BY <1>1, <1>2

\* ReachesItsSidecars holds: an agent gets to every sidecar it needs that is
\* still up, and to no other provider's, for every plan of every set of
\* launches, any number of proxies and ports, and every mishap
\* (_build_connectivity_args, _recover_port, find_free_port).
THEOREM ReachesItsSidecarsHolds == Spec => []ReachesItsSidecars
<1>1. TypeInv /\ NetInv => ReachesItsSidecars
  <2> SUFFICES ASSUME TypeInv, NetInv, NEW i \in Launches, pc[i] = "agent", ~ orphaned,
                      NEW c \in Needs(i)
               PROVE  /\ StillUp(i, c) => Answers(i, c) = {c}
                      /\ "death" \notin faults => Answers(i, c) \subseteq {c}
    BY DEF ReachesItsSidecars
  <2>0. c \in Containers /\ (c = Proxy(i) \/ c = Telegram) /\ Proxy(i) \in LiteLLM
        /\ Telegram \in Containers
    BY PlanType DEF Needs, Proxy
  <2>w. WayToProxy(i) /\ WayToTelegram(i)
    BY DEF NetInv, RouteInv
  <2>1. ASSUME StillUp(i, c) PROVE Answers(i, c) = {c}
    <3>u. Running(c) /\ box[c].by = route[i][c].by /\ box[c].by \in Launches
      BY <2>0, <2>1 DEF StillUp, Running, TypeInv
    <3>1. CASE c = Proxy(i)
      <4>1. route[i][c].via = Via(i, box[c].mode) /\ route[i][c].port = box[c].port
        BY <2>w, <3>u, <3>1 DEF WayToProxy
      <4> QED
        BY <2>0, <2>1, <4>1, WayLeads DEF NetInv
    <3>2. CASE c = Telegram
      <4>1. route[i][c] # Nowhere
        BY <3>u, NowhereIs
      <4>2. route[i][c].via = Via(i, "bridge") /\ route[i][c].port = 0
        BY <2>w, <3>2, <4>1 DEF WayToTelegram
      <4>3. box[c].mode = "bridge" /\ box[c].port = 0
        BY <3>2 DEF TypeInv
      <4> QED
        BY <2>0, <2>1, <4>2, <4>3, WayLeads DEF NetInv
    <3> QED
      BY <2>0, <3>1, <3>2
  <2>2. ASSUME "death" \notin faults PROVE Answers(i, c) \subseteq {c}
    <3>1. CASE route[i][c].via \in {"loopback", "gateway"}
      <4>1. c = Proxy(i)
        BY <2>0, <2>w, <3>1, NowhereIs DEF WayToTelegram, Via
      <4>2. /\ box[c].state = "serving" /\ box[c].mode = "host" /\ box[c].port = route[i][c].port
        BY <2>2, <3>1, <4>1 DEF NetInv, HeldInv, Connected
      <4>3. OnHost(route[i][c].port) \subseteq {c}
        BY <2>0, <4>1, <4>2 DEF NetInv, HostPorts, OnHost
      <4> QED
        BY <3>1, <4>3 DEF Answers
    <3>2. CASE route[i][c].via \notin {"loopback", "gateway"}
      BY <3>2 DEF Answers
    <3> QED
      BY <3>1, <3>2
  <2> QED
    BY <2>1, <2>2
<1> QED
  BY <1>1, InitType, InitNet, NextType, NextNet, PTL DEF Spec
=============================================================================
