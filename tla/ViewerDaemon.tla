---------------------------- MODULE ViewerDaemon -----------------------------
(***************************************************************************)
(* The logs viewer as a singleton of the host: who claims it, forks it,    *)
(* waits for it, repairs its state file and stops it (domain/logs/         *)
(* service.py, domain/logs/daemon.py, cli/logs/run.py).                    *)
(*                                                                         *)
(* A command is one process: a launch that starts the viewer on the side,  *)
(* `agent logs`, or `agent logs --stop` (which `agent update` runs, too).  *)
(* It forks at most one viewer, which is named after it.  All they share   *)
(* is the state file, which is rewritten in place, and the spawn lock,     *)
(* which launchers take and stoppers and viewers do not.                   *)
(***************************************************************************)
EXTENDS Naturals, FiniteSets

CONSTANTS
  Commands,   \* the processes that look for the viewer; each runs once
  Kind,       \* Kind[c]: "autostart", "logs" or "stop"
  Before,     \* the viewer that may have been there before,
  Found,      \* and what may have become of it: "none", "serving" or "dead"
  MaxPort,    \* PORT_SCAN_LIMIT: how many ports `bind_port` tries,
  Foreign,    \* and those of them that other programs have
  Events,     \* what else may happen, see EventKinds,
  MaxMishaps, \* and how often in one behaviour
  NoCommand,
  NoState,    \* no state file
  Torn,       \* a state file that is truncated and not written yet
  Garbled     \* a state file that two processes wrote at the same time

EventKinds ==
  { "crash",  \* a viewer dies by itself
    "kill",   \* a command is killed; its fork is not
    "fail" }  \* the fork cannot start the viewer, or cannot write its claim

ASSUME ViewerAssumption ==
  /\ Kind \in [Commands -> {"autostart", "logs", "stop"}]
  /\ Before \notin Commands
  /\ Found \subseteq {"none", "serving", "dead"}
  /\ NoCommand \notin Commands
  /\ MaxPort \in Nat \ {0}
  /\ Foreign \subseteq 1..MaxPort - 1
  /\ Events \subseteq EventKinds
  /\ MaxMishaps \in Nat

Viewers == Commands \cup {Before}
Ports == 1..MaxPort  \* counted from the requested one

\* DaemonState.
States == [pid : Viewers, port : Ports, starting : BOOLEAN]

ASSUME StateAssumption ==
  /\ {NoState, Torn, Garbled} \cap States = {}
  /\ NoState # Torn /\ NoState # Garbled /\ Torn # Garbled

VARIABLES
  file,    \* the state file: a state, NoState, Torn or Garbled
  open,    \* who is writing it, as far as it has not been unlinked meanwhile
  lock,    \* logs-server.lock: the command whose open file holds it
  pc,      \* where each command is
  seen,    \* the state it read last
  mine,    \* the viewer that it waits for or stops
  told,    \* the state that its answer to the user was made of
  fork,    \* the intermediate fork of each command
  viewer,  \* the viewer that it started
  port,    \* the port that the viewer got; 0 before
  mishaps, \* how many of the Events have happened
  slips    \* what the lock did not protect, see the actions that add to it

commands == <<pc, seen, mine, told>>
procs == <<fork, viewer, port>>
statefile == <<file, open>>
vars == <<statefile, lock, commands, procs, mishaps, slips>>

\* pid_alive: there is such a process, and it is not a zombie.
Living == {v \in Viewers : viewer[v] \notin {"none", "dead"}}

\* read_state: what does not parse reads as none.
Unreadable == file \in {Torn, Garbled}
Readable == IF Unreadable THEN NoState ELSE file

Mishap(e) == e \in Events /\ mishaps < MaxMishaps /\ mishaps' = mishaps + 1

Goto(c, l) == pc' = [pc EXCEPT ![c] = l]

\* write_state truncates the file,
Truncate(w) == file' = Torn /\ open' = open \cup {w}

\* then writes it.  Where somebody else wrote in between, the longer text shows
\* behind the shorter one, which is that of the claim ("true", "false").  A file
\* that was unlinked in between takes the text with it.
Write(w, s) ==
  /\ file' = CASE w \notin open -> file
               [] w \in open /\ s.starting /\ file # Torn -> Garbled
               [] OTHER -> s
  /\ open' = open \ {w}

\* unlink(missing_ok=True), whatever the file says by now.
Unlink ==
  /\ file' = NoState
  /\ open' = {}
  /\ slips' = IF Living # {} /\ (Unreadable \/ (file # NoState /\ file.pid \in Living))
              THEN slips \cup {"unlinked"} ELSE slips

\* SIGTERM: a viewer that serves shuts down in a thread; one that has not got
\* so far has no handler yet.
Terminated(v) ==
  CASE viewer[v] = "serving" -> [viewer EXCEPT ![v] = "closing"]
    [] viewer[v] \in {"booting", "bound", "writing"} -> [viewer EXCEPT ![v] = "dead"]
    [] OTHER -> viewer

-----------------------------------------------------------------------------
(* running_server: read the file, then judge what was read.                *)

Read(c, from, to) ==
  /\ pc[c] = from
  /\ Goto(c, to)
  /\ seen' = [seen EXCEPT ![c] = Readable]
  /\ UNCHANGED <<statefile, lock, mine, told, procs>>

\* The state read was none, or that of a dead viewer: its file is removed.
JudgedAbsent(c) ==
  IF seen[c] = NoState
  THEN UNCHANGED <<statefile, slips>>
  ELSE seen[c].pid \notin Living /\ Unlink

\* The local variable goes out of scope.
Forget(c) == seen' = [seen EXCEPT ![c] = NoState]

JudgedFound(c) == seen[c] # NoState /\ seen[c].pid \in Living

Start(c) ==
  /\ pc[c] = "idle"
  /\ Goto(c, IF Kind[c] = "autostart" THEN "lock" ELSE "peek")
  /\ UNCHANGED <<statefile, lock, seen, mine, told, procs, slips>>

\* `agent logs` and `agent logs --stop` look first, without the lock.
Peek(c) == Read(c, "peek", "peeked") /\ UNCHANGED slips

PeekAbsent(c) ==
  /\ pc[c] = "peeked"
  /\ JudgedAbsent(c)
  /\ Goto(c, IF Kind[c] = "logs" THEN "lock" ELSE "done")
  /\ Forget(c)
  /\ UNCHANGED <<lock, mine, told, procs>>

PeekFound(c) ==
  /\ pc[c] = "peeked" /\ Kind[c] = "logs"
  /\ JudgedFound(c)
  /\ told' = [told EXCEPT ![c] = seen[c]]
  /\ Goto(c, "done")
  /\ Forget(c)
  /\ UNCHANGED <<statefile, lock, mine, procs, slips>>

-----------------------------------------------------------------------------
(* _claim_or_spawn: look again under the lock, fork if there is nobody.    *)

\* Mutant of TakeLock: whoever comes goes in.
TakeLockHeld(c) ==
  /\ pc[c] = "lock"
  /\ lock' = c
  /\ Goto(c, "look")
  /\ UNCHANGED <<statefile, seen, mine, told, procs, slips>>

TakeLock(c) ==
  /\ pc[c] = "lock" /\ lock = NoCommand
  /\ lock' = c
  /\ Goto(c, "look")
  /\ UNCHANGED <<statefile, seen, mine, told, procs, slips>>

\* autostart reports failure and the launch goes on; `agent logs` fails.
LockTimeout(c) ==
  /\ pc[c] = "lock"
  /\ Goto(c, "done")
  /\ UNCHANGED <<statefile, lock, seen, mine, told, procs, slips>>

Look(c) ==
  /\ Read(c, "look", "looked")
  /\ slips' = IF Unreadable /\ Living # {} THEN slips \cup {"overlooked"} ELSE slips

\* What a launcher does with the viewer it has got, having left the lock.
Answer(c, state) ==
  CASE Kind[c] = "autostart" \/ state = NoState ->
         Goto(c, "done") /\ UNCHANGED <<mine, told>>
    [] OTHER ->
         IF state.starting
         THEN /\ Goto(c, "wait")
              /\ mine' = [mine EXCEPT ![c] = state.pid]
              /\ UNCHANGED told
         ELSE /\ Goto(c, "done")
              /\ told' = [told EXCEPT ![c] = state]
              /\ UNCHANGED mine

LookFound(c) ==
  /\ pc[c] = "looked"
  /\ JudgedFound(c)
  /\ lock' = NoCommand
  /\ Answer(c, seen[c])
  /\ Forget(c)
  /\ UNCHANGED <<statefile, procs, slips>>

\* _fork_spawn: the fork inherits the open file of the lock.
LookAbsent(c) ==
  /\ pc[c] = "looked"
  /\ JudgedAbsent(c)
  /\ fork' = [fork EXCEPT ![c] = "forked"]
  /\ Goto(c, "waitpid")
  /\ Forget(c)
  /\ UNCHANGED <<lock, mine, told, viewer, port>>

\* The fork is gone; read back what it claimed.
Reread(c) ==
  /\ pc[c] = "waitpid" /\ fork[c] = "exited"
  /\ lock' = NoCommand
  /\ Answer(c, Readable)
  /\ UNCHANGED <<statefile, seen, procs, slips>>

-----------------------------------------------------------------------------
(* The intermediate fork.                                                  *)

\* Mutant of ForkExits: sys.exit, which runs the release of the enclosing
\* file_lock.
ForkReleases(c) ==
  /\ fork' = [fork EXCEPT ![c] = "exited"]
  /\ lock' = NoCommand

\* os._exit: nothing is unlocked, but the last copy of the lock's open file is
\* closed when the command has been killed meanwhile.
ForkExits(c) ==
  /\ fork' = [fork EXCEPT ![c] = "exited"]
  /\ lock' = IF pc[c] = "killed" THEN NoCommand ELSE lock

Spawn(c) ==
  /\ fork[c] = "forked"
  /\ fork' = [fork EXCEPT ![c] = "spawned"]
  /\ viewer' = [viewer EXCEPT ![c] = "booting"]
  /\ UNCHANGED <<statefile, lock, commands, port, slips>>

SpawnFails(c) ==
  /\ Mishap("fail")
  /\ fork[c] = "forked"
  /\ ForkExits(c)
  /\ UNCHANGED <<statefile, commands, viewer, port, slips>>

ClaimOpen(c) ==
  /\ fork[c] = "spawned"
  /\ fork' = [fork EXCEPT ![c] = "claiming"]
  /\ Truncate(<<"fork", c>>)
  /\ UNCHANGED <<lock, commands, viewer, port, slips>>

ClaimWrite(c) ==
  /\ fork[c] = "claiming"
  /\ Write(<<"fork", c>>, [pid |-> c, port |-> 1, starting |-> TRUE])
  /\ ForkExits(c)
  /\ UNCHANGED <<commands, viewer, port, slips>>

\* The disk is full, or Ctrl-C in the terminal reaches the fork as well.
ClaimFails(c) ==
  /\ Mishap("fail")
  /\ fork[c] \in {"spawned", "claiming"}
  /\ ForkExits(c)
  /\ slips' = slips \cup {"unclaimed"}
  /\ UNCHANGED <<statefile, commands, viewer, port>>

Fork(c) ==
  \/ Spawn(c)
  \/ ClaimOpen(c)
  \/ ClaimWrite(c)

-----------------------------------------------------------------------------
(* serve_foreground.                                                       *)

Taken == Foreign \cup {port[v] : v \in Living}

\* bind_port tries one port after the other.
Bind(v) ==
  /\ viewer[v] = "booting"
  /\ \E p \in Ports \ Taken :
       /\ \A q \in Ports : q < p => q \in Taken
       /\ port' = [port EXCEPT ![v] = p]
  /\ viewer' = [viewer EXCEPT ![v] = "bound"]
  /\ UNCHANGED <<statefile, lock, commands, fork, slips>>

BindFails(v) ==
  /\ viewer[v] = "booting" /\ Ports \subseteq Taken
  /\ viewer' = [viewer EXCEPT ![v] = "dead"]
  /\ UNCHANGED <<statefile, lock, commands, fork, port, slips>>

PublishOpen(v) ==
  /\ viewer[v] = "bound"
  /\ viewer' = [viewer EXCEPT ![v] = "writing"]
  /\ Truncate(<<"viewer", v>>)
  /\ UNCHANGED <<lock, commands, fork, port, slips>>

\* Mutant of Publish: the port that was asked for.
PublishAsked(v) ==
  /\ viewer[v] = "writing"
  /\ viewer' = [viewer EXCEPT ![v] = "serving"]
  /\ Write(<<"viewer", v>>, [pid |-> v, port |-> 1, starting |-> FALSE])
  /\ UNCHANGED <<lock, commands, fork, port, slips>>

Publish(v) ==
  /\ viewer[v] = "writing"
  /\ viewer' = [viewer EXCEPT ![v] = "serving"]
  /\ Write(<<"viewer", v>>, [pid |-> v, port |-> port[v], starting |-> FALSE])
  /\ UNCHANGED <<lock, commands, fork, port, slips>>

\* server_close and logs_cache.stop, or the end by SIGKILL.
Close(v) ==
  /\ viewer[v] \in {"closing", "killed"}
  /\ viewer' = [viewer EXCEPT ![v] = "dead"]
  /\ UNCHANGED <<statefile, lock, commands, fork, port, slips>>

Crash(v) ==
  /\ Mishap("crash")
  /\ v \in Living
  /\ viewer' = [viewer EXCEPT ![v] = "dead"]
  /\ UNCHANGED <<statefile, lock, commands, fork, port, slips>>

Serve(v) == Bind(v) \/ BindFails(v) \/ PublishOpen(v) \/ Publish(v) \/ Close(v)

-----------------------------------------------------------------------------
(* spawn_background waits for the viewer, without the lock.                *)

\* Polls that learn nothing are left out.
Poll(c) ==
  /\ ~ Unreadable /\ file # NoState
  /\ file.pid \notin Living \/ (file.pid = mine[c] /\ ~ file.starting)
  /\ Read(c, "wait", "polled")
  /\ UNCHANGED slips

PollReady(c) ==
  /\ pc[c] = "polled"
  /\ JudgedFound(c) /\ seen[c].pid = mine[c] /\ ~ seen[c].starting
  /\ told' = [told EXCEPT ![c] = seen[c]]
  /\ Goto(c, "done")
  /\ Forget(c)
  /\ UNCHANGED <<statefile, lock, mine, procs, slips>>

PollAbsent(c) ==
  /\ pc[c] = "polled"
  /\ JudgedAbsent(c)
  /\ Goto(c, "wait")
  /\ Forget(c)
  /\ UNCHANGED <<lock, mine, told, procs>>

\* Mutant of WaitTimeout: only a viewer that is there is given up on.
WaitTimeoutIfLiving(c) ==
  /\ pc[c] = "wait" /\ mine[c] \in Living
  /\ viewer' = Terminated(mine[c])
  /\ Goto(c, "cleanup")
  /\ UNCHANGED <<statefile, lock, seen, mine, told, fork, port, slips>>

WaitTimeout(c) ==
  /\ pc[c] = "wait"
  /\ viewer' = Terminated(mine[c])
  /\ Goto(c, "cleanup")
  /\ UNCHANGED <<statefile, lock, seen, mine, told, fork, port, slips>>

Cleanup(c) ==
  /\ pc[c] = "cleanup"
  /\ Unlink
  /\ Goto(c, "done")
  /\ UNCHANGED <<lock, seen, mine, told, procs>>

-----------------------------------------------------------------------------
(* stop_daemon, without the lock.                                          *)

Stop(c) ==
  /\ pc[c] = "peeked" /\ Kind[c] = "stop"
  /\ JudgedFound(c)
  /\ mine' = [mine EXCEPT ![c] = seen[c].pid]
  /\ viewer' = Terminated(seen[c].pid)
  /\ Goto(c, "stopping")
  /\ Forget(c)
  /\ UNCHANGED <<statefile, lock, told, fork, port, slips>>

StopTimeout(c) ==
  /\ pc[c] = "stopping"
  /\ viewer' = IF mine[c] \in Living THEN [viewer EXCEPT ![mine[c]] = "killed"] ELSE viewer
  /\ Goto(c, "killing")
  /\ UNCHANGED <<statefile, lock, seen, mine, told, fork, port, slips>>

Stopped(c) ==
  /\ pc[c] \in {"stopping", "killing"}
  /\ mine[c] \notin Living
  /\ Unlink
  /\ Goto(c, "done")
  /\ UNCHANGED <<lock, seen, mine, told, procs>>

\* "did not stop in time; state file left in place".
StopGivesUp(c) ==
  /\ pc[c] = "killing"
  /\ Goto(c, "done")
  /\ UNCHANGED <<statefile, lock, seen, mine, told, procs, slips>>

-----------------------------------------------------------------------------
Ended == {"done", "killed"}

\* A killed command leaves the lock, unless its fork still has it open.
Kill(c) ==
  /\ Mishap("kill")
  /\ pc[c] \notin Ended \cup {"idle"}
  /\ Goto(c, "killed")
  /\ lock' = IF lock = c /\ fork[c] \in {"none", "exited"} THEN NoCommand ELSE lock
  /\ UNCHANGED <<statefile, seen, mine, told, procs, slips>>

Claim(c) == \/ TakeLock(c) \/ LockTimeout(c) \/ Look(c)
            \/ LookFound(c) \/ LookAbsent(c) \/ Reread(c)
Await(c) == Poll(c) \/ PollReady(c) \/ PollAbsent(c) \/ WaitTimeout(c) \/ Cleanup(c)
Halt(c) == Stop(c) \/ StopTimeout(c) \/ Stopped(c) \/ StopGivesUp(c)
Step(c) == Peek(c) \/ PeekAbsent(c) \/ PeekFound(c) \/ Claim(c) \/ Await(c) \/ Halt(c)

\* Nothing is running, a viewer is, or the file of a dead one has been left.
Init ==
  /\ viewer \in {[v \in Viewers |-> IF v = Before THEN s ELSE "none"] :
                   s \in Found}
  /\ port = [v \in Viewers |-> IF v = Before /\ viewer[v] # "none" THEN MaxPort ELSE 0]
  /\ file = IF viewer[Before] = "none" THEN NoState
            ELSE [pid |-> Before, port |-> MaxPort, starting |-> FALSE]
  /\ open = {}
  /\ lock = NoCommand
  /\ pc = [c \in Commands |-> "idle"]
  /\ seen = [c \in Commands |-> NoState]
  /\ mine = [c \in Commands |-> c]
  /\ told = [c \in Commands |-> NoState]
  /\ fork = [c \in Commands |-> "none"]
  /\ mishaps = 0
  /\ slips = {}

Finished ==
  /\ \A c \in Commands : pc[c] \in Ended /\ fork[c] \in {"none", "exited"}
  /\ \A v \in Viewers : viewer[v] \in {"none", "serving", "dead"}
  /\ UNCHANGED vars

Next ==
  \/ /\ UNCHANGED mishaps
     /\ \/ \E c \in Commands : Start(c) \/ Step(c) \/ Fork(c)
        \/ \E v \in Viewers : Serve(v)
  \/ \E c \in Commands : Kill(c) \/ SpawnFails(c) \/ ClaimFails(c)
  \/ \E v \in Viewers : Crash(v)
  \/ Finished

Spec == Init /\ [][Next]_vars

\* Every wait of a command has a deadline or ends with a fork, which has nothing
\* to wait for; a viewer goes on until it serves, and shuts down when told to.
FairSpec ==
  /\ Spec
  /\ \A c \in Commands : /\ WF_vars(Step(c) /\ UNCHANGED mishaps)
                         /\ WF_vars(Fork(c) /\ UNCHANGED mishaps)
  /\ \A v \in Viewers : WF_vars(Serve(v) /\ UNCHANGED mishaps)
-----------------------------------------------------------------------------
\* A decision to start a viewer, and the claim for it, are made in one critical
\* section, although a fork makes part of it and may survive the command that
\* took the lock (_fork_spawn: "That keeps the claim inside the caller's lock").
SpawnUnderLock ==
  \A c \in Commands :
    (pc[c] \in {"look", "looked", "waitpid"} \/ fork[c] \in {"forked", "spawned", "claiming"})
      => lock = c

\* "Reading the state and acting on it is one critical section, so two launchers
\* cannot both conclude nothing is running and each start a viewer -- and
\* running_server's repair of a stale state file cannot race a fresh claim"
\* (_claim_or_spawn).
OneViewer == Cardinality(Living) <= 1

\* There is one viewer unless the state of a living one was unlinked by a
\* process that does not hold the lock, was being rewritten when a launcher read
\* it, or was never written.
OneViewerUnlessSlipped == slips = {} => OneViewer

\* Who is told that the viewer runs at a port is told the port it has got, not
\* the one that was asked for (starting_line: "it will serve at ... or the next
\* free port").
ToldTheTruth ==
  \A c \in Commands : told[c] # NoState /\ ~ told[c].starting =>
    /\ port[told[c].pid] = told[c].port
    /\ viewer[told[c].pid] \notin {"none", "booting", "bound"}

\* Every command comes to an end, whoever crashes or is killed meanwhile:
\* "Failure is reported rather than raised -- the caller is a launch that must
\* proceed anyway" (autostart).
EveryCommandEnds == \A c \in Commands : pc[c] # "idle" ~> pc[c] \in Ended
=============================================================================
