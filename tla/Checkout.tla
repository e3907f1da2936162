------------------------------ MODULE Checkout ------------------------------
(***************************************************************************)
(* The git checkout an install runs from, and the commands that update it  *)
(* (domain/updates/service.py): `agent update`, and the check that `agent  *)
(* run` and `agent rebuild` make before they do anything else.             *)
(*                                                                         *)
(* A version is a commit of the branch, counted from 1; upstream only adds *)
(* commits.  A command is a process that loaded the code of the version it *)
(* found, and reads files (Dockerfiles, migrations, defaults) of the       *)
(* version the checkout has when it opens them.                            *)
(***************************************************************************)
EXTENDS Naturals, FiniteSets, FiniteSetsExt

CONSTANTS
  Commands,    \* the processes; each runs once
  Kind,        \* Kind[c]: see Kinds
  Crews,       \* bound: the sets of commands that are started together
  MaxVersion,  \* bound: the commits of the branch
  Published,   \* the versions upstream may be at when the commands start
  OnMaster,    \* the checkout is on master, where only tagged versions count
  Tagged,      \* the versions with a tag
  Default,     \* Default[v]: the text of ops/default-CLAUDE.md at v
  Custom,      \* what the user wrote into the CLAUDE.md of the config directory
  Absent,      \* no such file
  NoVersion,   \* None: no viewer, no update to offer
  Events,      \* what else may happen, see EventKinds
  MaxMishaps   \* and how often in one behaviour

Kinds == {"run", "headless", "rebuild", "full", "update", "cleanup"}

EventKinds ==
  { "commit",   \* upstream gets a commit while commands run
    "edit",     \* the user edits the CLAUDE.md
    "docker",   \* a docker command that asks something fails or times out
    "build",    \* docker build fails
    "git",      \* fetch, merge or the bootstrap fails
    "database", \* a backup or a migration fails half-way
    "kill" }    \* a command is killed

Versions == 1..MaxVersion

ASSUME CheckoutAssumption ==
  /\ Kind \in [Commands -> Kinds] /\ Crews \subseteq SUBSET Commands
  /\ MaxVersion \in Nat \ {0}
  /\ OnMaster \in BOOLEAN /\ Published \subseteq Versions
  /\ Tagged \subseteq Versions
  /\ DOMAIN Default = Versions
  /\ Custom \notin {Default[v] : v \in Versions} /\ Absent # Custom
  /\ NoVersion \notin Versions
  /\ Events \subseteq EventKinds
  /\ MaxMishaps \in Nat

VARIABLES
  pc,       \* where each command is
  code,     \* the version whose code it has loaded
  agent,    \* the commands whose agent container runs
  viewer,   \* the version whose code the logs viewer runs, or NoVersion
  head,     \* HEAD
  fetched,  \* origin/<branch> as of the last fetch
  upstream, \* the newest commit of the branch
  interp,   \* the version whose interpreter and dependencies are installed
  md,       \* .claude_config/.claude/CLAUDE.md
  upd,      \* the locals of an update: target, before and pre_state
  mishaps   \* how many of the Events have happened

tree == <<head, fetched, upstream, interp, md>>
checkoutVars == <<pc, code, agent, viewer, tree, upd, mishaps>>

Mishap(e) == e \in Events /\ mishaps < MaxMishaps /\ mishaps' = mishaps + 1

Goto(c, l) == pc' = [pc EXCEPT ![c] = l]

\* latest_tag: the newest tag reachable from a version; 0 if there is none.
LatestTag(v) == Max({0} \cup {t \in Tagged : t <= v})

\* resolve_target and the count before it, once the branch has been fetched.
Offered(to) ==
  CASE to <= head -> NoVersion
    [] to > head /\ ~OnMaster -> to
    [] OTHER -> IF LatestTag(to) \in {0, LatestTag(head)} THEN NoVersion ELSE LatestTag(to)

\* What target_ref names by now: a tag stays, a branch has moved with a fetch.
Resolved(target) == IF OnMaster THEN target ELSE fetched

NoUpdate == [target |-> NoVersion, before |-> 0, premd |-> "missing"]

\* Where a command goes on that was not kept by an update: `agent update` is
\* done, the others do what they came for.
Proceed(c) == IF Kind[c] = "update" THEN "done" ELSE "image"

CheckoutInit ==
  /\ \E crew \in Crews : pc = [c \in Commands |-> IF c \in crew THEN "idle" ELSE "done"]
  /\ code = [c \in Commands |-> 1]
  /\ agent = {} /\ viewer = NoVersion
  /\ head = 1 /\ fetched = 1 /\ interp = 1
  /\ upstream \in Published
  /\ md \in {Absent, Default[1]}
  /\ upd = [c \in Commands |-> NoUpdate]
  /\ mishaps = 0

-----------------------------------------------------------------------------
(* The check.                                                              *)

\* get_behind_count: fetch, then compare.
CheckBehind(c) ==
  /\ pc[c] = "update"
  /\ fetched' = upstream
  /\ upd' = [upd EXCEPT ![c].target = Offered(upstream)]
  /\ Goto(c, IF Offered(upstream) = NoVersion THEN Proceed(c)
             ELSE IF Kind[c] = "update" THEN "look" ELSE "prompt")
  /\ UNCHANGED <<code, agent, viewer, head, upstream, interp, md, mishaps>>

\* No network, a detached HEAD, no repository.
CheckFails(c) ==
  /\ Mishap("git")
  /\ pc[c] = "update"
  /\ Goto(c, Proceed(c))
  /\ UNCHANGED <<code, agent, viewer, tree, upd>>

\* prompt_confirm: yes or no.
Answered(c) ==
  /\ pc[c] = "prompt"
  /\ \/ Goto(c, "look") /\ UNCHANGED upd
     \/ Goto(c, Proceed(c)) /\ upd' = [upd EXCEPT ![c] = NoUpdate]
  /\ UNCHANGED <<code, agent, viewer, tree, mishaps>>

\* _blocked_by_live_containers, then `before` and pre_state.
PreState ==
  CASE md = Absent -> "missing"
    [] md = Default[head] -> "matches"
    [] OTHER -> "customized"

Look(c) ==
  /\ pc[c] = "look"
  /\ IF agent # {}
     THEN /\ Goto(c, "done")
          /\ upd' = [upd EXCEPT ![c] = NoUpdate]
     ELSE /\ Goto(c, "stopviewer")
          /\ upd' = [upd EXCEPT ![c].before = head, ![c].premd = PreState]
  /\ UNCHANGED <<code, agent, viewer, tree, mishaps>>

\* `docker ps` fails after `docker version` has answered: an empty list reads as
\* nothing running.
LookFails(c) ==
  /\ Mishap("docker")
  /\ pc[c] = "look"
  /\ Goto(c, "stopviewer")
  /\ upd' = [upd EXCEPT ![c].before = head, ![c].premd = PreState]
  /\ UNCHANGED <<code, agent, viewer, tree>>

-----------------------------------------------------------------------------
(* apply: stop the viewer, fast-forward, propagate, re-provision.          *)

StopViewer(c) ==
  /\ pc[c] = "stopviewer"
  /\ viewer' = NoVersion
  /\ Goto(c, "merge")
  /\ UNCHANGED <<code, agent, tree, upd, mishaps>>

\* merge --ff-only: a target that HEAD has passed already changes nothing.
Merge(c) ==
  /\ pc[c] = "merge"
  /\ head' = Max({head, Resolved(upd[c].target)})
  /\ Goto(c, IF head' = upd[c].before THEN "done" ELSE "propagate")
  /\ UNCHANGED <<code, agent, viewer, fetched, upstream, interp, md, upd, mishaps>>

\* Local commits, local changes, or another git at work.
MergeFails(c) ==
  /\ Mishap("git")
  /\ pc[c] = "merge"
  /\ Goto(c, "done")
  /\ upd' = [upd EXCEPT ![c] = NoUpdate]
  /\ UNCHANGED <<code, agent, viewer, tree>>

\* git diff --quiet <before> <after> -- default-CLAUDE.md, run in TOOL_DIR: the
\* pathspec names a file at the root of the checkout, which no version has (the
\* file is ops/default-CLAUDE.md), so there is never a difference.
RootFile(v) == Absent
DiffersAtRoot(before, after) == RootFile(before) # RootFile(after)

\* handle_claude_md_propagation.
PropagateMd(c) ==
  /\ pc[c] = "propagate"
  /\ md' = IF DiffersAtRoot(upd[c].before, head) /\ upd[c].premd = "matches"
           THEN Absent ELSE md
  /\ Goto(c, "provision")
  /\ UNCHANGED <<code, agent, viewer, head, fetched, upstream, interp, upd, mishaps>>

\* _reprovision_interpreter: the bootstrap reads the pins of the checkout.
Provision(c) ==
  /\ pc[c] = "provision"
  /\ interp' = head
  /\ Goto(c, "done")
  /\ upd' = [upd EXCEPT ![c] = NoUpdate]
  /\ UNCHANGED <<code, agent, viewer, head, fetched, upstream, md, mishaps>>

ProvisionFails(c) ==
  /\ Mishap("git")
  /\ pc[c] = "provision"
  /\ Goto(c, "done")
  /\ upd' = [upd EXCEPT ![c] = NoUpdate]
  /\ UNCHANGED <<code, agent, viewer, tree>>

-----------------------------------------------------------------------------
(* What launches do with the checkout and the config directory.            *)

\* _maybe_autostart_logs: a viewer runs the code it finds.
Autostart(c) ==
  /\ pc[c] = "autostart"
  /\ viewer' = IF viewer = NoVersion /\ Kind[c] = "run" THEN head ELSE viewer
  /\ Goto(c, IF Kind[c] = "headless" THEN "image" ELSE "update")
  /\ UNCHANGED <<code, agent, tree, upd, mishaps>>

\* _ensure_claude_md.
EnsureMd == md' = IF md = Absent THEN Default[head] ELSE md

Commit ==
  /\ Mishap("commit")
  /\ upstream < MaxVersion
  /\ upstream' = upstream + 1
  /\ UNCHANGED <<pc, code, agent, viewer, head, fetched, interp, md, upd>>

EditMd ==
  /\ Mishap("edit")
  /\ md' = Custom
  /\ UNCHANGED <<pc, code, agent, viewer, head, fetched, upstream, interp, upd>>

Update(c) == CheckBehind(c) \/ Answered(c) \/ Look(c) \/ StopViewer(c)
             \/ Merge(c) \/ PropagateMd(c) \/ Provision(c)
UpdateFails(c) == CheckFails(c) \/ LookFails(c) \/ MergeFails(c) \/ ProvisionFails(c)

=============================================================================
