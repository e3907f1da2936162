------------------------------ MODULE Install -------------------------------
(***************************************************************************)
(* One install and the commands that share it: the checkout they run from  *)
(* and update, the registry database they migrate, the images they build,  *)
(* use and remove.  `agent run` is followed from its first step to its     *)
(* `docker run`; what it does with sidecars is SidecarLifecycle's.         *)
(***************************************************************************)
EXTENDS Migrations, Images

vars == <<checkoutVars, dbVars, imageVars>>

Ended == {"done", "failed", "killed"}

Init == CheckoutInit /\ MigrationsInit /\ ImagesInit

\* A command loads the code of the version it finds.  Only what needs the
\* registry opens the database.
Start(c) ==
  /\ pc[c] = "idle"
  /\ code' = [code EXCEPT ![c] = head]
  /\ Goto(c, IF Kind[c] \in {"run", "headless", "cleanup"} THEN "open" ELSE "update")
  /\ UNCHANGED <<agent, viewer, tree, upd, mishaps, dbVars, imageVars>>

\* _prepare_config: prepare_global_config, then the project is recorded (a
\* project that is its base image is one too, but has no image of its own).
Prepare(c) ==
  /\ pc[c] = "prepare"
  /\ EnsureMd
  /\ registered' = registered \cup ({Target[c]} \cap Projects)
  /\ Goto(c, "ready")
  /\ UNCHANGED <<code, agent, viewer, head, fetched, upstream, interp, upd, mishaps, dbVars,
                 images, buildLock, base, why, orphan, scope, held, slips>>

\* docker run, with the image the tag names by now, or an error if none.
RunAgent(c) ==
  /\ pc[c] = "ready"
  /\ IF Stamped(Target[c]) = NoImage
     THEN Goto(c, "failed") /\ UNCHANGED <<agent, held>>
     ELSE /\ Goto(c, "running")
          /\ agent' = agent \cup {c}
          /\ held' = [held EXCEPT ![c] = Stamped(Target[c]).id]
  /\ UNCHANGED <<code, viewer, tree, upd, mishaps, dbVars,
                 images, registered, buildLock, base, why, orphan, scope, slips>>

\* The container of a killed launch lives until its own end.
AgentExits(c) ==
  /\ c \in agent
  /\ agent' = agent \ {c}
  /\ held' = [held EXCEPT ![c] = 0]
  /\ pc' = [pc EXCEPT ![c] = IF @ = "running" THEN "done" ELSE @]
  /\ UNCHANGED <<code, viewer, tree, upd, mishaps, dbVars,
                 images, registered, buildLock, base, why, orphan, scope, slips>>

\* The kernel frees a killed command's lock; the docker build it waited for
\* may go on.
Kill(c) ==
  /\ Mishap("kill")
  /\ pc[c] \notin Ended \cup {"idle"}
  /\ Goto(c, "killed")
  /\ buildLock' = IF buildLock = c THEN NoCommand ELSE buildLock
  /\ \/ UNCHANGED orphan
     \/ pc[c] = "buildbase" /\ orphan' = orphan \cup {<<c, Base>>}
     \/ pc[c] = "buildproject" /\ orphan' = orphan \cup {<<c, Target[c]>>}
  /\ upd' = [upd EXCEPT ![c] = NoUpdate]
  /\ scope' = [scope EXCEPT ![c] = {}]
  /\ UNCHANGED <<code, agent, viewer, tree, dbVars,
                 images, registered, base, why, held, slips>>

OfCheckout(c) == (Autostart(c) \/ Update(c) \/ UpdateFails(c)) /\ UNCHANGED <<dbVars, imageVars>>
OfDatabase(c) ==
  \/ OpenDatabase(c) /\ UNCHANGED <<code, agent, viewer, tree, upd, mishaps, imageVars>>
  \/ MigrationFails(c) /\ UNCHANGED <<code, agent, viewer, tree, upd, imageVars>>
OfImages(c) ==
  \/ /\ EnsureImages(c) \/ OrphanBuilds(c) \/ CleanImages(c)
     /\ UNCHANGED <<code, agent, viewer, tree, upd, mishaps, dbVars>>
  \/ /\ EnsureFails(c) \/ BuildFails(c)
     /\ UNCHANGED <<code, agent, viewer, tree, upd, dbVars>>

Next ==
  \/ \E c \in Commands :
       \/ Start(c) \/ OfCheckout(c) \/ OfDatabase(c) \/ OfImages(c)
       \/ Prepare(c) \/ RunAgent(c) \/ AgentExits(c) \/ Kill(c)
  \/ (Commit \/ EditMd) /\ UNCHANGED <<dbVars, imageVars>>

Spec == Init /\ [][Next]_vars

-----------------------------------------------------------------------------

\* DatabaseConverges: the version stamped in the database is the version of its
\* tables, however many commands opened it at once and wherever one of them
\* failed; a command that got past opening finds every table its own scripts
\* make; and a migration of a database with tables in it left a backup of what
\* was there (MigrationRunner.run, back_up, apply).
DatabaseConverges ==
  /\ schema = 1..userVersion
  /\ \A c \in Commands :
       /\ pc[c] \notin {"idle", "open", "backup", "migrate"} \cup Ended => due[c] <= userVersion
       /\ pc[c] = "migrate" /\ current[c] = userVersion /\ userVersion > 0 =>
            [name |-> userVersion, holds |-> schema] \in backups

\* What a launch is told when ensure_images returns 0.
Fresh(c) ==
  LET bstamp == Stamped(Base) stamp == Stamped(Target[c]) IN
  /\ bstamp # NoImage /\ bstamp.iter = Iteration[code[c]] /\ bstamp.recipe = bstamp.iter
  /\ stamp # NoImage
  /\ Target[c] # Base => stamp.baseId = bstamp.id /\ stamp.parent = bstamp.id

\* ReadyUnlessSlipped: when ensure_images is about to give the lock back, the
\* image it was asked for exists, was built from the recipe of the command's own
\* code, and records the base it stands on, which is the base of now -- unless an
\* update moved the recipe under the builder, docker failed to say the new
\* base's id, the build of a killed command went on, or a cleanup removed the
\* image.
ReadyUnlessSlipped ==
  \A c \in Commands :
    pc[c] = "built" /\ slips \cap {"mixed", "unknown", "orphan", "removed"} = {} => Fresh(c)

\* BuildsAreDue: "Two concurrent launches that both see a missing base therefore
\* serialize -- the second re-reads, finds it current, and builds nothing": a
\* build nobody forced replaces an image that is stale at that very moment by
\* the builder's own code -- unless docker did not answer, or the build of a
\* killed command went on (BuildService.ensure_images).
BuildsAreDue ==
  [][\A c \in Commands :
       /\ images' # images /\ pc[c] \in {"buildbase", "buildproject"} /\ pc'[c] # pc[c]
       /\ why[c].reason # "forced" /\ slips \cap {"unasked", "unknown", "orphan"} = {}
       => IF pc[c] = "buildbase"
          THEN BaseReason(Stamped(Base), Iteration[code[c]], "none", FALSE) # "current"
          ELSE ProjectReason(Stamped(Target[c]), Stamped(Base), why[c].rebuilt, "none") # "current"]_vars

=============================================================================
