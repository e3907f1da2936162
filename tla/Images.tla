------------------------------- MODULE Images -------------------------------
(***************************************************************************)
(* The docker images of a host (domain/build/service.py): the base image,  *)
(* the image of a project, which is built on it, and the commands that     *)
(* build them when they are missing or stale (`agent run`), build them     *)
(* anyway (`agent rebuild`), or remove what nobody needs (`agent cleanup`).*)
(*                                                                         *)
(* Builds are serialized by build.lock; `agent cleanup` does not take it.  *)
(***************************************************************************)
EXTENDS Checkout, Sequences

CONSTANTS
  Projects,     \* the projects that declare a Dockerfile; a project is its tag
  Base,         \* BASE_IMAGE_NAME, as a tag
  Untagged,     \* the tag of an image whose tag a later build took
  Target,       \* Target[c]: the image the command is about
  AtStart,      \* the projects that are in the registry from the start
  Iteration,    \* Iteration[v]: DOCKER_BUILD_ITERATION in the code of v
  FoundImages,  \* the images there may be at the start
  MaxImages,    \* bound: ids are 1..MaxImages
  NoCommand,
  NoImage,      \* no such image, or docker could not say
  NoLabel,      \* a label that is absent
  Blank         \* a label that is empty

Tags == Projects \cup {Base}

ASSUME ImagesAssumption ==
  /\ Base \notin Projects /\ Untagged \notin Tags
  /\ Target \in [Commands -> Tags]
  /\ AtStart \subseteq Projects
  /\ Iteration \in [Versions -> Nat]
  /\ MaxImages \in Nat
  /\ NoCommand \notin Commands
  /\ NoLabel \notin Nat /\ Blank \notin Nat

VARIABLES
  images,      \* the images of the host, see Image
  registered,  \* the projects in the registry
  buildLock,   \* who holds build.lock
  base,        \* base_stamp: the image a command read last, or NoImage
  why,         \* its reason to build, and whether it has built the base
  orphan,      \* the builds whose command was killed: docker goes on
  scope,       \* the images a cleanup has shown to its user
  held,        \* held[c]: the image the agent container of c was made from
  slips        \* what happened to an image behind a command's back

imageVars == <<images, registered, buildLock, base, why, orphan, scope, held, slips>>

Labels == 0..MaxImages \cup {NoLabel, Blank}

\* An image: its id, its tag, the recipe it was built from, the parent it was
\* built on (0 for the base) and the labels BUILD_ITERATION, BASE_IMAGE_ID and
\* IMAGE_NAME.
Image == [id : 1..MaxImages, tag : Tags \cup {Untagged}, recipe : Nat,
          parent : 0..MaxImages, iter : Nat \cup {NoLabel}, baseId : Labels,
          name : Tags \cup {NoLabel}]

\* What a host is found with: a tag names one image, and a label that is there
\* says what the image was built from.
ASSUME FoundAssumption ==
  /\ NoImage \notin Image
  /\ \A found \in FoundImages :
       /\ IsFiniteSet(found) /\ \A i \in found : i \in Image
       /\ \A i, j \in found : i.tag = j.tag /\ i.tag \in Tags => i = j
       /\ \A i \in found :
            /\ i.tag = Base /\ i.iter # NoLabel => i.recipe = i.iter
            /\ i.tag \in Projects /\ i.baseId # NoLabel => i.parent = i.baseId

Ids == {i.id : i \in images}

\* image_stamp: the image with a tag.
Stamped(tag) ==
  IF \E i \in images : i.tag = tag THEN CHOOSE i \in images : i.tag = tag ELSE NoImage

Forced(c) == CASE Kind[c] = "full" -> "all" [] Kind[c] = "rebuild" -> "project" [] OTHER -> "none"

BaseReason(stamp, iteration, force, isTarget) ==
  CASE force = "all" \/ (isTarget /\ force = "project") -> "forced"
    [] stamp = NoImage -> "missing"
    [] stamp.iter = NoLabel -> "unstamped"
    [] stamp.iter # iteration -> "iteration"
    [] OTHER -> "current"

\* stamp is the project's image, bstamp that of the base.
ProjectReason(stamp, bstamp, baseRebuilt, force) ==
  CASE force \in {"project", "all"} -> "forced"
    [] baseRebuilt -> "base"
    [] stamp = NoImage -> "missing"
    [] stamp.baseId = NoLabel -> "unstamped"
    [] bstamp # NoImage /\ stamp.baseId # bstamp.id -> "base"
    [] OTHER -> "current"

\* docker build -t: the new image takes the tag, the old one keeps its id.
Retagged(new) ==
  {[i EXCEPT !.tag = IF @ = new.tag THEN Untagged ELSE @] : i \in images} \cup {new}

FreshId == Cardinality(images) + 1

BaseImage(c) ==
  [id |-> FreshId, tag |-> Base, recipe |-> Iteration[head], parent |-> 0,
   iter |-> Iteration[code[c]], baseId |-> NoLabel, name |-> Base]

ProjectImage(c) ==
  [id |-> FreshId, tag |-> Target[c], recipe |-> Stamped(Base).recipe,
   parent |-> Stamped(Base).id, iter |-> Iteration[code[c]],
   baseId |-> IF base[c] = NoImage THEN Blank ELSE base[c].id, name |-> Target[c]]

ImagesInit ==
  /\ images \in FoundImages
  /\ registered = AtStart
  /\ buildLock = NoCommand
  /\ base = [c \in Commands |-> NoImage]
  /\ why = [c \in Commands |-> [reason |-> "current", rebuilt |-> FALSE]]
  /\ orphan = {}
  /\ scope = [c \in Commands |-> {}]
  /\ held = [c \in Commands |-> 0]
  /\ slips = {}

-----------------------------------------------------------------------------
(* ensure_images: every question is asked under the lock.                  *)

\* Mutant of LockBuild: two builders at a time.
LockBuildShared(c) ==
  /\ pc[c] = "image"
  /\ buildLock' = c
  /\ Goto(c, "askbase")
  /\ UNCHANGED <<images, registered, base, why, orphan, scope, held, slips>>

\* docker_server_version: no answer, no build.
DockerDown(c) ==
  /\ Mishap("docker")
  /\ pc[c] = "image"
  /\ Goto(c, "failed")
  /\ UNCHANGED imageVars

\* try_file_lock, or file_lock after telling the user.
LockBuild(c) ==
  /\ pc[c] = "image" /\ buildLock = NoCommand
  /\ buildLock' = c
  /\ Goto(c, "askbase")
  /\ UNCHANGED <<images, registered, base, why, orphan, scope, held, slips>>

\* The base is asked about with what docker answers.
AskBaseOf(c, stamp) ==
  LET reason == BaseReason(stamp, Iteration[code[c]], Forced(c), Target[c] = Base) IN
  /\ pc[c] = "askbase"
  /\ base' = [base EXCEPT ![c] = stamp]
  /\ why' = [why EXCEPT ![c] = [reason |-> reason, rebuilt |-> reason # "current"]]
  /\ Goto(c, IF reason # "current" THEN "buildbase"
             ELSE IF Target[c] = Base THEN "built" ELSE "askproject")
  /\ slips' = IF stamp # Stamped(Base) THEN slips \cup {"unasked"} ELSE slips
  /\ UNCHANGED <<images, registered, buildLock, orphan, scope, held>>

AskBase(c) == AskBaseOf(c, Stamped(Base))
\* docker image inspect fails or times out: reads as no such image.
AskBaseFails(c) == Mishap("docker") /\ AskBaseOf(c, NoImage)

BuildBase(c) ==
  /\ pc[c] = "buildbase" /\ FreshId <= MaxImages
  /\ images' = Retagged(BaseImage(c))
  /\ slips' = IF code[c] # head THEN slips \cup {"mixed"} ELSE slips
  /\ Goto(c, "restamp")
  /\ UNCHANGED <<registered, buildLock, base, why, orphan, scope, held>>

\* Mutant of Restamp: the id the base had before.
RestampOld(c) ==
  /\ pc[c] = "restamp"
  /\ Goto(c, IF Target[c] = Base THEN "built" ELSE "askproject")
  /\ UNCHANGED imageVars

\* "Re-read: the id that was just created is the one the project image has to
\* record."
Restamp(c) ==
  /\ pc[c] = "restamp"
  /\ base' = [base EXCEPT ![c] = Stamped(Base)]
  /\ Goto(c, IF Target[c] = Base THEN "built" ELSE "askproject")
  /\ UNCHANGED <<images, registered, buildLock, why, orphan, scope, held, slips>>

RestampFails(c) ==
  /\ Mishap("docker")
  /\ pc[c] = "restamp"
  /\ base' = [base EXCEPT ![c] = NoImage]
  /\ Goto(c, IF Target[c] = Base THEN "built" ELSE "askproject")
  /\ UNCHANGED <<images, registered, buildLock, why, orphan, scope, held, slips>>

AskProjectOf(c, stamp) ==
  LET reason == ProjectReason(stamp, base[c], why[c].rebuilt, Forced(c)) IN
  /\ pc[c] = "askproject"
  /\ why' = [why EXCEPT ![c].reason = reason]
  /\ Goto(c, IF reason = "current" THEN "built" ELSE "buildproject")
  /\ slips' = IF stamp # Stamped(Target[c]) THEN slips \cup {"unasked"} ELSE slips
  /\ UNCHANGED <<images, registered, buildLock, base, orphan, scope, held>>

AskProject(c) == AskProjectOf(c, Stamped(Target[c]))
AskProjectFails(c) == Mishap("docker") /\ AskProjectOf(c, NoImage)

\* FROM names the base by its tag, as of now.
BuildProject(c) ==
  /\ pc[c] = "buildproject" /\ FreshId <= MaxImages
  /\ images' = Retagged(ProjectImage(c))
  /\ slips' = IF base[c] = NoImage THEN slips \cup {"unknown"} ELSE slips
  /\ Goto(c, "built")
  /\ UNCHANGED <<registered, buildLock, base, why, orphan, scope, held>>

\* A build that fails ends the command; its lock is given back.
BuildFails(c) ==
  /\ Mishap("build")
  /\ pc[c] \in {"buildbase", "buildproject"}
  /\ buildLock' = NoCommand
  /\ Goto(c, "failed")
  /\ UNCHANGED <<images, registered, base, why, orphan, scope, held, slips>>

UnlockBuild(c) ==
  /\ pc[c] = "built"
  /\ buildLock' = NoCommand
  /\ base' = [base EXCEPT ![c] = NoImage]
  /\ Goto(c, IF Kind[c] \in {"run", "headless"} THEN "prepare" ELSE "done")
  /\ UNCHANGED <<images, registered, why, orphan, scope, held, slips>>

\* The docker client of a killed command goes on, without the lock.
OrphanBuilds(c) ==
  /\ FreshId <= MaxImages
  /\ \/ /\ <<c, Base>> \in orphan
        /\ images' = Retagged(BaseImage(c))
        /\ orphan' = orphan \ {<<c, Base>>}
     \/ /\ <<c, Target[c]>> \in orphan /\ Target[c] # Base
        /\ images' = Retagged(ProjectImage(c))
        /\ orphan' = orphan \ {<<c, Target[c]>>}
  /\ slips' = slips \cup {"orphan"}
  /\ UNCHANGED <<pc, registered, buildLock, base, why, scope, held>>

EnsureImages(c) ==
  \/ LockBuild(c) \/ AskBase(c) \/ BuildBase(c) \/ Restamp(c)
  \/ AskProject(c) \/ BuildProject(c) \/ UnlockBuild(c)

-----------------------------------------------------------------------------
(* `agent cleanup`.                                                        *)

\* What a launch would rebuild, by the cleanup's own code; a missing image is
\* nothing to remove.
StaleProjects(iteration) ==
  LET bstamp == Stamped(Base)
      moved  == BaseReason(bstamp, iteration, "none", FALSE) # "current"
  IN {p \in registered :
        ProjectReason(Stamped(p), bstamp, moved, "none") \notin {"current", "missing"}}

\* image_cleanup_scope: superseded builds by id, orphaned and stale project
\* images by tag.  The base is never among them.
CleanupScope(iteration) ==
  {i \in images :
     \/ i.tag = Untagged /\ i.name # NoLabel
     \/ i.tag \in Projects \ registered
     \/ i.tag \in StaleProjects(iteration)}

Survey(c) ==
  /\ pc[c] = "survey"
  /\ scope' = [scope EXCEPT ![c] = CleanupScope(Iteration[code[c]])]
  /\ Goto(c, IF CleanupScope(Iteration[code[c]]) = {} THEN "done" ELSE "confirm")
  /\ UNCHANGED <<images, registered, buildLock, base, why, orphan, held, slips>>

\* prompt_confirm
Confirmed(c) ==
  /\ pc[c] = "confirm"
  /\ Goto(c, "remove") \/ Goto(c, "done")
  /\ UNCHANGED imageVars

\* What the reference of a surveyed row names by now: an id, or a tag that may
\* have been built anew.
Named(row) ==
  IF row.tag = Untagged THEN {i \in images : i.id = row.id /\ i.tag = Untagged}
  ELSE {i \in images : i.tag = row.tag}

\* docker rmi refuses an image a container or another image is made from.
Removable(i) ==
  /\ i.id \notin {held[d] : d \in agent}
  /\ \A j \in images : j.parent # i.id

\* An id is never used again: a removed image stays, without tag and name.
Removed(i) == [i EXCEPT !.tag = Untagged, !.name = NoLabel, !.parent = 0]

\* remove_images, one row at a time.
RemoveImage(c) ==
  /\ pc[c] = "remove"
  /\ \E row \in scope[c] :
       LET gone == {i \in Named(row) : Removable(i)} IN
       /\ images' = (images \ gone) \cup {Removed(i) : i \in gone}
       /\ scope' = [scope EXCEPT ![c] = @ \ {row}]
       /\ slips' = IF \E i \in gone, d \in Commands :
                        i.tag = Target[d] /\ pc[d] \in {"built", "prepare", "ready"}
                   THEN slips \cup {"removed"} ELSE slips
       /\ Goto(c, IF scope[c] = {row} THEN "done" ELSE "remove")
  /\ UNCHANGED <<registered, buildLock, base, why, orphan, held>>

EnsureFails(c) == DockerDown(c) \/ AskBaseFails(c) \/ RestampFails(c) \/ AskProjectFails(c)

CleanImages(c) == Survey(c) \/ Confirmed(c) \/ RemoveImage(c)

=============================================================================
