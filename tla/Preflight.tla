----------------------------- MODULE Preflight ------------------------------
(***************************************************************************)
(* What a launch decides before it touches anything: whether the directory *)
(* is one to launch from, which Dockerfile and so which image is meant,    *)
(* what its directives ask for, whether the host can give it and whether   *)
(* the secrets are there (domain/launch/service.py, domain/build,          *)
(* domain/config, domain/startup).                                         *)
(*                                                                         *)
(* A Dockerfile is a sequence of the lines that say something: <<"name",   *)
(* valid>>, <<"from", base>>, <<"network", n>> and <<"mount", m>> for a     *)
(* --network or a mount in a line of run arguments, and <<"startup", v>>,  *)
(* v being "on", "off", "seconds" or "nonsense".                           *)
(***************************************************************************)
EXTENDS SequencesExt, Integers

CONSTANTS NoFile, Refused

\* --network of `# agent-run-args`: docker's own, another container's, or one
\* of the project's; "unset" if there is none.
Networks == {"unset", "bridge", "host", "none", "joined", "own"}

\* A mount: -v, --mount or --tmpfs; whether docker can make sense of it and, for
\* --mount, type=bind is said; what the source looks like, whether it is there
\* or can at least be made, and so for the mountpoint in the project.
Mounts == [flag : {"-v", "--mount", "--tmpfs"}, sound : BOOLEAN, bind : BOOLEAN,
           readOnly : BOOLEAN, source : {"path", "home", "volume"},
           host : {"there", "absent", "blocked"}, point : {"there", "absent", "blocked"}]

Words == {"on", "off", "seconds", "nonsense"}
Lines == ({"name", "from"} \X BOOLEAN) \cup ({"mount"} \X Mounts)
         \cup ({"network"} \X (Networks \ {"unset"})) \cup ({"startup"} \X Words)
Dockerfiles == Seq(Lines) \cup {NoFile}

\* One launch: the place it is made from, with a terminal or without, whether
\* SKIP_SAFETY_CHECK is set, --base; the two Dockerfiles a project may have and
\* its startup script; whether docker is too old, the provider known and its
\* secrets stored.
Setting == [place : {"project", "home", "system"}, tty : BOOLEAN, skip : BOOLEAN,
            headless : BOOLEAN, base : BOOLEAN, current : Dockerfiles, legacy : Dockerfiles,
            script : BOOLEAN, old : BOOLEAN, known : BOOLEAN, secrets : BOOLEAN]

-----------------------------------------------------------------------------
(* The directory.                                                          *)

Hazard(w) == w.place # "project" /\ ~w.skip
SomebodyToAsk(w) == w.tty /\ ~w.headless
MustRefuseHere(w) == Hazard(w) /\ ~SomebodyToAsk(w)

-----------------------------------------------------------------------------
(* The Dockerfile.                                                         *)

\* The values of the lines of one kind, in order.
Said(file, kind) ==
  LET chosen == SelectSeq(file, LAMBDA line : line[1] = kind)
  IN [j \in DOMAIN chosen |-> chosen[j][2]]

LocateDockerfile(w) ==
  CASE w.current # NoFile /\ w.legacy # NoFile -> Refused
    [] w.current # NoFile /\ w.legacy = NoFile -> w.current
    [] OTHER -> w.legacy

\* The first name counts, and of a build of several stages the last FROM.
InheritsBase(file) == LET froms == Said(file, "from") IN froms # <<>> /\ Last(froms)
Identified(file) == LET names == Said(file, "name") IN names # <<>> /\ Head(names)

\* The project's Dockerfile, or NoFile for the base image.
ResolveImage(w) ==
  LET file == IF w.base THEN NoFile ELSE LocateDockerfile(w)
  IN IF file \in {NoFile, Refused} \/ (Identified(file) /\ InheritsBase(file))
     THEN file ELSE Refused

Directives(w) == IF ResolveImage(w) \in {NoFile, Refused} THEN <<>> ELSE ResolveImage(w)

\* A number is one of seconds; zero is none, and not "off".
ParseStartupValue(v) ==
  CASE v \in {"on", "seconds"} -> TRUE
    [] v = "off" -> FALSE
    [] OTHER -> Refused

\* The last value counts, but each must be understood; a legacy Dockerfile may
\* not have any.
Startups(w) ==
  LET said == Said(Directives(w), "startup") IN [j \in DOMAIN said |-> ParseStartupValue(said[j])]
StartupEnabled(w) == Startups(w) # <<>> /\ Last(Startups(w)) = TRUE
StartupRefused(w) ==
  \/ Refused \in Range(Startups(w))
  \/ Startups(w) # <<>> /\ w.current = NoFile

\* A script nothing enables, or one that is enabled and not there, is warned of.
RunsScript(w) == StartupEnabled(w) /\ w.script

\* The first --network counts; docker gets all of them.
Asked(w) == Said(Directives(w), "network")
ExtractNetwork(w) == IF Asked(w) = <<>> THEN "unset" ELSE Head(Asked(w))

\* A mount docker will reject is left to docker.
ParseMountSpecs(w) == {m \in Range(Said(Directives(w), "mount")) : m.sound}

\* A tmpfs has no source, and --mount one of the host only as a bind.
Binds(m) == m.flag = "-v" \/ (m.flag = "--mount" /\ m.bind)

\* Nobody expands ~; what does not look like a path is the name of a volume.
MountSourcePath(m) == Binds(m) /\ m.source = "path"

\* A read-only source is never made up.
MountMissing(m) ==
  m.readOnly /\ m.flag # "--tmpfs" /\ MountSourcePath(m) /\ m.host # "there"

\* A source or a mountpoint that is to be made and cannot be.
MountBlocked(m) ==
  \/ MountSourcePath(m) /\ m.host = "blocked"
  \/ ~(Binds(m) /\ m.source = "home") /\ m.point = "blocked"

MountsRefused(w) == \E m \in ParseMountSpecs(w) : MountMissing(m) \/ MountBlocked(m)

DirectiveRefused(w) == StartupRefused(w) \/ MountsRefused(w) \/ ExtractNetwork(w) = "bridge"

-----------------------------------------------------------------------------
(* What the host gives.                                                    *)

\* Nobody is asked for a secret without a terminal or in a headless launch.
SecretsRefused(w) == ~w.secrets /\ ~SomebodyToAsk(w)

\* Nothing stands in the way of the launch.
MayProceed(w) ==
  /\ ~MustRefuseHere(w) /\ w.known /\ ~w.old
  /\ ResolveImage(w) # Refused /\ ~DirectiveRefused(w)
  /\ ~SecretsRefused(w)
=============================================================================
