------------------------------ MODULE Accounts ------------------------------
(***************************************************************************)
(* Who is charged for what: project directories and their links to the     *)
(* central log tree (link_litellm_logs), the project registry              *)
(* (record_project, stale_project_paths), the request index, the reports   *)
(* over them (Reports) and `agent cleanup` of orphaned logs                *)
(* (cleanup_scope, run_cleanup), with the private state directories of     *)
(* agents that share a project.  A central directory is named by the       *)
(* project directory whose path it hashes.                                 *)
(***************************************************************************)
EXTENDS Reports, RequestUsage, TLC

CONSTANTS
  Launches, Requests, Dirs, Aliases,
  Info,        \* Info[request]: its provider and what LiteLLM hands to the callback
  Target,      \* Target[alias]: the directory a symlink leads to at first
  Plans,       \* what a host starts with (its directories, its registry) and what
               \* goes on there (launches, requests, cleanups, moves, failures)
  Tables,      \* Tables[provider]: the price table
  Windows,     \* the windows that are asked for: from, until, days, today
  MaxEvents,   \* the failures of a run
  NoPath

Paths == Dirs \cup Aliases
ASSUME AccountsAssumption ==
  /\ Dirs \cap Aliases = {} /\ NoPath \notin Paths
  /\ Target \in [Aliases -> Dirs] /\ MaxEvents \in Nat
  /\ \A s \in Plans : /\ s.dirs \subseteq Dirs /\ s.registry \subseteq Paths /\ s.moves \in Nat
                      /\ s.launches \subseteq Launches /\ s.requests \subseteq Requests
                      \* No two registered paths lead to one directory at first.
                      /\ \A p \in s.registry, a \in s.registry \cap Aliases :
                           Target[a] = (IF p \in Aliases THEN Target[p] ELSE p) => p = a

VARIABLES
  dirs,      \* the project directories that exist
  link,      \* .claude/litellm-logs of each: the central directory it names
  target,    \* where each symlink leads
  logs,      \* the central directories that exist
  disk,      \* the requests in their log files
  rows,      \* the requests in the index
  mark,      \* the requests that the index's offsets have passed, by session
  registry,  \* the registered paths
  job,       \* each launch: its step, directory and the path it records
  box,       \* the launches whose container lives
  state,     \* the instance state directory of each launch: none, new, old
  live,      \* the agents that docker named to the launch that sweeps
  pass,      \* the ingest pass: what it read and from which offsets
  cleanup,   \* `agent cleanup`: its step, the scope, what it removed
  plan,      \* the plan of this host
  moves,     \* moves, copies, deletions and repointed links by the user
  events, slips

fileVars  == <<dirs, link, target, logs, disk>>
indexVars == <<rows, mark, pass>>
jobVars   == <<job, box, state, live>>
counters  == <<plan, moves, events>>
vars == <<fileVars, indexVars, registry, jobVars, cleanup, counters, slips>>

Real(p) == IF p \in Aliases THEN target[p] ELSE p
HasLogs(p) == Real(p) \in dirs /\ link[Real(p)] \in logs
Happens(e) ==
  /\ e \in plan.events /\ events < MaxEvents
  /\ events' = events + 1 /\ UNCHANGED <<plan, moves>>
Calm == UNCHANGED counters
SessionsOf(S) == {x.session : x \in S}

Registered(s) == {IF p \in Aliases THEN Target[p] ELSE p : p \in s.registry}
Init ==
  \E s \in Plans :
    /\ plan = s
    /\ dirs = s.dirs /\ registry = s.registry
    /\ link = [d \in Dirs |-> IF d \in s.dirs \cap Registered(s) THEN d ELSE NoPath]
    /\ logs = s.dirs \cap Registered(s)
    /\ target = Target
    /\ disk = {} /\ rows = {} /\ mark = {}
    /\ job = [l \in Launches |-> [pc |-> "idle", at |-> NoPath, path |-> NoPath]]
    /\ box = {} /\ state = [l \in Launches |-> "none"] /\ live = {}
    /\ pass = [pc |-> "idle", batch |-> {}, mark |-> {}]
    /\ cleanup = [pc |-> "idle", scope |-> {}, stale |-> {}, gone |-> {}]
    /\ moves = 0 /\ events = 0 /\ slips = {}

----------------------------------------------------------------------------
(* The user's files *)

Under(d) == {e \in dirs : IsPrefix(PathOf[d], PathOf[e])}
Above(d) == {e \in Dirs : IsPrefix(PathOf[e], PathOf[d])}

\* The launches in _prepare_config; nobody deletes the directory of one of them
\* during these milliseconds.
Locked == {l \in Launches : job[l].pc \in {"sweep", "link", "alias", "record"}}
Preparing == {job[l].at : l \in Locked}

\* A claim that cleanup's survey did not see.
Late == slips' = IF cleanup.pc \in {"idle", "done"} THEN slips ELSE slips \cup {"late"}

ByUser ==
  /\ moves < plan.moves /\ moves' = moves + 1
  /\ slips' = slips \cup {"user"} \cup (IF cleanup.pc \in {"idle", "done"} THEN {} ELSE {"late"})
  /\ UNCHANGED <<logs, disk, indexVars, registry, jobVars, cleanup, plan, events>>

MakeDir(d) ==
  /\ ByUser /\ d \notin dirs
  /\ dirs' = dirs \cup Above(d) /\ UNCHANGED <<link, target>>
DeleteDir(d) ==
  /\ ByUser /\ d \in dirs /\ Under(d) \cap Preparing = {}
  /\ dirs' = dirs \ Under(d)
  /\ link' = [e \in Dirs |-> IF e \in Under(d) THEN NoPath ELSE link[e]]
  /\ UNCHANGED target
Transfer(d, e, keep) ==
  /\ ByUser /\ Under(d) = {d} /\ e \notin dirs /\ d # e /\ d \notin Above(e)
  /\ keep \/ d \notin Preparing
  /\ dirs' = (dirs \cup Above(e)) \ (IF keep THEN {} ELSE {d})
  /\ link' = [link EXCEPT ![e] = link[d], ![d] = IF keep THEN @ ELSE NoPath]
  /\ UNCHANGED target
Repoint(a, d) ==
  /\ ByUser /\ target[a] # d
  /\ target' = [target EXCEPT ![a] = d] /\ UNCHANGED <<dirs, link>>
UserStep ==
  \/ \E d \in Dirs : MakeDir(d) \/ DeleteDir(d)
  \/ \E d, e \in Dirs, keep \in BOOLEAN : Transfer(d, e, keep)
  \/ \E a \in Aliases, d \in Dirs : Repoint(a, d)

----------------------------------------------------------------------------
(* A launch: _prepare_config under sidecars.lock, then the container *)

Step(l, from, to) == job[l].pc = from /\ job' = [job EXCEPT ![l].pc = to]

\* The working directory is resolved, the path is kept as the shell spelled it.  The
\* launch asks docker for the agents, unless docker does not answer at all; when it
\* stops answering only then, nothing seems to live.
Prepare(l, p) ==
  /\ job[l].pc = "idle" /\ Locked = {} /\ Real(p) \in dirs
  /\ job' = [job EXCEPT ![l] = [pc |-> "sweep", at |-> Real(p), path |-> p]]
  /\ \/ live' = box /\ Calm /\ UNCHANGED slips
     \/ live' = Launches /\ Happens("docker") /\ UNCHANGED slips
     \/ live' = {} /\ Happens("docker") /\ slips' = slips \cup {"docker"}
  /\ UNCHANGED <<fileVars, indexVars, registry, box, state, cleanup>>

Unlisted(l) == {m \in Launches : job[m].at = job[l].at /\ m \notin live}

\* Mutant of Swept: not being listed is enough.
SweptUnlisted(l) == Unlisted(l)

\* Of the directories of this project's instances those that are old and belong to
\* no agent that docker named; then the launch makes its own.
Swept(l) == {m \in Unlisted(l) : state[m] = "old"}
Sweep(l) ==
  /\ Step(l, "sweep", "link") /\ live' = {}
  /\ state' = [m \in Launches |-> IF m = l THEN "new"
                                  ELSE IF m \in Swept(l) THEN "none" ELSE state[m]]
  /\ Calm /\ UNCHANGED <<fileVars, indexVars, registry, box, cleanup, slips>>

LinkLogs(l) ==
  LET d == job[l].at IN
  /\ Step(l, "link", "alias")
  /\ logs' = logs \cup {d} /\ link' = [link EXCEPT ![d] = d]
  /\ Calm /\ Late
  /\ UNCHANGED <<dirs, target, disk, indexVars, registry, box, state, live, cleanup>>
LinkFails(l) ==
  LET d == job[l].at IN
  /\ Step(l, "link", "alias") /\ Happens("disk") /\ UNCHANGED slips
  /\ \/ UNCHANGED <<logs, link>>
     \/ /\ logs' = logs \cup {d}
        /\ link' \in {link, [link EXCEPT ![d] = IF @ = d THEN d ELSE NoPath]}
  /\ UNCHANGED <<dirs, target, disk, indexVars, registry, box, state, live, cleanup>>

\* record_project: other spellings of the directory are deleted, then this one is
\* recorded; a read that fails finds none, a write that fails ends it.
Spelled(l) == IF Real(job[l].path) = job[l].at THEN job[l].path ELSE job[l].at

\* Mutant of Superseded: the paths are compared as they are spelled.
SupersededAsSpelled(l) == {q \in registry \ {Spelled(l)} : q = job[l].at}

Superseded(l) == {q \in registry \ {Spelled(l)} : Real(q) = job[l].at}
DropAliases(l) ==
  /\ Step(l, "alias", "record")
  /\ \/ registry' = registry \ Superseded(l) /\ Calm /\ UNCHANGED slips
     \/ Happens("storage") /\ slips' = slips \cup {"storage"} /\ UNCHANGED <<registry>>
  /\ UNCHANGED <<fileVars, indexVars, box, state, live, cleanup>>
Record(l) ==
  /\ Step(l, "record", "start")
  /\ registry' = registry \cup {Spelled(l)}
  /\ Calm /\ Late
  /\ UNCHANGED <<fileVars, indexVars, box, state, live, cleanup>>
RecordFails(l) ==
  /\ job[l].pc \in {"alias", "record"} /\ job' = [job EXCEPT ![l].pc = "start"]
  /\ Happens("storage") /\ UNCHANGED slips
  /\ UNCHANGED <<fileVars, indexVars, registry, box, state, live, cleanup>>

StartBox(l) ==
  /\ Step(l, "start", "up") /\ box' = box \cup {l}
  /\ Calm /\ UNCHANGED <<fileVars, indexVars, registry, state, live, cleanup, slips>>

\* The sidecar appends a record to a log file below the hash of the launch's
\* directory; it stands there as what ingest will make of it.
OfSession(S, s) == {x \in S : x.session = s}
Row(l, q) ==
  LET sess == [hash |-> job[l].at, provider |-> Info[q].provider, id |-> l]
      key  == [id |-> q, session |-> sess, line |-> 1 + Cardinality(OfSession(disk, sess))]
      read == Parse(BuildRecord(Info[q]))
  IN  [f \in DOMAIN key \cup DOMAIN read |-> IF f \in DOMAIN key THEN key[f] ELSE read[f]]
Request(l, q) ==
  /\ l \in box /\ \A x \in disk \cup rows \cup mark \cup pass.mark : x.id # q
  /\ disk' = disk \cup {Row(l, q)} /\ logs' = logs \cup {job[l].at}
  /\ Calm /\ UNCHANGED <<dirs, link, target, indexVars, registry, jobVars, cleanup, slips>>

\* An instance directory outlives the grace of one hour: long after its container was
\* started or its agent has gone, so that whoever sweeps has heard of it, unless
\* that took the launch the hour ("slow", a startup script may).
InUse(l) == l \in box \/ job[l].pc \in {"link", "alias", "record", "start", "up"}
Listed(l) == l \in box /\ ((\E m \in Launches : job[m].pc = "sweep") => l \in live)
Age(l) ==
  /\ state[l] = "new" /\ state' = [state EXCEPT ![l] = "old"]
  /\ \/ (InUse(l) => Listed(l)) /\ Calm /\ UNCHANGED slips
     \/ InUse(l) /\ ~Listed(l) /\ Happens("slow") /\ slips' = slips \cup {"slow"}
  /\ UNCHANGED <<fileVars, indexVars, registry, job, box, live, cleanup>>

\* The container ends; its launcher, if it lives, removes the instance directory.
Exit(l) ==
  /\ l \in box /\ box' = box \ {l}
  /\ job' = [job EXCEPT ![l].pc = "gone"]
  /\ state' = IF job[l].pc = "up" THEN [state EXCEPT ![l] = "none"] ELSE state
  /\ Calm /\ UNCHANGED <<fileVars, indexVars, registry, live, cleanup, slips>>
KillLaunch(l) ==
  /\ job[l].pc \notin {"idle", "gone"} /\ Happens("kill")
  /\ job' = [job EXCEPT ![l].pc = "gone"] /\ UNCHANGED slips
  /\ UNCHANGED <<fileVars, indexVars, registry, box, state, live, cleanup>>

LaunchStep ==
  \E l \in plan.launches :
    \/ \E p \in Paths : Prepare(l, p)
    \/ Sweep(l) \/ LinkLogs(l) \/ LinkFails(l) \/ DropAliases(l) \/ Record(l) \/ RecordFails(l)
    \/ StartBox(l) \/ Age(l) \/ Exit(l) \/ KillLaunch(l)
    \/ \E q \in plan.requests : Request(l, q)

----------------------------------------------------------------------------
(* The index: a pass reads one session's files from its offsets and commits *)

\* An offset is the number of lines that were read; the lines themselves are not
\* looked at again.  A file that is there with fewer was replaced, and the session
\* starts over; one that was replaced and has grown to the old offset is found out
\* only if its strings.jsonl is smaller, else it is read from its middle (is_truncated).
Smaller(file, past) == Cardinality(file) < Cardinality(past)
Regrown(s) ==
  LET file == OfSession(disk, s) past == OfSession(mark, s) IN
  ~(past \subseteq file) /\ ~Smaller(file, past)
IngestRead(s) ==
  LET file == OfSession(disk, s)
      past == OfSession(mark, s)
  IN  \E again \in BOOLEAN :
        /\ pass.pc = "idle"
        /\ Smaller(file, past) => again
        /\ again => ~(past \subseteq file)
        /\ again \/ Smaller(past, file)
        /\ pass' = [pc |-> "read", mark |-> file,
                    batch |-> {x \in file : again \/ x.line > Cardinality(past)}]
        /\ mark' = IF again THEN mark \ past ELSE mark
        /\ rows' = IF again THEN rows \ OfSession(rows, s) ELSE rows
        /\ slips' = IF ~again /\ Regrown(s) THEN slips \cup {"regrown"} ELSE slips
        /\ Calm /\ UNCHANGED <<fileVars, registry, jobVars, cleanup>>

Others(read) == {x \in mark : x.session \notin SessionsOf(read)}

\* Mutant of Commit: the offset is the size of the file at the commit.
CommitAtSize(read) == Others(read) \cup read \cup {x \in disk : x.session \in SessionsOf(read)}

Commit(read) == Others(read) \cup read
IngestCommit ==
  /\ pass.pc = "read" /\ pass' = [pc |-> "idle", batch |-> {}, mark |-> {}]
  /\ rows' = rows \cup pass.batch /\ mark' = Commit(pass.mark)
  /\ Calm /\ UNCHANGED <<fileVars, registry, jobVars, cleanup, slips>>
IngestStep == (\E s \in SessionsOf(disk) : IngestRead(s)) \/ IngestCommit

----------------------------------------------------------------------------
(* agent cleanup *)

\* _claimed_log_dirs, project_owners, orphaned_log_dirs: what the registered
\* projects' links resolve to, never the hash of their paths.
Owners(projects) == [p \in {q \in projects : HasLogs(q)} |-> link[Real(p)]]

\* Mutant of Orphaned: a project owns what its own path hashes to.
OrphanedByPath(projects) == logs \ {Real(p) : p \in {q \in projects : HasLogs(q)}}

Orphaned(projects) == logs \ Range(Owners(projects))
Stale(projects) == {p \in projects : ~HasLogs(p)}

Survey ==
  /\ cleanup.pc = "idle" /\ plan.cleanup
  /\ \/ cleanup' = [cleanup EXCEPT !.pc = "listed", !.scope = Orphaned(registry)]
        /\ Calm /\ UNCHANGED slips
     \* read_project_paths makes an empty registry of a storage error.
     \/ cleanup' = [cleanup EXCEPT !.pc = "listed", !.scope = Orphaned({})]
        /\ Happens("storage") /\ slips' = slips \cup {"storage"}
  /\ UNCHANGED <<fileVars, indexVars, registry, jobVars>>
SurveyStale ==
  /\ cleanup.pc = "listed"
  /\ cleanup' = [cleanup EXCEPT !.pc = "asked", !.stale = Stale(registry)]
  /\ Calm /\ UNCHANGED <<fileVars, indexVars, registry, jobVars, slips>>
Decline ==
  /\ cleanup.pc = "asked" /\ cleanup' = [cleanup EXCEPT !.pc = "done"]
  /\ Calm /\ UNCHANGED <<fileVars, indexVars, registry, jobVars, slips>>

\* Mutant of RemoveLogs: the rows of what could not be removed are forgotten.
RemoveLogsInverted(d) ==
  /\ cleanup.pc \in {"asked", "removing"} /\ d \in cleanup.scope
  /\ \/ /\ logs' = logs \ {d} /\ disk' = {x \in disk : x.session.hash # d}
        /\ cleanup' = [cleanup EXCEPT !.pc = "removing", !.scope = @ \ {d}]
        /\ Calm
     \/ /\ cleanup' = [cleanup EXCEPT !.pc = "removing", !.scope = @ \ {d}, !.gone = @ \cup {d}]
        /\ Happens("rmtree") /\ UNCHANGED <<logs, disk>>
  /\ UNCHANGED <<dirs, link, target, indexVars, registry, jobVars, slips>>

\* rmtree of one directory after the other, each of which may break off.
RemoveLogs(d) ==
  /\ cleanup.pc \in {"asked", "removing"} /\ d \in cleanup.scope
  /\ \/ /\ logs' = logs \ {d} /\ disk' = {x \in disk : x.session.hash # d}
        /\ cleanup' = [cleanup EXCEPT !.pc = "removing", !.scope = @ \ {d}, !.gone = @ \cup {d}]
        /\ Calm
     \/ /\ \E lost \in SUBSET SessionsOf({x \in disk : x.session.hash = d}) :
             disk' = {x \in disk : x.session \notin lost}
        /\ cleanup' = [cleanup EXCEPT !.pc = "removing", !.scope = @ \ {d}]
        /\ Happens("rmtree") /\ UNCHANGED <<logs>>
  /\ UNCHANGED <<dirs, link, target, indexVars, registry, jobVars, slips>>

\* delete_projects: the rows of what was removed, without the ingest lock.
ForgetProjects ==
  LET Kept(S) == {x \in S : x.session.hash \notin cleanup.gone} IN
  /\ cleanup.pc \in {"asked", "removing"} /\ cleanup.scope = {}
  /\ cleanup' = [cleanup EXCEPT !.pc = "pruning"]
  /\ rows' = Kept(rows) /\ mark' = Kept(mark)
  /\ slips' = IF Kept(pass.mark) = pass.mark THEN slips ELSE slips \cup {"overlap"}
  /\ Calm /\ UNCHANGED <<fileVars, pass, registry, jobVars>>
Prune ==
  /\ cleanup.pc = "pruning" /\ cleanup' = [cleanup EXCEPT !.pc = "done"]
  /\ \/ registry' = registry \ cleanup.stale /\ Calm
     \/ Happens("storage") /\ UNCHANGED <<registry>>
  /\ UNCHANGED <<fileVars, indexVars, jobVars, slips>>
KillCleanup ==
  /\ cleanup.pc \in {"removing", "pruning"} /\ Happens("kill")
  /\ cleanup' = [cleanup EXCEPT !.pc = "done"] /\ slips' = slips \cup {"kill"}
  /\ UNCHANGED <<fileVars, indexVars, registry, jobVars>>

CleanupRuns == SurveyStale \/ (\E d \in Dirs : RemoveLogs(d)) \/ ForgetProjects \/ Prune
CleanupStep == Survey \/ CleanupRuns \/ Decline \/ KillCleanup

Next == UserStep \/ LaunchStep \/ IngestStep \/ CleanupStep
Spec == Init /\ [][Next]_vars
FairSpec == Spec /\ WF_vars(IngestStep) /\ WF_vars(CleanupRuns)

----------------------------------------------------------------------------

\* What a request costs by itself, as the viewer shows it.
CostOf(x, use) ==
  ComputeCost(Tables, x.session.provider, Canonical[x.model], use,
              HourKey(x.hour)[1], HourKey(x.hour)[2])
Shown(x) ==
  LET use == ExtractUsage(x.response)
      hk  == HourKey(x.hour)
  IN  Priced(BucketOf(use, 1, IF x.source = "unrecoverable" THEN 1 ELSE 0),
             IF x.response.usage = Unknown THEN CostOf(x, use)
             ELSE ShownCost(x, Tables, x.session.provider, hk[1], hk[2]))

\* The tier a usage is charged in; without a price, whether it is free.
RateOf(x, use) ==
  LET table == Tables[x.session.provider]
      known == SelectSeq(Candidates(Canonical[x.model]), LAMBDA c : Matches(c, DOMAIN table) # {})
  IN  CASE x.session.provider \notin DOMAIN Tables -> Unknown
        [] x.session.provider \in DOMAIN Tables /\ known # <<>> ->
             TierFor(table[BestPrefixKey(Head(known), DOMAIN table)], use)
        [] OTHER -> KnownCost(table, known, use)

\* The requests that are priced in one sum (fold_cells): one project's, of one model,
\* in one hour.  Where they and their sum are in one tier they cost what the viewer
\* shows of each, elsewhere what one request of their sum would cost.
Together(x, y) ==
  /\ x.session.hash = y.session.hash /\ x.session.provider = y.session.provider
  /\ Canonical[x.model] = Canonical[y.model] /\ x.hour = y.hour
Hours(S) == {{y \in S : Together(x, y)} : x \in S}
ChargedFor(G) ==
  LET one   == CHOOSE x \in G : TRUE
      shown == Merged(G, Shown)
      alike == \A y \in G : RateOf(y, ExtractUsage(y.response)) = RateOf(one, shown.usage)
  IN  IF alike THEN shown
      ELSE Priced([shown EXCEPT !.cost = 0, !.costUnknown = FALSE], CostOf(one, shown.usage))

\* What `agent stats` and usage.json charge is what was used: for every window and
\* every selection of projects, the rows with the orphaned one, the models and the
\* days each add up to the indexed requests of those days, none twice, each at its
\* tokens and an hour's requests at the cost that the viewer shows of them, unless the
\* hour leaves the tier that its requests are in, or two projects claim one log
\* directory (build_report, fold_cells, hour_bounds, compute_cost, RecordParser.parse,
\* enrich_with_costs).
Shared == \E p, q \in DOMAIN Owners(registry) : p # q /\ Owners(registry)[p] = Owners(registry)[q]
Charged(used) == Merged(Hours({x \in Counted(rows) : used[x]}), ChargedFor)
UsedBy(shown, orphan, own, w) ==
  [x \in rows |-> /\ DayInRange(DayKey(x.hour), w)
                  /\ \/ \E p \in shown \cap DOMAIN own : own[p] = x.session.hash
                     \/ orphan /\ x.session.hash \notin Range(own)]
SameSums(rep, exp) ==
  /\ Merge(Merged(rep.rows, LAMBDA r : r.total), rep.orphaned) = exp
  /\ Merged(DOMAIN rep.byModel, LAMBDA m : rep.byModel[m]) = exp
  /\ Merged(DOMAIN rep.byDay, LAMBDA d : rep.byDay[d]) = exp
AddsUp(shown, orphan, own, w) ==
  SameSums(BuildReport(rows, shown, own, w, orphan, Tables),
           Charged(UsedBy(shown, orphan, own, w)))
Selections == {<<registry, TRUE>>} \cup {<<{p}, FALSE>> : p \in registry}
AskedWindows ==
  {ResolveWindow(a.from, a.until, a.days, a.today) : a \in Windows} \ {WindowError}
ReportAddsUp ==
  /\ Shared \/ \A w \in AskedWindows, sel \in Selections :
                 AddsUp(sel[1], sel[2], Owners(registry), w)
  /\ \A a \in Windows :
       DayTotals(rows, a.today, Tables) = Charged([x \in rows |-> DayKey(x.hour) = a.today])

\* No two registered paths claim one log directory, whatever spellings of it agents are
\* launched from at once and wherever a launch fails or is killed, unless the user moved
\* files or the registry could not be read (link_litellm_logs, record_project).
ClaimedOnce == Shared => slips \cap {"user", "storage"} # {}

\* Cleanup removes no log directory that a registered project claims, and forgets no
\* registered project that has one, unless a launch or the user made the claim after
\* the survey or the registry could not be read (run_cleanup's exact scope).
CleanupSpares ==
  [][/\ \A d \in logs \ logs' : d \in Range(Owners(registry)) => slips \cap {"late", "storage"} # {}
     /\ \A p \in registry \ registry' : cleanup' # cleanup /\ HasLogs(p) => "late" \in slips]_vars

\* A request in a log file is counted in the end, or its file was removed, unless a
\* pass was under way while cleanup forgot its project, cleanup was killed, or it lost
\* the file in a removal that failed and the next one had as many lines when a pass
\* looked (is_truncated compares sizes).
EventuallyCounted ==
  \A q \in Requests :
    (\E x \in disk : x.id = q) ~>
      (\/ \A x \in disk : x.id = q => x \in rows \/ Regrown(x.session)
       \/ slips \cap {"overlap", "kill", "regrown"} # {})

\* What cleanup removed is forgotten: no row is left of a log directory that is gone,
\* except while cleanup is at it, and but for the same two slips (delete_projects).
DeletedIsForgotten ==
  \A x \in rows : \/ x.session.hash \in logs
                  \/ cleanup.pc = "removing" /\ x.session.hash \in cleanup.gone
                  \/ slips \cap {"overlap", "kill"} # {}

\* The sweep of instance directories takes none that is in use, of an agent that runs
\* or of a launch whose container is yet to come, though its list of agents is one of a
\* moment ago, unless docker stopped answering between two questions or a launch took
\* the hour of grace to start its container (_sweep_stale_instance_state).
SweepSparesUsed ==
  [][\A m \in Launches :
       state[m] # "none" /\ state'[m] = "none" /\ InUse(m)'
         => slips' \cap {"docker", "slow"} # {}]_vars

=============================================================================
