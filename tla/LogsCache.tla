------------------------------ MODULE LogsCache ------------------------------
(***************************************************************************)
(* The cache of the logs viewer (domain/logs/cache.py) and its watcher     *)
(* (watcher.py): one consumer thread that, on a filesystem event or a      *)
(* heartbeat, ingests, regroups the projects and derives the lists and     *)
(* their markers anew from the index; and usage.json (usage_tracker.py).   *)
(*                                                                         *)
(* Around it, what it races with: sidecars that append records, launches   *)
(* that register projects, other processes that ingest, delete an orphaned *)
(* project's logs or an expired session, and midnight.  A directory's      *)
(* record file is the sequence of its records; the index holds a prefix.   *)
(* Both registry and index are stamped by one clock, time.time_ns().       *)
(***************************************************************************)
EXTENDS SessionLists

CONSTANTS
  Stop,        \* WATCH_STOP, the sentinel on the watcher's queue
  Unknown,     \* None: no revision, no payload
  AtStart,     \* the projects that were launched before the viewer starts
  Events,      \* what the environment does, see EventKinds
  MaxEvents    \* bound: how many of those things happen

EventKinds ==
  { "project",  \* a launch registers its project and links its logs directory
    "forget",   \* the user deletes a project's directory
    "reindex",  \* another process ingests
    "expire",   \* another process deletes a session's rows and files
    "cleanup",  \* `agent cleanup` deletes the orphaned directories
    "midnight", \* the day changes
    "fail",     \* a pass raises
    "stop" }    \* the viewer is stopped

ASSUME LogsCacheAssumption ==
  /\ AtStart \subseteq Projects
  /\ Events \subseteq EventKinds
  /\ MaxEvents \in Nat
  /\ Stop \notin Keys /\ Unknown \notin [rev : Nat, count : Nat]

VARIABLES
  seen,      \* the registry: seen[p] is last_seen_at, 0 if p is not in it
  linked,    \* the projects whose .claude/litellm-logs exists
  dirs,      \* the project directories of the central tree
  disk,      \* disk[k]: the records in messages.jsonl
  rows,      \* the sessions table: rows[k] is NoRow or [recs, stamp]
  now,       \* the clock
  day,       \* the day by DAY_START_HOURS
  dayOf,     \* dayOf[r]: the day record r was written, 0 if it was not
  events,    \* how many of the environment's things happened
  scope,     \* what an `agent cleanup` surveyed and has not acted on yet
  queue,     \* the watcher's queue, as the paths in it
  watching,  \* the observer is running
  pc,        \* where the consumer is
  pass,      \* the pass it is in
  probed,    \* the revision it read
  read,      \* the rows it read
  groups,    \* _groups, with _root_to_pid and _group_hashes
  lists,     \* _sessions
  marks,     \* _sessions_fp and _session_fp
  projects,  \* _projects
  gate,      \* _index_revision
  today,     \* the tracker's _today_key
  usage      \* usage.json and the payload this process wrote last

env == <<seen, linked, dirs, disk, dayOf, day, scope>>
derived == <<groups, lists, marks, projects, gate>>
consumer == <<pc, pass, probed, read>>
cacheVars == <<env, rows, now, events, queue, watching, consumer, derived, today, usage>>

Registered == {p \in Projects : seen[p] # 0}
GroupsNow == ListGroups(Registered, linked, dirs)

\* The requests of day d in the index.
DayTotal(table, d) ==
  MapThenSumSet(LAMBDA k : Cardinality({i \in DOMAIN table[k].recs : dayOf[table[k].recs[i]] = d}),
                {k \in Keys : table[k] # NoRow})

Init ==
  /\ seen = [p \in Projects |-> IF p \in AtStart THEN 1 ELSE 0]
  /\ linked = AtStart /\ dirs = {HashOf[p] : p \in AtStart}
  /\ disk = [k \in Keys |-> <<>>]
  /\ rows = [k \in Keys |-> NoRow]
  /\ now = 1 /\ day = 1
  /\ dayOf = [r \in Records |-> 0]
  /\ events = 0 /\ scope = Unknown
  /\ queue = {} /\ watching = FALSE
  /\ pc = "ingest" /\ pass = "rebuild"
  /\ probed = Unknown /\ read = rows
  /\ groups = <<>> /\ lists = <<>> /\ marks = <<>> /\ projects = {}
  /\ gate = Unknown
  /\ today = 1
  /\ usage = [file |-> Unknown, last |-> Unknown]

-----------------------------------------------------------------------------
(* The environment.                                                        *)

Event(e) == e \in Events /\ events < MaxEvents /\ events' = events + 1

\* A launch first creates the central directory and the link to it, and then
\* registers the project.
LinkLogs(p) ==
  /\ Event("project")
  /\ p \notin linked
  /\ linked' = linked \cup {p}
  /\ dirs' = dirs \cup {HashOf[p]}
  /\ UNCHANGED <<seen, disk, dayOf, day, scope, rows, now, queue, watching, consumer,
                 derived, today, usage>>

RecordProject(p) ==
  /\ Event("project")
  /\ p \in linked
  /\ now' = now + 1
  /\ seen' = [seen EXCEPT ![p] = now + 1]
  /\ UNCHANGED <<linked, dirs, disk, dayOf, day, scope, rows, queue, watching, consumer,
                 derived, today, usage>>

ForgetProject(p) ==
  /\ Event("forget")
  /\ p \in linked
  /\ linked' = linked \ {p}
  /\ UNCHANGED <<seen, dirs, disk, dayOf, day, scope, rows, now, queue, watching, consumer,
                 derived, today, usage>>

\* A sidecar appends a record; inotify reports it if it is being watched.
AppendRecord(r) ==
  LET k == KeyOf[r] IN
  /\ dayOf[r] = 0
  /\ HashOfKey[k] \in {HashOf[p] : p \in Registered}
  /\ dirs' = dirs \cup {HashOfKey[k]}
  /\ disk' = [disk EXCEPT ![k] = Append(@, r)]
  /\ dayOf' = [dayOf EXCEPT ![r] = day]
  /\ queue' = IF watching THEN queue \cup {k} ELSE queue
  /\ UNCHANGED <<seen, linked, day, scope, rows, now, events, watching, consumer, derived,
                 today, usage>>

Midnight ==
  /\ Event("midnight")
  /\ day' = day + 1
  /\ UNCHANGED <<seen, linked, dirs, disk, dayOf, scope, rows, now, queue, watching, consumer,
                 derived, today, usage>>

\* Every directory with unread records gets its row brought up to date.
Ingested ==
  [k \in Keys |->
     IF disk[k] # <<>> /\ (rows[k] = NoRow \/ rows[k].recs # disk[k])
     THEN [recs |-> disk[k], stamp |-> now + 1] ELSE rows[k]]

Ingest ==
  /\ rows' = Ingested
  /\ now' = IF Ingested # rows THEN now + 1 ELSE now

Reindex ==
  /\ Event("reindex")
  /\ Ingested # rows
  /\ Ingest
  /\ UNCHANGED <<env, queue, watching, consumer, derived, today, usage>>

ExpireSession(k) ==
  /\ Event("expire")
  /\ rows[k] # NoRow /\ rows[k].recs = disk[k]
  /\ rows' = [rows EXCEPT ![k] = NoRow]
  /\ disk' = [disk EXCEPT ![k] = <<>>]
  /\ UNCHANGED <<seen, linked, dirs, dayOf, day, scope, now, queue, watching, consumer,
                 derived, today, usage>>

\* cleanup_scope; then, after the user has confirmed, run_cleanup on exactly
\* that scope: the directories, their rows, the stale registrations.
SurveyCleanup ==
  /\ Event("cleanup")
  /\ scope = Unknown
  /\ scope' = [hashes |-> Orphans(Registered, linked, dirs), stale |-> Registered \ linked]
  /\ UNCHANGED <<seen, linked, dirs, disk, dayOf, day, rows, now, queue, watching, consumer,
                 derived, today, usage>>

RunCleanup ==
  /\ scope # Unknown
  /\ dirs' = dirs \ scope.hashes
  /\ disk' = [k \in Keys |-> IF HashOfKey[k] \in scope.hashes THEN <<>> ELSE disk[k]]
  /\ rows' = [k \in Keys |-> IF HashOfKey[k] \in scope.hashes THEN NoRow ELSE rows[k]]
  /\ linked' = {p \in linked : HashOf[p] \notin scope.hashes}
  /\ seen' = [p \in Projects |-> IF p \in scope.stale THEN 0 ELSE seen[p]]
  /\ scope' = Unknown
  /\ UNCHANGED <<dayOf, day, now, events, queue, watching, consumer, derived, today, usage>>

Environment ==
  \/ \E p \in Projects : RecordProject(p) \/ LinkLogs(p) \/ ForgetProject(p)
  \/ \E r \in Records : AppendRecord(r)
  \/ \E k \in Keys : ExpireSession(k)
  \/ Midnight \/ Reindex \/ SurveyCleanup \/ RunCleanup

-----------------------------------------------------------------------------
(* The consumer thread.  rebuild() runs on the starting thread before the  *)
(* watcher exists; it is a reconcile on an empty cache.                    *)

Resolves(k) == Owners(groups, HashOfKey[k]) # {}

\* _take_batch and the choice apply_paths makes: the complete pass on a
\* rollover, on a path of no known group, and on a heartbeat.
TakeBatch ==
  /\ pc = "idle" /\ queue # {} /\ Stop \notin queue
  /\ queue' = {}
  /\ pass' = IF day # today \/ \E k \in queue : ~Resolves(k) THEN "reconcile" ELSE "paths"
  /\ pc' = "ingest"
  /\ UNCHANGED <<env, rows, now, events, watching, probed, read, derived, today, usage>>

\* Mutant of Heartbeat: a heartbeat takes the fast path.
HeartbeatFast ==
  /\ pc = "idle" /\ queue = {}
  /\ pass' = "paths"
  /\ pc' = "ingest"
  /\ UNCHANGED <<env, rows, now, events, queue, watching, probed, read, derived, today, usage>>

Heartbeat ==
  /\ pc = "idle" /\ queue = {}
  /\ pass' = "reconcile"
  /\ pc' = "ingest"
  /\ UNCHANGED <<env, rows, now, events, queue, watching, probed, read, derived, today, usage>>

\* Anything else on the queue with the sentinel is dropped.
TakeStop ==
  /\ pc = "idle" /\ Stop \in queue
  /\ pc' = "stopped"
  /\ UNCHANGED <<env, rows, now, events, queue, watching, pass, probed, read, derived, today,
                 usage>>

AfterIngest == IF pass = "paths" THEN "probe" ELSE "regroup"

IngestNow ==
  /\ pc = "ingest"
  /\ Ingest
  /\ pc' = AfterIngest
  /\ UNCHANGED <<env, events, queue, watching, pass, probed, read, derived, today, usage>>

\* Another process holds the ingest lock: the pass goes on without.
IngestLockHeld ==
  /\ pc = "ingest"
  /\ Event("reindex")
  /\ pc' = AfterIngest
  /\ UNCHANGED <<env, rows, now, queue, watching, pass, probed, read, derived, today, usage>>

\* Mutant of Regroup: the gate stays closed.
RegroupOnly ==
  /\ pc = "regroup"
  /\ groups' = GroupsNow
  /\ pc' = "probe"
  /\ UNCHANGED <<env, rows, now, events, queue, watching, pass, probed, read, lists, marks,
                 projects, gate, today, usage>>

\* _regroup: a group list that moved re-opens the gate.
Regroup ==
  /\ pc = "regroup"
  /\ groups' = GroupsNow
  /\ gate' = IF groups = GroupsNow THEN gate ELSE Unknown
  /\ pc' = "probe"
  /\ UNCHANGED <<env, rows, now, events, queue, watching, pass, probed, read, lists, marks,
                 projects, today, usage>>

\* _refresh_from_index: the revision and the rows are two statements.
ProbeRevision ==
  /\ pc = "probe"
  /\ probed' = Revision(rows)
  /\ pc' = IF gate = Revision(rows) THEN "usage" ELSE "read"
  /\ UNCHANGED <<env, rows, now, events, queue, watching, pass, read, derived, today, usage>>

ReadSessions ==
  /\ pc = "read"
  /\ read' = rows
  /\ pc' = "lists"
  /\ UNCHANGED <<env, rows, now, events, queue, watching, pass, probed, derived, today, usage>>

SwapLists ==
  /\ pc = "lists"
  /\ lists' = Lists(read, groups)
  /\ pc' = "marks"
  /\ UNCHANGED <<env, rows, now, events, queue, watching, pass, probed, read, groups, marks,
                 projects, gate, today, usage>>

SwapMarks ==
  /\ pc = "marks"
  /\ marks' = Markers(read, groups)
  /\ projects' = ListedProjects(lists, groups)
  /\ gate' = probed
  /\ probed' = Unknown
  /\ read' = [k \in Keys |-> NoRow]
  /\ pc' = "usage"
  /\ UNCHANGED <<env, rows, now, events, queue, watching, pass, groups, lists, today, usage>>

\* Mutant of FlushUsage: the day is never adopted.
FlushUsageOldDay ==
  /\ pc = "usage"
  /\ usage' = LET total == DayTotal(rows, today)
              IN IF total = usage.last THEN usage ELSE [file |-> total, last |-> total]
  /\ watching' = (watching \/ pass = "rebuild")
  /\ pc' = "idle" /\ pass' = "none"
  /\ UNCHANGED <<env, rows, now, events, queue, probed, read, derived, today>>

\* UsageTracker.flush: adopts a new day, then writes the payload, or touches
\* the file if the payload is the one this process wrote last.
FlushUsage ==
  /\ pc = "usage"
  /\ today' = day
  /\ usage' = LET total == DayTotal(rows, day)
              IN IF total = usage.last THEN usage ELSE [file |-> total, last |-> total]
  /\ watching' = (watching \/ pass = "rebuild")
  /\ pc' = "idle" /\ pass' = "none"
  /\ UNCHANGED <<env, rows, now, events, queue, probed, read, derived>>

\* An exception ends the pass where it is, and is logged; while the cache is
\* being built for the first time it ends the viewer.
PassFails ==
  /\ pc \in {"ingest", "regroup", "probe", "read", "usage"}
  /\ Event("fail")
  /\ pc' = IF pass = "rebuild" THEN "stopped" ELSE "idle"
  /\ pass' = "none"
  /\ probed' = Unknown
  /\ UNCHANGED <<env, rows, now, queue, watching, read, derived, today, usage>>

\* CacheWatcher.stop: the observer first, then the sentinel.
StopWatcher ==
  /\ watching
  /\ Event("stop")
  /\ watching' = FALSE
  /\ queue' = queue \cup {Stop}
  /\ UNCHANGED <<env, rows, now, consumer, derived, today, usage>>

Consumer ==
  \/ TakeBatch \/ Heartbeat \/ TakeStop
  \/ IngestNow \/ Regroup \/ ProbeRevision \/ ReadSessions \/ SwapLists \/ SwapMarks \/ FlushUsage

CacheNext == Environment \/ Consumer \/ IngestLockHeld \/ PassFails \/ StopWatcher

CacheSpec == Init /\ [][CacheNext]_cacheVars

\* The consumer thread runs; its heartbeat comes on a quiet queue.
CacheFairSpec == CacheSpec /\ WF_cacheVars(Consumer)
=============================================================================
