# Formal model of agent-wrap

agent-wrap runs coding agents in Docker containers. Every `agent run` is a process
of its own; what the runs of one install share are *sidecar* containers (one LiteLLM
proxy per provider, one Telegram bridge for all), a tree of request logs with an index
over it, a logs viewer, and the checkout the install runs from. There is no supervisor:
the runs coordinate through `flock`ed files only. The hard part of this program is
therefore what several processes do to shared state while any of them may fail, be
interrupted or be killed. That is what these modules model.

All source paths below are relative to `src/agent_wrap/`.

## The system

| Component | State | Operations | Hard behaviour | Correct when |
| --- | --- | --- | --- | --- |
| Lock primitives (`lib/flock.py`, `lib/priority_lock.py`) | lock files, tickets | lock, try-lock, lock-and-hold, clear, probe, reap; lock at high/low priority | probes take the lock they ask about; files are unlinked while others open them; holders die | one holder; dead holders count as gone; stops yield, nobody waits forever |
| Tracker (`domain/sidecars/tracker.py`) and registry reader (`domain/sidecars/service.py`) | `start-waiters/`, `running/<container>/` | register, clear, "has live runners", lock-free listing | listing is concurrent with registration | an agent is registered exactly while it runs |
| Sidecars (`domain/sidecars/{base,litellm,telegram}.py`, `domain/providers/key_approval.py`) | containers, their environment, the approved keys in `.claude.json` | prepare, ensure (migrate, adopt or cold-start, approve, poll), release (un-approve, stop) | failure between any two steps; adoption of what another run started | up while anybody uses it; down when nobody does; key recovered and approved |
| Launch service (`domain/launch/service.py`) | per-instance state | prepare, lock, ensure all, startup script, register all, `docker run`, teardown | the order of all this against other launches | see the two rows above |
| Request log writer (`domain/providers/litellm_runtime/`) | strings buffer, seen hashes, `strings.jsonl`, `messages.jsonl` | build record, flush, append (in threads) | two writers, one buffer; two files, one crash | a record's strings are on disk when the record is |
| Log index (`domain/logs/{ingest,service}.py`, `infrastructure/logs/`) | SQLite rows, blobs, watermarks | ingest a chunk, reset, retention, blob sweep | appends during reads; crash between chunks; sweeping what is about to be used | every record once; nothing unread deleted; no dangling blob |
| Logs viewer daemon (`domain/logs/{service,daemon}.py`) | state file, spawn lock, process | claim, spawn, serve, repair, stop | repair against claim; non-atomic writes | at most one viewer; its state file tells the truth |
| Logs cache and watcher (`domain/logs/{cache,watcher,server,stream}.py`) | cached lists and fingerprints | apply paths, reconcile, serve | handler threads read while the watcher swaps | a reader's snapshot is one snapshot |
| Database (`infrastructure/`) | schema version, backup | back up, migrate, open | two processes open an old database | each migration applied once |
| Updates (`domain/updates/`) | the git checkout | check, fast-forward, propagate, re-provision | a launch starts between check and pull | commands run what they loaded on what they build |
| Image builds (`domain/build/`) | docker images and their stamps | judge, build, restamp, survey, remove | queues for one lock; sources that move; removals | an agent runs on the image its sources ask for; nothing is built twice |
| Startup script (`domain/startup/`) | a process tree | run, time out, terminate | runs under the start lock | it is gone before the next one runs |
| Stats and pricing (`domain/{stats,pricing,providers}/`) | none of their own | query, fold, price, attribute, render | windows, time-dependent prices, aliases of a project | reports add up to what was used |
| Projects (`domain/config/`), `agent cleanup` | registry, log links | record, link, prune; survey, remove, forget | symlinks, moved and copied directories; launches during a cleanup | spend is attributed once; nothing in use is removed |
| Secrets (`domain/secrets/`) | encrypted file, keyfile | read, prompt, set, clear, clean up, check | no lock; a format change on read | what was entered is kept |
| Status, display, create, the rest of the CLI | none | sequential input and output | none | — |

How they interact: a launch calls the sidecars' `prepare`, `ensure` and `release` around
its agent; the sidecars call docker and edit `.claude.json`; the LiteLLM container runs the
log writer; the viewer and the CLI ingest what it wrote; retention deletes it; the CLI's
`inspect` and the updater read the registry without its lock.

## Modules

| Module | Models |
| --- | --- |
| `FlockDir` | a directory of lock-held files: what each operation of `lib/flock.py` does to one file and to a walk over them. Operators only |
| `SidecarLifecycle` | the launches, the priority lock, the registry, the containers and the key approvals: the whole life of an `agent run` as far as others see it |
| `RefCount` | the abstract promise: a use count per container; taken down only at zero |
| `SidecarLifecycle_proof` | the inductive invariants of lock, containers, registrations and keys, and the theorems |
| `Preflight` | what a launch decides before it touches anything: directory, Dockerfile, directives, mounts, secrets. Operators only |
| `SidecarNetwork` | networks, ports, the way of an agent to its sidecars, Telegram sessions, the startup script's process tree |
| `SidecarNetwork_proof` | the types, the inductive invariants of scripts, sessions and ways, and the theorems |
| `LogFiles` | the two append-only files of a session directory, and what may go wrong with them. Operators and constants |
| `LogWriter` | the callback in the sidecar: hashers, buffers, concurrent flushes and appends |
| `LogIndex` | the tables of the index, the ingest pass, retention and the blob sweep |
| `LogPipeline` | the three together over the same files and tables, and their properties |
| `RequestIndex` | the abstract promise: the rows of a session follow the records of its file, and leave after it |
| `LogPipeline_proof` | the inductive invariants of the types, the blob store, the order of the index, the strings and the refinement, and the theorems |
| `ViewerDaemon` | the viewer as a singleton: claim, fork, state file, repair, stop |
| `ViewerDaemon_proof` | the inductive invariants of lock, state file and viewers, and the theorems |
| `SessionLists` | what the viewer derives from index and registry: groups, lists, markers, the order of a session. Operators only |
| `LogsCache` | the watcher's consumer thread, its swaps of the lists, usage.json, and what it races with |
| `LogsViewer` | the handlers over cache and index, and one browser tab that polls a session |
| `LogsViewer_proof` | the inductive invariant of the lists and the revision they were derived at, what sorting, concatenating and cutting into batches give, and the theorems |
| `Checkout` | the git checkout and the commands that update it |
| `Migrations` | opening the database: version check, backup, migrations |
| `Images` | docker images, their stamps, the build lock, rebuilds and removal |
| `Install` | commands that share one checkout, database and set of images |
| `Install_proof` | the inductive invariants of checkout, database and images, and the theorems |
| `Pricing` | tiers, prefixes, peak hours, buckets. Operators only |
| `RequestUsage` | the usage of one request: from the callback's arguments to its record, its row and what the viewer shows. Operators only |
| `Reports` | windows, cells, the fold and the attribution of `agent stats` and usage.json. Operators only |
| `PathTree` | the tree of paths that is folded and unfolded to fit the console. Operators only |
| `Accounts` | project directories, links, registry, requests, index and cleanup: who is charged for what |
| `Accounts_proof` | the inductive invariants of the types, of what was deleted, of what cleanup spares and of who claims a log directory, and the theorems |
| `StatsTree` | the reports of `Accounts` as the printed tree |
| `SecretStore` | the secrets file and its keyfile under concurrent commands |
| `SecretStore_proof` | the inductive invariant of file, key and what each command holds, and the theorems |
| `MC*` | the instances for TLC: who declares what, plans, crews, tables |

Composition: `LogPipeline` joins `LogFiles`, `LogWriter` and `LogIndex` and implements `RequestIndex`; `Install` joins `Checkout`,
`Migrations` and `Images` over the same commands; `LogsViewer` extends `LogsCache`, which extends
`SessionLists`; `Reports` extends `Pricing`, `Accounts` extends `Reports` and `RequestUsage`, `StatsTree` joins it
with `PathTree`; `SidecarNetwork` uses `Preflight`. `SidecarNetwork` takes from `SidecarLifecycle` what is shown
there: starts go before stops, and a launch is registered from leaving the lock to the end of its agent.

### SidecarLifecycle and the code

State. `pc[i]` and `cur[i]`: where the process of launch `i` is, and the sidecar its loop is
at. `lock`: the holder of `sidecars.lock`. `file[d][i]`: the file named after instance `i` in
`start-waiters/` or `running/<container>/`, which is absent, free, held by its owner or held by
a probing reader. `cont[c]`: `docker ps` and the health endpoint of a container. `contKey[c]`:
the `LITELLM_MASTER_KEY` of its environment. `key[i]`: the key in the launch's memory and
its agent's environment. `approved`: the approved keys of `.claude.json`. `agent[i]`: the agent
container. `reader`: one process in the middle of `live_lock_ids`.

Actions, in the order a launch takes them:

| Code | Actions |
| --- | --- |
| `sidecar.prepare()` | `Prepare` |
| `_high_priority_lock` | `OpenTicket`, `LockTicket` (the two system calls of `lock_and_hold`), `HiEnter`, `HiTimeout` |
| `ensure()` of each sidecar | `StopLegacy`, `Adopt` or `ColdStart`, `Approve`, `PollHealthy` or `PollFailed`; `SkipHeadless` |
| anything in there raising, the startup script, Ctrl-C | `Fail` |
| `register_running` of each sidecar, leaving the lock | `OpenReg`, `LockReg` |
| `subprocess.run(docker run)` | `RunAgent`, `AgentExits` |
| `_release_sidecars` | `ClearReg`, `LoEnter`, `LoYield`, `LoProceed`, `KeepSidecar` or `ReleaseSidecar`, `Unapprove`, `StopSidecar`; `FailRelease` |
| the environment | `Kill`, `OrphanExits`, `TurnHealthy`, `Die`, `ReaderLists`, `ReaderProbes`, `ReaderReleases` |

Abstractions. What is taken as one step: a stopper's walk over one directory (every file in it
has one owner, and a registration or ticket lost to the walk is lost in the single-step walk
too); releasing a file's lock and unlinking it (in between it is "free", which a stopper reaps
to the same effect); acquiring `sidecars.lock` and clearing the ticket; `docker stop` with
`docker rm`; `_is_running` with the `docker inspect` that follows it. A stopped container that
was not removed is the same as none, since every start reaps it first. A key is named by the
launch that minted it. There is one reader at a time. The `docker stop` of the migration is
taken to succeed. Ports, networks, Telegram tokens and the startup script's process tree are
`SidecarNetwork`'s subject, the directories of an instance `Accounts`'s.

### LogPipeline and the code

State of the files (`LogFiles`). `msgs[s]` and `strs[s]`: `messages.jsonl` and `strings.jsonl` of a
session directory, as sequences of lines. A line is a record or a string, `Bad` when it does not parse, or
`Torn`, the last one without its newline. Records hold contents (messages, prompts, replies), contents
hold strings long enough to be replaced by a pointer; which ones are constants.

State of the sidecar (`LogWriter`), per session id: `loaded` (it is in `_SESSION_HASHERS`), `known`
(`_strings_to_hashes`), `pending` (`_hashes_to_strings`), `seen` (`_seen_hashes`), and a ghost, `dropped`: what a flush
lost by an exception. `loop`: the record whose
`build_record` keeps the event loop busy. `task[r]` and `hands[r]`: where the handling of a record is and the
mappings its flush has grabbed.

State of the index (`LogIndex`): `rowM`, `rowT` (`messages_offset`, `strings_offset`), `reqs` (requests by
ordinal), `blobs`, `ilock` (`logs-ingest.lock`), the local variables of an ingest pass (`ing`, `todo`, `icur`,
`pos`, `chunk`, `carried`) and of a cleanup (`rec`, `scope`, `rcur`, `listed`, `deleted`, `doomed`). `gone` is a
ghost: the sessions whose deletion has begun and not ended in `delete_sessions`.

| Code | Actions |
| --- | --- |
| `build_record` up to its flush | `Build` |
| `flush`, on the loop and in a thread | `FlushNothing`, `FlushGrab`, `FlushWrite`, `FlushFails` (errors it catches), `FlushRaises` (those of `mkdir` it does not) |
| `_write_record_async` after its flush | `Resume`, `AppendRecord`, `AppendFails` |
| the sidecar stops | `Kill`, `KillInAppend` |
| `ingest_tree`, `discover_sessions` | `IngestStart`, `IngestEnd` |
| `_ingest_session` (truncation check, reset) | `OpenSession` |
| `read_ingest_chunks`, `ingest_chunk` | `ReadLine`, `CommitChunk`, `ReadEnd`, `FinishSession` |
| an exception in a session; the pass dies | `IngestFails`, `IngestCrashes` |
| `retention_scope`, the question, the lock | `Survey`, `ReclaimDeclined`, `ReclaimStart` |
| `_apply_retention` with `shutil.rmtree` | `CheckSession`, `ListDir`, `RemoveFile`, `RemoveDir`, `RemoveFails`, `ForgetSessions` |
| `sweep_blobs`, its two transactions | `SweepRead`, `SweepDelete` |
| the cleanup dies | `ReclaimCrashes` |

Abstractions. Offsets count lines, not bytes, and an absent file is an empty one. All lines of one flush reach the
file together unless the sidecar dies in between. The grab in `flush` (two assignments) is one step: CPython
does not switch threads between them. An uncaught error of `mkdir` is met only while the directory has no lines: a directory
that is there is not made again. A record's `error` counts as one of its contents, and pointers are one
level deep. Sessions are visited in any order, a superset of the sorted order. One ingest pass and one cleanup exist:
a second one of either kind does not get the lock and does nothing. A cleanup's other half, the logs of orphaned
projects, is in `Accounts`. `Old` are the records before the cutoff; an expired session is taken to be idle while
it is deleted and after a deletion that broke off (`Quiet`, `gone`), since its newest record is days old. The event
"late" lifts that assumption; the second ghost, `busy`, collects the sessions that make use of it.

### SidecarNetwork, Preflight and the code

State. `plan[i]`: what launch `i` finds and asks for (`proxy`, `setting`, `hostSwitch`, `telegram`), fixed at the start.
`lock` as above. `docker`: for each container whether it runs, in which mode, on which port, joined to the sidecar network and
started by whom; and whether the network exists. `foreign`: ports other processes hold. `mine`: what a launch has in
memory, with the way to each container (`route`) that its agent will be given. `sessions`: Telegram's. `script[i]`: where each
process of a startup script is, its leader and one at a time that it started: gone, in the group the launch can signal, or on its own.

| Code | Actions |
| --- | --- |
| `launch()` up to `_prepare_for_launch` | `Refuse` (one disjunct per early return), `Accept` |
| `_ensure_network`, `_ensure_sidecar`, `find_free_port`, `_start`, `_health_poll` | `EnsureNetwork`, `StopPredating`, `Adopt`, `ScanPort`, `NoPort`, `Start`, `PollHealthy`, `PollFailed` |
| `_build_connectivity_args` | `Connect` |
| the Telegram sidecar's `ensure`, `/register` | `AdoptTelegram`, `StartTelegram`, `TelegramHealthy`, `TelegramFailed`, `Register` |
| `StartupService.run`, `terminate_tree` | `NoScript`, `RunScript`, `ScriptExits`, `StopScript`, `KillScript`, `CutShort` |
| leaving the lock, `docker run`, the `finally` clause | `LeaveLock`, `RunAgent`, `AgentExits`, `OnExit`, `LoEnter`, `FreeTelegram`, `FreeProxy` |
| the processes of a script | `Spawn`, `Escape` (`setsid`), `Ends` |
| the host | `Listen`, `Die`, `ForeignTakes`, `ForeignLeaves`, `RemoveNetwork`, `TakeOff`, `Kill` |

Abstractions. A Dockerfile is the sequence of the lines that say something. A port is a number below `PortLimit`; the scan
and the container's bind are two steps. An agent gets to a container by a name that docker resolves, by the loopback
address with a port, or by the container's address; `Answers` says who listens there. An answer of `/register` that is
"lost" stands as well for an interrupt after the server gave it (`domain/sidecars/telegram.py:211`).

### Viewer: ViewerDaemon, LogsCache, LogsViewer and the code

`ViewerDaemon`: the state file (absent, being rewritten, or its content), the spawn lock, and per command its control
state, what it read, what it told. `running_server` is a read and a judgement in two steps (`Peek`, `PeekAbsent`,
`PeekFound`), `_claim_or_spawn` is `TakeLock` to `ForkExits`, the double fork's children are `Fork`, `serve_foreground` is
`Serve` (bind, publish in two steps, close), the polls are `Await`, `agent logs --stop` is `Halt`. A pid is never reused.

`LogsCache`: a pass of the consumer is one step per assignment that a handler thread can see (`TakeBatch`, `IngestNow`,
`Regroup`, `ProbeRevision`, `ReadSessions`, `SwapLists`, `SwapMarks`, `FlushUsage`). Registry and index are stamped by one
clock, so a revision is the largest stamp. `LogsViewer` adds a tab: `OpenSession`, `SeedMarker`, `TickProbe`, `TickFetch` are
the requests of `logs_page/app.js`; one answer of a handler is one step.

### Install: Checkout, Migrations, Images and the code

A version is a commit, counted from 1. A command has the code it loaded (`code[c]`) and reads files of the checkout as it
is (`head`). `check_updates` and `apply` are `CheckBehind` to `Provision`; `MigrationRunner.run` is `Connect`, `BackUp`,
`Migrate` (one per script); `ensure_images` is `LockBuild`, `AskBase`, `BuildBase`, `Restamp`, `AskProject`, `BuildProject`,
`UnlockBuild`; `agent cleanup` of images is `Survey`, `Confirmed`, `RemoveImage`. An image is its tag, id, labels and
parent. A killed command's build goes on (`OrphanBuilds`).

### Accounts, Reports and the code

State: which project directories exist, where their log links lead, the central log directories, requests on disk and
in the index with the index's offsets, the registry, the launches, the private state directories, one ingest pass, one
`agent cleanup`. `_prepare_config` under its lock is `Prepare`
(which asks docker for the agents, into `live`), `Sweep` (which goes by that answer and makes the launch's own directory),
`LinkLogs`, `DropAliases`, `Record`; the sidecar's
append is `Request`; the pass is `IngestRead`, `IngestCommit`; the cleanup is `Survey`, `SurveyStale`, `RemoveLogs`,
`ForgetProjects`, `Prune`. The user makes, moves, copies and deletes directories and repoints symlinks; nobody deletes a
directory while a launch is inside `_prepare_config`. A request comes with what LiteLLM hands to the callback, a parsed
response or a raw one with a logging object; `RequestUsage` makes its record, the row and what the viewer shows. A file has its
requests as numbered lines; a pass compares their number with the offset, as `is_truncated` compares sizes, and its one bit of freedom
is `strings.jsonl`, which may show a replaced file all the same. A deletion that breaks off loses whole session files. Costs
are integers, hours count from the epoch. Bitwise identity of a stored blob, money's rounding and the names of a usage
block's fields are left out.

### SecretStore and the code

State: the file (its format, who can open it, its content), the keyfile, and per command its step, the key it derived,
what it read. `derive_key` is `ReadKeyfile` or `ReadKeyfileFails`, `CreateKeyfile`, `FillKeyfile`,
and the key is `Bare` for who could not read `/etc/machine-id`; `read_all` is `Fetch` or `FetchFails`, `Open`, `Rewrite`; the
prompt is `Enter` or `GiveUp`; `write_all` is `Write`. `want` is the ghost: what was entered last under each name. A
cipher is who can open what.

## Runs

`SidecarLifecycle`. Constants: `Launches` 2 or 3, one or two LiteLLM containers and the Telegram container. `Faults`
names what may go wrong in a run; no other bound is needed, a launch runs once and its state
is finite. Two launches are enough for every race of a stopper with a starter; the third gives a
second provider that shares Telegram, and a stopper that meets a starter and a running agent.

| Run | Instance | Shows |
| --- | --- | --- |
| `lifecycle_herd` | 3 launches, 2 providers, Telegram shared by two of them, one headless; slow sidecars, lock timeouts | whoever is registered is served; an agent stays registered; its key is its proxy's and approved; approved keys are those of running sidecars; nothing is left running; no sidecar is taken from an agent |
| `lifecycle_faults` | 2 launches, one container from before the network migration; exceptions under both locks, stops that fail, timeouts, kills, the reader | mutual exclusion; whoever is registered is served; the refinement of `RefCount` |
| `lifecycle_live` | 2 launches; every fault but the reader | a start is decided and a teardown ends |
| `lifecycle_reader` | 2 launches; the reader | *violation*: see the finding |

The run with all faults leaves out the properties that faults do break, and the run with few
faults states those. `ApprovedIsRunning`, `LastLightOut` and `AgentKeyWorks` fail under `fail`,
`stopfail`, `kill` or `death`; `AgentIsRegistered` and `NoStopUnderAgent` fail under `reader`, and
the latter under `kill`. What those failures mean is listed under "hazards" in `PROJECT.json`.

`LogPipeline`. `Events` names what may go wrong, `MaxMishaps` how often in one behaviour, `ChunkRecords` is
`MAX_CHUNK_RECORDS`. A record is handled once, so the files are bounded by the records. In session `s1` every
record repeats the conversation so far, so later ones need strings that earlier ones wrote; `r4` in session `s2`
shares a content with `s1`, which is what the sweep must not take away. Two mishaps allow a failure in a retry, and
a failure of each of two actors.

| Run | Instance | Shows |
| --- | --- | --- |
| `log_index` | 3 concurrent records of one session, chunks of 2; failed opens, directories that cannot be made, crashed passes | the index is a prefix of the file; no string is lost but for those such a directory drops; every record is indexed and every other pointer resolves, eventually |
| `log_reclaim` | 3 records, 2 sessions, chunks of 1; every event | the refinement of `RequestIndex`, through deletions; no content of a request is missing; the sweep spares what is reachable; nothing unread is deleted of a session that is idle meanwhile |

`NoStringLost` is broken by "full", "kill" and "torn" as well (what is in memory only is lost, hazards in
`PROJECT.json`), `EventuallyIndexed` by "torn" and `EventuallyResolved` by all of these and "reclaim"; hence the two
passing runs and what each leaves out.

Fairness of `LogPipeline`: the proxy runs its callbacks and threads to their end; the viewer's watcher starts a
pass at every heartbeat (`CACHE_HEARTBEAT_INTERVAL_SEC`) and a pass that runs goes on; so does a cleanup that has the
lock. `log_index` has no cleanups: against a user who never stops starting them, weak fairness of a pass that only ever tries
the lock promises nothing. No fairness is assumed of requests, failures, crashes and cleanups.

Fairness of `SidecarLifecycle`: `FairSpec` asks for weak fairness of `Step(i)`, what a live launcher does by itself.
It holds of the code because every wait in it is bounded (`HiTimeout`: the wait for the start lock
has a deadline; `PollFailed`: so has the health poll) or polled (`LoEnter`: a blocking `flock`, retried
after a sleep). Weak fairness is enough although others take and release the lock meanwhile: a starter
has its deadline, and a stopper gives the lock back only while a ticket is locked, which ends with the
starters; every other process takes the lock once. A user's steps (starting a run, leaving an
agent), the faults and the reader are not fair, and a killed launcher is obliged to nothing. The
deadlines are in the instance ("slow" and "timeout" are among its faults): without them a container
that never turns healthy would hold the lock forever, and so it would in the code.

The other runs:

| Run | Instance | Shows |
| --- | --- | --- |
| `viewer` | a launch, `agent logs`, `agent logs --stop`; a viewer or a dead one's file found; a port taken; one crash, kill or failing fork | the claim is made under the lock; when there can be two viewers and when not; what the user is told; every command ends |
| `logs_viewer` | 2 projects, 3 session directories, 2 records, 1 tab; two of eight kinds of events | the gate never hides a row; an answer brings the tab to the whole session; everything is listed and today's total is written in the end |
| `install` | crews of up to three of five commands; versions 1 to 3; one mishap of seven kinds | the database converges; an agent's image is fresh; builds are due |
| `accounts` | eight hosts of up to 3 directories and a symlink, 2 launches, 6 requests, one move or failure | a directory is claimed once; reports add up; the tree shows all; cleanup and sweep spare; what is logged is counted; what is deleted is forgotten |
| `sidecar_network` | 3 launches, 2 providers, Telegram; eight plans; two ports; one mishap of nine kinds | agents reach their sidecars; sessions are of agents; the group of a stopped script is gone |
| `secret_store` | three of five commands; three hosts; one kill, one lost keyfile, one failed read, one machine-id that cannot be read | secrets are kept but for an overlap, a lost keyfile or a command that writes after it could read nothing |

Bounds. `viewer`: a second launcher and a stopper are what it takes for every pair of claim, repair and stop; two ports
make the second one necessary. One mishap is enough to lose each of the protections by itself, and a second only loses two.
`logs_viewer`: two records let one be ordered before the other; three session directories are two of one session id under
two hashes and one more. `install`: the crews are {run, update, rebuild}, {run, run} and {run, headless run}, over
`MaxVersion` 3 so that upstream moves once more during an update. `accounts`: every plan has one thing that goes wrong, because
two requests and two actors with all of them at once only multiply; the windows asked for are an open one, a relative
one and one with a bound, with a day that starts at 3 and a peak hour next to its border; of the two tables of prices one has tiers, and
two of the requests are in the first of them while their sum is not. In `sidecar_network` a script is its leader and one other process, which
is enough for either to outlive the other. In `secret_store` three commands give a writer, another writer
and one that makes the key; each mishap happens once.

`CHECK_DEADLOCK FALSE` is in three of them: commands end and users may do nothing more (`install`, `accounts`), and the
viewer may be stopped (`logs_viewer`).

Excuses. Several properties hold but for named events that are recorded in a variable `slips`, `faults` or `orphaned`.
They are the real races of the code, each recorded by the very step that commits it; the properties say that there is
no other way. In `viewer`: a state file unlinked by a process without the lock, overlooked while it is rewritten, or never
written. In `install`: sources that moved under a build, docker that did not answer, a build that outlived its command,
an image removed after a survey. In `accounts`: files moved by the user, a registry that could not be read, a pass under
way while cleanup forgot its project, a killed cleanup, a launch after the survey, a file that was replaced and had grown past
the offset when a pass looked, docker that stopped answering in the middle of a sweep, a launch that takes the hour of grace to
start its container. In `secret_store`: two commands that overlap, a lost keyfile, a `set` or a launch that goes on after it could
not read the store ("blind"). In `sidecar_network`: a script's process that SIGKILL does not end ("deaf"), a Ctrl-C before the wait for
the script or after the SIGTERM ("impatient"); a process that has left the group is out of the code's reach, as it says itself.

Fairness. `viewer`: weak fairness of each living command and viewer; all waits have deadlines. `logs_viewer`: weak fairness of
the consumer thread, which a heartbeat wakes. `accounts`: weak fairness of ingest passes (the heartbeat again) and of
a cleanup that has been confirmed. Users, failures, kills and midnight are never fair.

### Finding

`registry_state` reads the registry "without mutating it", but its probe holds each file's flock for a moment. A launch
that registers at that moment fails to, does not notice (`lib/flock.py:116-119`, `domain/sidecars/tracker.py:94`), and its agent's
sidecar is stopped by the next one to exit, against "torn down only when the last agent using it exits"
(`docs/configuration.md:23`). Run `lifecycle_reader`.

### Seen while modelling, without a run of its own

- A launch that finds a running container adopts it without asking for its health, also one that an earlier launch has
  given up on (`domain/sidecars/litellm.py:132-161`, against `domain/sidecars/base.py:119` "running + healthy"); and one whose
  key an earlier launch had not approved yet when it failed (`litellm.py:134-148`). The runs of the lifecycle state
  `AgentKeyWorks` without these faults.
- `StringHasher.flush` takes the buffer before it makes the directory and puts it back only after a `PermissionError`
  (`string_hasher.py:95-100`): any other error of `mkdir` (a full or read-only file system) loses the strings and the record that brought
  them, while the session's later records point to them, against "guarantees every pointer at or below *M* resolves"
  (`domain/logs/ingest.py:10-15`) and "Restored, not dropped" (`string_hasher.py:98`). `NoStringLost` and `EventuallyResolved` excuse these
  strings (`dropped`) and say that there are no others.
- A hasher remembers a session's strings as long as the sidecar lives; a session that is resumed after retention
  deleted it points to strings that are not written again (`string_hasher.py:67`, `105`).
- A torn append swallows the next record, which goes to the same line (`domain/logs/ingest.py:291-292` says it "is simply picked
  up on the next pass").
- Retention depends on nobody appending between its check and the unlink (`domain/logs/service.py:298-300`); strings that are
  indexed ahead of their record can be swept before it arrives (`ingest.py:333`, `369-370`).
- Tiers are for one request's input, but `price_buckets` prices the sum of an hour (`domain/stats/fold.py:173`, against
  `domain/providers/base.py:295`, `domain/providers/pricing.py:64`): many short requests can be charged at the rate of a long one, as with the
  tables of `domain/providers/litellm_dashscope/provider.py:52-69`. `ReportAddsUp` says what is charged then: the price of one request as large
  as the hour; where an hour stays in the tier of its requests, it is what the viewer shows of them.
- The viewer would price a cache write at the rate of an hour if the response had a split where `extract_usage` looks for it,
  the reports never do (`domain/pricing/service.py:138`, `domain/logs/ingest.py:150`). `ingest.py:155-156` says that no record
  has one there; the requests of `accounts` follow it.
- The propagation of CLAUDE.md looks for `default-CLAUDE.md` at the root of the checkout while the file is in `ops/`
  (`domain/updates/service.py:155`, `docs/shell-commands.md:250`): an unmodified copy does not follow an update.
- A proxy on the host's network that was started and left behind before it listens has its port given to the next cold
  start (`lib/net.py:32`, against `docs/providers.md:28`); `ReachesItsSidecars` excuses it as `orphaned`.
- A session file that a removal has half deleted and that has grown past the old offset before a pass looks is read from its middle
  (`domain/logs/ingest.py:131`, against `119-126`), and its first requests are never counted; `EventuallyCounted` excuses it as `regrown`.
- A store that cannot be read at one moment reads as empty (`domain/secrets/store.py:155-158`), and so it does with the key that
  a machine-id which cannot be read gives (`70-76`): a `set`, or a launch that prompts, then replaces all secrets by its one
  (`domain/secrets/service.py:70-83`). `SecretsKept` excuses it as `blind`.
- The secrets file is read, changed and replaced without a lock: a command that overlaps another one's prompt undoes
  its change (`domain/secrets/service.py:72-76`, `domain/secrets/store.py:193`, against `lib/atomic.py:11-12`), and an empty keyfile can be read
  between its creation and its filling (`store.py:60-66`).
- A request that started earlier than one a tab already shows is inserted before it, and the tab misses it until it is
  reloaded (`domain/logs/stream.py:94-98`); `FollowsTheSession` says when the count does tell.

## Proofs

Eight modules prove theorems, each for every value of the constants: any number of launches, commands, sessions,
projects and files, and any set of mishaps but for those a theorem excludes in its ASSUME. The assumptions about
the constants (`SidecarAssumption`, `LogFilesAssumption`, `LogWriterAssumption`, `LogIndexAssumption`,
`ViewerAssumption`, `StateAssumption`, `CheckoutAssumption`, `MigrationsAssumption`, `ImagesAssumption`,
`FoundAssumption`, `NetworkAssumption`, `SecretsAssumption`, `HostsAssumption`, `AccountsAssumption`, `SessionListsAssumption`, `LogsCacheAssumption`) say what kind of value they have and which of them differ; TLC evaluates
them in the runs. Every inductive invariant named below was first an invariant of a run.

### The life of a sidecar

| Theorem | Property | Excluded |
| --- | --- | --- |
| `TypeCorrect` | the types, `TypeOK`; being proved, they are in no run | |
| `MutualExclusionHolds` | `MutualExclusion` | |
| `RegisteredIsServedHolds` | `RegisteredIsServed` | a container that dies by itself |
| `ImplementsRefCountHolds` | `ImplementsRefCount`, the refinement of `RefCount` | the same |
| `AgentIsRegisteredHolds` | `AgentIsRegistered` | the reader without the lock |
| `NoStopUnderAgentHolds` | `NoStopUnderAgent` | reader, kill, death |
| `LastLightOutHolds` | `LastLightOut` | reader, a stop that fails, kill |
| `ApprovedIsRunningHolds` | `ApprovedIsRunning` | all but slow sidecars, timeouts and the reader; sidecars of an earlier release |
| `AgentKeyWorksHolds` | `AgentKeyWorks` | all but slow sidecars and timeouts |

What a theorem excludes does break its property; see "Runs". All are in `SidecarLifecycle_proof`.
`MutualExclusion` and `RegisteredIsServed` are not inductive. The strengthening, `ServiceInv`, says:
the lock variable and the control states agree (`LockInv`); a launch works on a container it declared
(`PlaceInv`); a registration is held only between `LockReg` and `ClearReg` (`HeldInv`); a launch about to
stop a container has nobody registered on it (`StopInv`); a launch about to approve or poll a container
just started it, so nobody who needs it is registered on it (`PollInv`); what a launch has ensured and not yet
registered on is up as well (`ServedInv`). The heart of the argument is that a registration is made only
under the lock (`NewRegistration`), by a launch that ensured the container under the same hold, while a
container is lost only to a launch that holds the lock and found, or knows, nobody registered on it
(`LosesService`). The refinement follows from the same invariant: the step that takes a container down is
a step of `TakeDown` because its set of users is empty.

The other five build on these. Without the reader no file is ever being probed
(`QuietInv`), so the file a launch has opened stays on disk until it has locked it, since only who is inside the lock reaps
(`RegisteringInv`); with both, each container a launch is past registering is registered (`UseInv`). An agent in the foreground of a
living launcher (`ForegroundInv`) is then registered, and `RegisteredIsServed` forbids the stop. The keys: a running proxy
has the key of a launch that declares it (`ProxyKeyInv`), a launch about to approve or take out a key has the proxy's
(`HookKeyInv`), and from ensuring its proxy on it works with that key (`LaunchKeyInv`); the key of a running proxy is
approved and nothing else is, but for the moments when a launch is in between (`ApprovedInv`, `OnlyApprovedInv`).

### The request log

`LogPipeline_proof` proves `TypeCorrect` (`TypeOK`, in no run), `ContentIsStoredHolds` (`ContentIsStored`) and
`SweepSparesReachableHolds` (`SweepSparesReachable`, of every step), `IndexedInOrderHolds`
(`IndexedInOrder`), `IdleNotDeletedUnreadHolds` (`IdleNotDeletedUnread`, of every step),
`ImplementsRequestIndexHolds` (`ImplementsRequestIndex`, the refinement of `RequestIndex`), and, without a full disk, kills, torn
lines and cleanups, `NoStringLostHolds` (`NoStringLost`): for chunks of any size and any number of failures, those of `mkdir` that nothing
catches included. Of these the property excuses the very strings that were dropped, and no others.

`TypeInv` adds to `TypeOK` that only the last line of a message file can be torn, which is why
a reader that stops before an incomplete last line never meets half a record, and that each process knows
the session it is at. `StoreInv` adds to `ContentIsStored` that the lock names the process whose control
state is under it, that what the requests of the open chunk hold is carried with it, and that what the sweep
has chosen to delete is not reachable. The argument is that all writers of the tables hold the ingest lock:
between the read of the sweep and its delete no request can be added, and requests that are forgotten only
take names away (`ForgetShrinks`, `ReachableShrinks`).

`OrderInv` says that the rows of a session are the records of its first lines up to the stored offset (`OffsetInv`), and
with what a pass has read so far up to the pass's position (`ReadingInv`), as long as the file was not deleted; that a
session being deleted is gone and has nothing in flight unless it is in use (`GoneInv`); that what a flush has grabbed is in
hand only while it writes (`HandsInv`); and that the survey's offsets have not been passed by (`ScopeInv`). It rests on lemmas about
the operators: what one more line, torn or whole, adds to the records (`SkipsLine`, `TakesRecord`), and that an append
changes nothing before the old end (`SamePrefix`, `AppendKeeps`). `StringInv`, for `NoStringLost`, follows each string that
has been hashed: it is in the file, in the buffer of its hasher, in the hands of a flush that will write or restore it, or dropped.

The refinement maps `log` to the records of each messages file and `rows` to the requests rows. `RecordsOf` ranks the record
lines by how many there are up to each; that `IsRecordsUpTo` holds of one sequence only, the beginning of `RecordsOf`
(`RecordsUpTo`, `RecordsWhole`), is a matter of counting (`LineCount`, `LinesGrow`), and that there is one at all is carried
along as an invariant (`WholeInv`), because an induction over the lines is out of reach. Then an append is `Logged`, or
stutters when a torn line swallows it (`RecordAppended`, `TornAppended`); a commit is `Taken`, since the rows and the
rows with the chunk are both what lies before an offset (`CommitTakes`); the unlinking of a messages file is `Deleted`, since it
was read to its end (`LeavingInv`); and the rows go by `Forgotten`, since the file of a session in `deleted` is not there. `busy`
maps to `used`: of sessions that are used while they are deleted nothing is promised.

### The viewer

`ViewerDaemon_proof` proves `SpawnUnderLockHolds`, `ToldTheTruthHolds` and `OneViewerUnlessSlippedHolds`, of the properties
of the same names. `LockInv` ties each step under the lock, those of a fork included, to its holder.
`TruthInv` says that a state which claims a port names a viewer that listens on it, be it in the file, in a command's memory
or told to the user. `SoleInv` holds until a slip: two living viewers are one; while a fork is about to make one there is
no other; a living viewer is in the file, about to be written there, or unreadable; and who has looked and seen one knows it.

### The logs viewer

`LogsViewer_proof` proves `NothingIndexedIsHiddenHolds` (`NothingIndexedIsHidden`), for any number of projects, sessions and
events. `SnapshotInv` says that the lists are those of some table that had every row stamped up to the revision the gate
holds (`HasUpTo`), and that the table a refresh has read for new ones had every row up to the revision it read before.
It is inductive because a row changes by going away or by getting a stamp ahead of the clock (`RowMoves`), so what is stamped up
to an instant of the past only shrinks. If the gate holds the revision of the table, then all its rows are stamped up
to it, and a table with more rows lists more (`MoreIsListed`). The count in the revision is not needed for this: it
notices deletions, which hide nothing. Keys are taken to be finite, as directories are.

`OrderIsSession` and `FollowsTheSessionHolds` (`FollowsTheSession`, of every step) are about what a tab is sent. Both rest on lemmas
about the operators, none of which needs induction over data. `Ranked` puts a finite set in the order of a comparison by the
number of members before each; `RankIs` shows that every number is met once, by a least counterexample (`Least`).
`FlattenSeq` of the community modules is characterised by where each part begins in the whole (`JoinedIs`, `FlattenIs`,
`FlattenLocates`): the candidates for these places are functions on the numbers up to the length, so a least number where one
fails is enough again. `OrderIs` and `AllIsHeld` join them: the order of a session is a bijection onto the records of its
directories (`Held`), sorted by the instants they count as started, so nothing is left out, doubled or out of order, and
`merge_sessions` counts as many. That directories sort strictly (`Rank` is injective) is the order of distinct keys.

For the stream: the batches cover the positions from the cut to the end one after the other (`StreamIs`, `AnswerIsRest`), a blob
they do not carry was in an earlier batch or referenced by the record before the cut (`AnswerHasBlobs`), and hence an answer to a tab
that holds the beginning of the order, with its blobs, leaves it with all of both (`AnswerCompletes`). `TabInv` says that
a tab shows a sequence of records; the three outcomes of `TickFetch` are then cases of `FetchStep`. That a tab whose
beginning is intact stays so is not claimed, since a request that started earlier is inserted before it (see above).

### The installation

`Install_proof` proves `DatabaseConvergesHolds`, `ReadyUnlessSlippedHolds` and `BuildsAreDueHolds` (of every step), for any
events. `DatabaseInv`: the tables are those of the versions up to the stamped one, and a command on its way through the
migrations is not past it, and has backed up what it is about to change. For the images, `HostOK` is the conjunction of
`HostInv` (a tag names one image; no cleanup has the base in its scope; the base is there for who is about to build on
it), `LabelsInv` (a label says what the image was built from, unless an update or a docker that did not answer came
between) and `BuilderInv` (who holds the build lock knows the base of now, and the reason it has for a build still
holds). Lemmas say what retagging, untagging and removing leave of the set of images.

### Networks, sessions and the startup script

`SidecarNetwork_proof` proves `StoppedScriptIsGoneHolds`, `SessionsAreOfAgentsHolds` and `ReachesItsSidecarsHolds`, for every plan. `TypeInv` adds to the
types that who is where the lock is held holds it, and what docker says of a container is consistent; that `ScanPort`
finds a number is the well-foundedness of the naturals (`FreePortType`). `SessionInv` says that sessions are in a Telegram container that
serves, that a launch which polls it has just started it, and that a token is good while its container runs, which needs that a
launch yet to start the container did not start the one there is (`StarterInv`). `ScriptInv`, for the scripts, says where their
groups may be populated: while the launch waits for the script or for the end of the grace time, and after its launcher was killed.
A group without processes stays without, for only its own members start others in it (`ScriptSteps`), so what counts is
that each way out of these two states, but for the excused ones, leaves the group empty: an exit of the script itself with what it leaves
running out of the launch's hands, a SIGKILL with nobody left.

`NetInv` is for the ways. The way to a proxy that still runs is that of its mode and port (`RouteInv`), which needs that nobody
was led yet to a proxy of a launch that has not started it (`FreshInv`), and that what a launch found of its proxy says how it
runs (`FoundInv`). Two proxies do not listen on one port of the host (`HostPorts`): the port `find_free_port` gives is free when it
is given, and stays free of proxies because, unless one was left behind before it listened, a proxy that boots on the host's
network is waited for by the launch that holds the lock (`BootInv`), so whoever scans the ports meets none that is
still to listen (`AloneInv`). `HeldInv`: without a death, a proxy on the host's network serves the launches connected to it.

### The secrets

`SecretStore_proof` proves `SecretsKeptHolds` (`SecretsKept`). `StoreInv` says, without an overlap of two commands, that the
file, and whatever a command has read and is yet to write (`Reading`, `Writing`), holds what was entered last or nothing
(`PartInv`); without a lost keyfile and a command that goes on blind either, that it holds all of it, that the file was encrypted with the
keyfile there is, and that whoever derived a key derived it from there (`WholeInv`). A command that could read nothing is then
a `clear`, a `cleanup` or a `check`: it has found nothing to delete or rewrite, so it writes nothing, with whatever key. Two launches that meet no keyfile are the delicate case:
one fails to create it, the other one fills it, and who read it empty in between counts as an overlap. `HostsAssumption` says
that the host a behaviour starts from is consistent: a file has the keyfile it was encrypted with.

### Cleanup, and who claims a log directory

`Accounts_proof` proves `DeletedIsForgottenHolds`, `ClaimedOnceHolds`, `CleanupSparesHolds` and `SweepSparesUsedHolds`
(the last two of every step), for every plan. `ForgottenInv` says that every request on disk is in a directory that exists, and that every row,
every offset and what a pass has in hand is of such a directory or of one that cleanup has removed and is yet to forget,
unless a pass was in the middle of reading one when it was forgotten (the slip "overlap") or cleanup was killed between the
two; a request that is written brings its directory back in the same step. `SpareInv` says that a directory in the scope exists and, until somebody claims it, no
registered project's link leads to it; that no link dangles before the first removal; and that a path found
stale has no link or no directory until a launch or the user gives it one, the slip "late". Hence what cleanup removes
is claimed by nobody, and what it forgets has nothing.

`SweepSparesUsed` is about a list that is a moment old and directories whose container is yet to come. `SweepInv` says that an
old directory in use is of an agent that runs, and that every launch between its question to docker and its sweep has heard of
it: a directory grows old only an hour after its launch made it, by when its container has long been started. Only one launch
at a time is between the two (`ClaimedInv`), and a question asked later finds every container that runs by then.

`ClaimedOnce` needs three facts at once (`ClaimedInv`): until the user moved something or the registry could not be read, a
link names the directory of its own project, no directory is registered under two spellings, and a launch that is about to
record its path has met no other path to its directory. The third one survives the other launches because only one is
under the lock between the removal of the aliases and the record; a launch that fails or is killed in between has
unregistered the other spellings and registers none. `AccountsAssumption` says that a plan begins with a registry
that these commands can have written, one spelling for a directory.

### Only model-checked

- Liveness (`StartIsDecided`, `TeardownEnds`, `EventuallyIndexed`, `EventuallyResolved`, `EveryCommandEnds`,
  `EventuallyListed`, `EventuallyToday`, `EventuallyCounted`): fairness and ENABLED are out of TLAPS's reach.
- `TreeShowsAll`: `PathTree`, and so `StatsTree` and `MCAccounts`, declare RECURSIVE operators, and induction over
  data is out of reach as well.
- `ReportAddsUp`: it is false for arbitrary price tables, because a tier is chosen by the sum of an hour and not by one
  request (see above), and the sums are folds over sets, whose equation is induction over data.

## Not modelled, and the plan

What is left: the bounded set of failure ids (`callback.py:311`) and the cache of downloaded price lists
(`domain/providers/pricing.py:144`).

Left out, and why:

- `domain/status`, `domain/display`, `domain/create`, `cli/inspect`: they read what others wrote and print it, or copy a
  template; no state is kept between two steps.
- docker argument lists beyond networks, names and mounts, prompts, formatting, HTTP routing, the page's rendering:
  data and layout that no property is about.
- Parsing of JSON lines, Dockerfiles and model names: a line parses or does not, a Dockerfile is what its lines say, a name
  is the model it normalizes to.
- The writes of programs outside the repository (the agent's own to `.claude.json`), and what else kernel, docker and SQLite
  do: external, as the code uses them.
- `scripts/`, `ops/`, `bin/`, `docs/`: linters, image files, installers.
