------------------------------ MODULE LogIndex ------------------------------
(***************************************************************************)
(* The index over the request log: the sessions, requests and blobs tables *)
(* (infrastructure/logs/repositories/ingest.py), the ingest pass that      *)
(* fills them (domain/logs/ingest.py, LogsService.ingest_tree) and the     *)
(* cleanup that takes sessions and blobs away (retention_scope,            *)
(* reclaim_index, sweep_blobs).                                            *)
(*                                                                         *)
(* One step is one transaction, one read to the end of a file, or one      *)
(* system call on the log tree.  Passes exclude each other by the ingest   *)
(* lock, which is only ever tried: a process that does not get it does     *)
(* nothing.  There is one process of each kind.                            *)
(***************************************************************************)
EXTENDS LogFiles

CONSTANTS
  Old,           \* the records that ended before the retention cutoff
  ChunkRecords,  \* MAX_CHUNK_RECORDS
  NoSession      \* no session is being worked on

ASSUME LogIndexAssumption ==
  /\ Old \subseteq Records
  /\ ChunkRecords \in Nat \ {0}
  /\ NoSession \notin Sessions

VARIABLES
  rowM, rowT,  \* messages_offset and strings_offset of the sessions table
  reqs,        \* reqs[s]: the requests rows of a session, by ordinal
  blobs,       \* the contents and strings in the blobs table
  ilock,       \* who holds logs-ingest.lock
  ing,         \* where the ingest pass is
  todo,        \* the sessions it has still to visit
  icur,        \* the session it is at
  pos,         \* how far it has read messages.jsonl
  chunk,       \* the records read and not committed
  carried,     \* the contents read and not committed
  rec,         \* where the reclaiming process is
  scope,       \* scope[s]: the offset a surveyed session had, 0 if it is not in
  rcur,        \* the session it is deleting
  listed,      \* the files of that session it has still to unlink
  deleted,     \* the sessions whose directories it has deleted
  doomed,      \* the blobs the sweep is going to delete
  gone         \* the sessions whose deletion is under way or broke off

tables == <<rowM, rowT, reqs, blobs>>
ingester == <<ing, todo, icur, pos, chunk, carried>>
reclaimer == <<rec, scope, rcur, listed, deleted, doomed, gone>>
index == <<tables, ilock, ingester, reclaimer>>

IngStates == {"off", "scan", "read", "full", "strings"}
RecStates == {"off", "confirm", "retain", "list", "rm", "sweep", "delete"}
\* Where the reclaiming process holds the ingest lock.
RecLocked == RecStates \ {"off", "confirm"}

RequestsOf(s) == Range(reqs[s])
Indexed == UNION {RequestsOf(s) : s \in Sessions}

\* The contents the requests rows name, and what these point to.
Named == UNION {Holds[r] : r \in Indexed}
Reachable == Named \cup UNION {Quotes[c] : c \in Named}

\* Mutant of Unreferenced: the pointers are not followed.
Unnamed == blobs \ Named

\* Mutant of Unreferenced: only what a pointer names counts as referenced.
Unpointed == blobs \ UNION {Quotes[c] : c \in Named}

Unreferenced == blobs \ Reachable

\* A session directory is discovered by its messages.jsonl.
Discovered == {s \in Sessions : msgs[s] # <<>>}

\* The lock is free for a pass that tries it.
LockFree == ilock = "none"

\* The sessions of S lose their requests and their row with its offsets.
ForgetRows(S) ==
  /\ rowM' = [s \in Sessions |-> IF s \in S THEN 0 ELSE rowM[s]]
  /\ rowT' = [s \in Sessions |-> IF s \in S THEN 0 ELSE rowT[s]]
  /\ reqs' = [s \in Sessions |-> IF s \in S THEN <<>> ELSE reqs[s]]

IndexInit ==
  /\ rowM = [s \in Sessions |-> 0]
  /\ rowT = [s \in Sessions |-> 0]
  /\ reqs = [s \in Sessions |-> <<>>]
  /\ blobs = {}
  /\ ilock = "none"
  /\ ing = "off" /\ todo = {} /\ icur = NoSession
  /\ pos = 0 /\ chunk = <<>> /\ carried = {}
  /\ rec = "off" /\ scope = [s \in Sessions |-> 0] /\ rcur = NoSession
  /\ listed = {} /\ deleted = {} /\ doomed = {} /\ gone = {}

-----------------------------------------------------------------------------
(* The ingest pass.                                                        *)

IngestStart ==
  /\ ing = "off"
  /\ LockFree
  /\ ilock' = "ingest"
  /\ ing' = "scan"
  /\ todo' = Discovered
  /\ UNCHANGED <<files, mishaps, tables, icur, pos, chunk, carried, reclaimer>>

\* is_truncated: a file that is there and shorter than its offset.
Truncated(s) ==
  \/ msgs[s] # <<>> /\ Len(msgs[s]) < rowM[s]
  \/ strs[s] # <<>> /\ Len(strs[s]) < rowT[s]

\* _ingest_session: forget a truncated session, then read on from its offset.
OpenSession(s) ==
  /\ ing = "scan"
  /\ s \in todo
  /\ ForgetRows(IF Truncated(s) THEN {s} ELSE {})
  /\ icur' = s
  /\ pos' = rowM'[s]
  /\ ing' = "read"
  /\ UNCHANGED <<files, mishaps, blobs, ilock, todo, chunk, carried, reclaimer>>

\* One complete line of messages.jsonl; one that does not parse is skipped.
ReadLine ==
  /\ ing = "read"
  /\ pos < Complete(msgs[icur])
  /\ pos' = pos + 1
  /\ LET line == msgs[icur][pos + 1] IN
       IF line = Bad
       THEN UNCHANGED <<ing, chunk, carried>>
       ELSE /\ chunk' = Append(chunk, line)
            /\ carried' = carried \cup Holds[line]
            /\ ing' = IF Len(chunk') >= ChunkRecords THEN "full" ELSE "read"
  /\ UNCHANGED <<files, mishaps, tables, ilock, todo, icur, reclaimer>>

\* Mutant of Commit: the rows are written before the offsets, in a transaction
\* of their own.
CommitRowsOnly(m, t, new) ==
  /\ reqs' = [reqs EXCEPT ![icur] = @ \o chunk]
  /\ blobs' = blobs \cup carried \cup new
  /\ UNCHANGED <<rowM, rowT>>

\* ingest_chunk: blobs, requests and both offsets in one transaction.
Commit(m, t, new) ==
  /\ rowM' = [rowM EXCEPT ![icur] = m]
  /\ rowT' = [rowT EXCEPT ![icur] = t]
  /\ reqs' = [reqs EXCEPT ![icur] = @ \o chunk]
  /\ blobs' = blobs \cup carried \cup new

\* _read_strings: where it ends.
StringsEnd == IF strs[icur] = <<>> THEN rowT[icur] ELSE Complete(strs[icur])

\* The strings it finds on the way.
StringsRead ==
  {strs[icur][k] : k \in rowT[icur] + 1 .. StringsEnd} \cap Strings

\* Mutant of CommitChunk: the offset of the strings moves with every chunk.
CommitChunkPastStrings ==
  /\ ing = "full"
  /\ Commit(pos, StringsEnd, {})
  /\ chunk' = <<>> /\ carried' = {}
  /\ ing' = "read"
  /\ UNCHANGED <<files, mishaps, ilock, todo, icur, pos, reclaimer>>

\* A full chunk: the strings are left for the end, and so is their offset.
CommitChunk ==
  /\ ing = "full"
  /\ Commit(pos, rowT[icur], {})
  /\ chunk' = <<>> /\ carried' = {}
  /\ ing' = "read"
  /\ UNCHANGED <<files, mishaps, ilock, todo, icur, pos, reclaimer>>

\* The end of messages.jsonl, or a torn line.
ReadEnd ==
  /\ ing = "read"
  /\ pos >= Complete(msgs[icur])
  /\ ing' = "strings"
  /\ UNCHANGED <<files, mishaps, tables, ilock, todo, icur, pos, chunk, carried, reclaimer>>

NextSession ==
  /\ todo' = todo \ {icur}
  /\ icur' = NoSession
  /\ pos' = 0 /\ chunk' = <<>> /\ carried' = {}
  /\ ing' = "scan"

\* Mutant of NothingNew: a chunk without new strings is left out.
NoNewStrings == StringsEnd = rowT[icur]

\* Neither a new record nor a new line of strings: there is no last chunk, and
\* the offset stays before lines that did not parse.
NothingNew == chunk = <<>> /\ StringsEnd = rowT[icur]

\* Strings to their end, then the last chunk.
FinishSession ==
  /\ ing = "strings"
  /\ IF NothingNew
     THEN UNCHANGED tables
     ELSE Commit(pos, StringsEnd, StringsRead)
  /\ NextSession
  /\ UNCHANGED <<files, mishaps, ilock, reclaimer>>

\* An exception (unreadable file, failed transaction) costs this session only.
IngestFails ==
  /\ ing \in {"read", "full", "strings"}
  /\ Mishap("ioerror")
  /\ NextSession
  /\ UNCHANGED <<files, tables, ilock, reclaimer>>

IngestEnd ==
  /\ ing = "scan"
  /\ todo = {}
  /\ ing' = "off"
  /\ ilock' = "none"
  /\ UNCHANGED <<files, mishaps, tables, todo, icur, pos, chunk, carried, reclaimer>>

\* The process dies; the kernel drops its lock.
IngestCrashes ==
  /\ ing # "off"
  /\ Mishap("crash")
  /\ ing' = "off" /\ todo' = {} /\ icur' = NoSession
  /\ pos' = 0 /\ chunk' = <<>> /\ carried' = {}
  /\ ilock' = "none"
  /\ UNCHANGED <<files, tables, reclaimer>>

Ingest ==
  \/ IngestStart \/ (\E s \in Sessions : OpenSession(s)) \/ ReadLine
  \/ CommitChunk \/ ReadEnd \/ FinishSession \/ IngestEnd

-----------------------------------------------------------------------------
(* `agent cleanup`: the survey, the user's consent, retention, the sweep.  *)

\* expired_sessions: dated by the newest request.
Expired(s) == reqs[s] # <<>> /\ reqs[s][Len(reqs[s])] \in Old

\* Mutant of FullyIndexed: what the survey saw is trusted.
FullyIndexedTrusted(s, offset) == TRUE

\* _fully_indexed: the file is there and ends where the index stopped reading.
FullyIndexed(s, offset) == msgs[s] # <<>> /\ Len(msgs[s]) = offset

\* retention_scope, before the question to the user and without the lock.
Survey ==
  /\ "reclaim" \in Events
  /\ rec = "off"
  /\ scope' = [s \in Sessions |->
       IF Expired(s) /\ FullyIndexed(s, rowM[s]) THEN rowM[s] ELSE 0]
  /\ rec' = "confirm"
  /\ UNCHANGED <<files, mishaps, tables, ilock, ingester, rcur, listed, deleted, doomed, gone>>

\* The user declines, or another process holds the lock.
ReclaimDeclined ==
  /\ rec = "confirm"
  /\ rec' = "off"
  /\ scope' = [s \in Sessions |-> 0]
  /\ UNCHANGED <<files, mishaps, tables, ilock, ingester, rcur, listed, deleted, doomed, gone>>

ReclaimStart ==
  /\ rec = "confirm"
  /\ LockFree
  /\ ilock' = "reclaim"
  /\ rec' = "retain"
  /\ UNCHANGED <<files, mishaps, tables, ingester, scope, rcur, listed, deleted, doomed, gone>>

\* _apply_retention repeats the check for each session of the scope.
CheckSession(s) ==
  /\ rec = "retain"
  /\ scope[s] # 0
  /\ IF FullyIndexed(s, scope[s])
     THEN rec' = "list" /\ rcur' = s /\ gone' = gone \cup {s}
     ELSE UNCHANGED <<rec, rcur, gone>>
  /\ scope' = [scope EXCEPT ![s] = 0]
  /\ UNCHANGED <<files, mishaps, tables, ilock, ingester, listed, deleted, doomed>>

\* The files of a session directory that are there.
Present(s) ==
  (IF msgs[s] # <<>> THEN {"msgs"} ELSE {})
    \cup (IF strs[s] # <<>> THEN {"strs"} ELSE {})

\* shutil.rmtree: list the directory, unlink what it listed, remove the
\* directory.
ListDir ==
  /\ rec = "list"
  /\ listed' = Present(rcur)
  /\ rec' = "rm"
  /\ UNCHANGED <<files, mishaps, tables, ilock, ingester, scope, rcur, deleted, doomed, gone>>

RemoveFile(n) ==
  /\ rec = "rm"
  /\ n \in listed
  /\ msgs' = IF n = "msgs" THEN [msgs EXCEPT ![rcur] = <<>>] ELSE msgs
  /\ strs' = IF n = "strs" THEN [strs EXCEPT ![rcur] = <<>>] ELSE strs
  /\ listed' = listed \ {n}
  /\ UNCHANGED <<mishaps, tables, ilock, ingester, rec, scope, rcur, deleted, doomed, gone>>

NextExpired == rec' = "retain" /\ rcur' = NoSession /\ listed' = {}

RemoveDir ==
  /\ rec = "rm"
  /\ listed = {} /\ Present(rcur) = {}
  /\ deleted' = deleted \cup {rcur}
  /\ NextExpired
  /\ UNCHANGED <<files, mishaps, tables, ilock, ingester, scope, doomed, gone>>

\* Mutant of RemoveFails: a directory that is not gone counts as deleted.
RemoveFailsForgotten ==
  /\ rec = "rm"
  /\ \/ Mishap("ioerror")
     \/ listed = {} /\ Present(rcur) # {} /\ UNCHANGED mishaps
  /\ deleted' = deleted \cup {rcur}
  /\ NextExpired
  /\ UNCHANGED <<files, tables, ilock, ingester, scope, doomed, gone>>

\* A file cannot be unlinked, or the directory is not empty any more: the rows
\* of the session are kept, whatever is left of its files.
RemoveFails ==
  /\ rec = "rm"
  /\ \/ Mishap("ioerror")
     \/ listed = {} /\ Present(rcur) # {} /\ UNCHANGED mishaps
  /\ NextExpired
  /\ UNCHANGED <<files, tables, ilock, ingester, scope, deleted, doomed, gone>>

\* delete_sessions, once for all of them.
ForgetSessions ==
  /\ rec = "retain"
  /\ \A s \in Sessions : scope[s] = 0
  /\ ForgetRows(deleted)
  /\ deleted' = {} /\ gone' = gone \ deleted
  /\ rec' = "sweep"
  /\ UNCHANGED <<files, mishaps, blobs, ilock, ingester, scope, rcur, listed, doomed>>

\* sweep_blobs, its reading transaction: what nothing reaches.
SweepRead ==
  /\ rec = "sweep"
  /\ doomed' = Unreferenced
  /\ rec' = "delete"
  /\ UNCHANGED <<files, mishaps, tables, ilock, ingester, scope, rcur, listed, deleted, gone>>

\* sweep_blobs, its writing transaction; then the lock is released.
SweepDelete ==
  /\ rec = "delete"
  /\ blobs' = blobs \ doomed
  /\ doomed' = {}
  /\ rec' = "off"
  /\ ilock' = "none"
  /\ UNCHANGED <<files, mishaps, rowM, rowT, reqs, ingester, scope, rcur, listed, deleted, gone>>

\* The process dies or an exception ends the command; the lock is dropped.
ReclaimCrashes ==
  /\ rec \in RecLocked
  /\ Mishap("crash")
  /\ rec' = "off" /\ scope' = [s \in Sessions |-> 0] /\ rcur' = NoSession
  /\ listed' = {} /\ deleted' = {} /\ doomed' = {}
  /\ ilock' = "none"
  /\ UNCHANGED <<files, tables, ingester, gone>>

\* What a reclaim that holds the lock does next, besides CheckSession.
Reclaim ==
  \/ ListDir \/ (\E n \in {"msgs", "strs"} : RemoveFile(n))
  \/ RemoveDir \/ RemoveFails \/ ForgetSessions \/ SweepRead \/ SweepDelete

IndexTypeOK ==
  /\ rowM \in [Sessions -> Nat] /\ rowT \in [Sessions -> Nat]
  /\ reqs \in [Sessions -> Seq(Records)]
  /\ blobs \subseteq Contents \cup Strings
  /\ ilock \in {"none", "ingest", "reclaim"}
  /\ ing \in IngStates /\ todo \subseteq Sessions
  /\ icur \in Sessions \cup {NoSession}
  /\ pos \in Nat /\ chunk \in Seq(Records) /\ carried \subseteq Contents
  /\ rec \in RecStates /\ scope \in [Sessions -> Nat]
  /\ rcur \in Sessions \cup {NoSession}
  /\ listed \subseteq {"msgs", "strs"}
  /\ deleted \subseteq Sessions /\ doomed \subseteq Contents \cup Strings
  /\ gone \subseteq Sessions
=============================================================================
