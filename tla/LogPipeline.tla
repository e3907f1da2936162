---------------------------- MODULE LogPipeline -----------------------------
(***************************************************************************)
(* The request log end to end: the sidecar's callbacks write, an ingest    *)
(* pass reads, cleanup deletes.  What the three share are the two files of *)
(* each session and the tables; only the last two exclude each other.      *)
(***************************************************************************)
EXTENDS LogWriter, LogIndex

VARIABLE
  busy  \* the sessions that were used while they were being deleted

vars == <<files, mishaps, writer, index, busy>>

Init == FilesInit /\ WriterInit /\ IndexInit /\ busy = {}

Quiet(s) == \A r \in Records : Dir[r] = s => task[r] \notin InFlight

\* A session that has been idle for the days of retention is not used while
\* cleanup deletes it, nor after that broke off, unless "late" is among the
\* events.  It may be used again after it has been deleted.
MarkBusy(s, late) ==
  /\ late => "late" \in Events
  /\ busy' = IF late THEN busy \cup {s} ELSE busy

Arrive(r) == Build(r) /\ MarkBusy(Dir[r], Dir[r] \in gone)
Check(s) == CheckSession(s) /\ MarkBusy(s, s \in gone' /\ ~ Quiet(s))

Write == \/ \E r \in Records : Arrive(r)
         \/ /\ UNCHANGED busy
            /\ Kill \/ \E r \in Records : Handle(r) \/ HandleFails(r)

Read == (Ingest \/ IngestFails \/ IngestCrashes) /\ UNCHANGED busy

Clean == \/ \E s \in Sessions : Check(s)
         \/ (Survey \/ ReclaimDeclined \/ ReclaimStart) /\ UNCHANGED busy
         \/ (Reclaim \/ ReclaimCrashes) /\ UNCHANGED busy

Next == \/ Write /\ UNCHANGED index
        \/ Read /\ UNCHANGED writer
        \/ Clean /\ UNCHANGED writer

Spec == Init /\ [][Next]_vars

\* The proxy runs its callbacks and their threads to the end.  The viewer's
\* watcher starts an ingest pass at every heartbeat, and a pass goes on until
\* it ends, as does a reclaim that has the lock.  Requests, failures, crashes
\* and the user's cleanups just happen.
FairSpec ==
  /\ Spec
  /\ \A r \in Records : WF_vars(Handle(r) /\ UNCHANGED <<index, busy>>)
  /\ WF_vars(Ingest /\ UNCHANGED <<writer, busy>>)
  /\ WF_vars((\E s \in Sessions : Check(s)) /\ UNCHANGED writer)
  /\ WF_vars(Reclaim /\ UNCHANGED <<writer, busy>>)

-----------------------------------------------------------------------------
TypeOK == FilesTypeOK /\ WriterTypeOK /\ IndexTypeOK /\ busy \subseteq Sessions

\* Which of the first n lines of a messages file are records, and that g is
\* these records, each once and in the order of the file.
RecordLines(f, n) == {k \in 1..n : f[k] \in Records}

IsRecordsUpTo(g, f, n) ==
  \E at \in [1..Len(g) -> RecordLines(f, n)] :
    /\ \A i, j \in 1..Len(g) : i < j => at[i] < at[j]
    /\ \A k \in RecordLines(f, n) : \E i \in 1..Len(g) : at[i] = k
    /\ \A i \in 1..Len(g) : g[i] = f[at[i]]

\* The index of a session is what lies before its offset: every record once,
\* in the order of the file, none skipped and none twice, whatever chunks,
\* crashes, failures and torn appends came in between ("the offsets make a
\* re-run safe, by never presenting the same lines twice", ingest_chunk).
IndexedInOrder ==
  \A s \in Sessions \ gone :
    /\ rowM[s] <= Complete(msgs[s])
    /\ IsRecordsUpTo(reqs[s], msgs[s], rowM[s])

\* Every content that a request row names is in the blobs table: the message
\* vector has no foreign key, so nothing but the order of commits and sweeps
\* keeps it so (sweep_blobs; _insert_blobs).
ContentIsStored == Named \subseteq blobs

\* No step takes a blob away that a request reaches before or after it, by
\* name or through a pointer (sweep_blobs: "The caller must hold the ingest
\* lock").
SweepSparesReachable ==
  [][(blobs \ blobs') \cap (Reachable \cup Reachable') = {}]_vars

\* The records that a step takes out of a session's file without their being in
\* the index.
LostUnread(s) ==
  (Range(msgs[s]) \cap Records) \ (Range(msgs[s])' \cup RequestsOf(s))

\* Retention deletes no unread request (_apply_retention) of a session that is not
\* used while it is being deleted, although the sessions to delete were chosen before
\* the user was asked, and whatever passes, torn appends, crashes and half-done
\* deletions came before.
IdleNotDeletedUnread ==
  [][\A s \in Sessions \ busy : LostUnread(s) = {}]_vars

Written == UNION {Range(strs[s]) : s \in Sessions}

\* Where a string may be on its way to the file.
Buffered(h) == pending[h] \cup UNION {hands[r] : r \in {q \in Records : Hasher(q) = h}}

\* A record on disk points to strings that are on disk or stored already, or
\* that the sidecar still holds and is going to write, however the flushes and
\* appends of concurrent requests interleave and fail (string_hasher.py:
\* "Restored, not dropped: the next flush retries them"), but for the strings
\* that were in a flush whose mkdir failed for another reason than permissions.
NoStringLost ==
  \A s \in Sessions \ {rcur} : \A r \in Range(msgs[s]) \cap Records :
    Uses(r) \subseteq Written \cup blobs \cup Buffered(IdOf[s]) \cup dropped[IdOf[s]]

\* An appended record gets into the index.
EventuallyIndexed ==
  \A r \in Records : task[r] = "done" ~> r \in RequestsOf(Dir[r]) \/ Dir[r] \in gone

\* What an indexed record points to gets stored, unless the sidecar could not
\* write it and is keeping it for its next flush, or lost it in a flush whose
\* mkdir failed for another reason than permissions.
EventuallyResolved ==
  \A r \in Records : \A x \in Strings :
    (r \in RequestsOf(Dir[r]) /\ x \in Uses(r))
      ~> (x \in blobs \cup pending[Hasher(r)] \cup dropped[Hasher(r)])

-----------------------------------------------------------------------------
(* The abstract view: the records of a file, in its order.                 *)

RecordsOf(f) ==
  [n \in 1..Cardinality(RecordLines(f, Len(f))) |->
     f[CHOOSE k \in RecordLines(f, Len(f)) : Cardinality(RecordLines(f, k)) = n]]

Log == [s \in Sessions |-> RecordsOf(msgs[s])]

Abstract == INSTANCE RequestIndex WITH log <- Log, rows <- reqs, used <- busy

\* The files, the offsets and the lock implement the index: rows are taken in the
\* order of the file, none is left out, taken twice or lost before the session is
\* deleted, and that is after all of it was taken (ingest_session, ingest_chunk,
\* _apply_retention, delete_sessions).
ImplementsRequestIndex == Abstract!IdxSpec
=============================================================================
