----------------------------- MODULE LogWriter ------------------------------
(***************************************************************************)
(* The LiteLLM callback inside a sidecar (litellm_runtime/callback.py and  *)
(* string_hasher.py): how a finished request becomes a record on disk.     *)
(*                                                                         *)
(* build_record runs on the proxy's event loop without an await: it hashes *)
(* the record's strings into the session's buffer and flushes the buffer.  *)
(* _write_record_async then flushes again and appends the record, each in  *)
(* a worker thread, so the flushes and appends of several requests run     *)
(* side by side over one buffer and one pair of files.  Grabbing and       *)
(* clearing the buffer is one step: CPython does not switch threads        *)
(* between the two assignments.                                            *)
(***************************************************************************)
EXTENDS LogFiles, SequencesExt

CONSTANTS
  Ids,       \* the session ids; the hashers are kept by id, not by directory
  IdOf,      \* IdOf[s]: the session id of directory s
  NoRecord   \* the event loop is free

ASSUME LogWriterAssumption ==
  /\ IdOf \in [Sessions -> Ids]
  /\ NoRecord \notin Records

VARIABLES
  loaded,   \* loaded[h]: session h has a hasher
  known,    \* known[h]: its _strings_to_hashes, strings that have a pointer
  pending,  \* pending[h]: its _hashes_to_strings, the mappings to be written
  seen,     \* seen[h]: its _seen_hashes, taken to be in the file
  loop,     \* the record whose build_record holds the event loop
  task,     \* task[r]: where the handling of record r is
  hands,    \* hands[r]: the mappings the flush of r has grabbed
  dropped   \* dropped[h]: the strings whose mappings were lost with a flush

writer == <<loaded, known, pending, seen, dropped, loop, task, hands>>

hasher == <<loaded, known, pending, seen, dropped>>

TaskStates == {"new", "built", "flush1", "await", "flush2", "flushed",
               "append", "done", "lost"}
InFlight == TaskStates \ {"new", "done", "lost"}

\* The hasher that record r's callbacks use.
Hasher(r) == IdOf[Dir[r]]

SetTask(r, l) == task' = [task EXCEPT ![r] = l]

WriterInit ==
  /\ loaded = [h \in Ids |-> FALSE]
  /\ known = [h \in Ids |-> {}]
  /\ pending = [h \in Ids |-> {}]
  /\ seen = [h \in Ids |-> {}]
  /\ loop = NoRecord
  /\ task = [r \in Records |-> "new"]
  /\ hands = [r \in Records |-> {}]
  /\ dropped = [h \in Ids |-> {}]

-----------------------------------------------------------------------------
\* get_session_hasher and json_safe: a new hasher reads which strings the file
\* has; every string without a pointer yet gets one and is put in the buffer.
Build(r) ==
  LET h == Hasher(r) IN
    /\ task[r] = "new"
    /\ loop = NoRecord
    /\ loaded' = [loaded EXCEPT ![h] = TRUE]
    /\ seen' = [seen EXCEPT ![h] =
         IF loaded[h] THEN @ ELSE Range(strs[Dir[r]]) \cap Strings]
    /\ pending' = [pending EXCEPT ![h] = @ \cup (Uses(r) \ known[h])]
    /\ known' = [known EXCEPT ![h] = @ \cup Uses(r)]
    /\ loop' = r
    /\ SetTask(r, "built")
    /\ UNCHANGED <<hands, dropped, files, mishaps>>

\* The three ways a flush goes on, on the loop ("built", which then leaves the
\* loop) or in a thread ("await").
FlushAt == [built |-> "flush1", await |-> "flush2"]
FlushEnd == [built |-> "await", flush1 |-> "await",
             await |-> "flushed", flush2 |-> "flushed"]

LeaveFlush(r) ==
  /\ SetTask(r, FlushEnd[task[r]])
  /\ loop' = IF loop = r THEN NoRecord ELSE loop

\* flush: nothing to write.
FlushNothing(r) ==
  /\ task[r] \in {"built", "await"}
  /\ pending[Hasher(r)] = {}
  /\ LeaveFlush(r)
  /\ UNCHANGED <<hasher, hands, files, mishaps>>

\* flush: grab the mappings and clear the buffer.
FlushGrab(r) ==
  /\ task[r] \in {"built", "await"}
  /\ pending[Hasher(r)] # {}
  /\ hands' = [hands EXCEPT ![r] = pending[Hasher(r)]]
  /\ pending' = [pending EXCEPT ![Hasher(r)] = {}]
  /\ SetTask(r, FlushAt[task[r]])
  /\ UNCHANGED <<loaded, known, seen, dropped, loop, files, mishaps>>

\* flush: append what the file is not known to have.
FlushWrite(r) ==
  /\ task[r] \in {"flush1", "flush2"}
  /\ strs' = [strs EXCEPT ![Dir[r]] =
       Appended(@, SetToSeq(hands[r] \ seen[Hasher(r)]))]
  /\ seen' = [seen EXCEPT ![Hasher(r)] = @ \cup hands[r]]
  /\ hands' = [hands EXCEPT ![r] = {}]
  /\ LeaveFlush(r)
  /\ UNCHANGED <<loaded, known, pending, dropped, msgs, mishaps>>

\* Mutant of Restored: the mappings of a failed flush are dropped.
RestoredNothing(r) == pending

\* A failed flush puts its mappings back into the buffer.
Restored(r) == [pending EXCEPT ![Hasher(r)] = @ \cup hands[r]]

\* flush: there is no permission to make the directory or the file cannot be
\* opened ("ioerror"), or what was written cannot be stored when the file is
\* closed ("full"): by then the mappings count as seen.  The record goes its
\* way all the same.
FlushFails(r) ==
  /\ task[r] \in {"flush1", "flush2"}
  /\ \/ Mishap("ioerror") /\ UNCHANGED seen
     \/ Mishap("full") /\ seen' = [seen EXCEPT ![Hasher(r)] = @ \cup hands[r]]
  /\ pending' = Restored(r)
  /\ hands' = [hands EXCEPT ![r] = {}]
  /\ LeaveFlush(r)
  /\ UNCHANGED <<loaded, known, dropped, files>>

\* flush: mkdir fails in another way, which nothing catches.  A directory that is
\* there has no such error.  The mappings that were grabbed are gone, their strings
\* keep their pointers, and the record is lost with the hook that handled it.
FlushRaises(r) ==
  /\ task[r] \in {"flush1", "flush2"}
  /\ msgs[Dir[r]] = <<>> /\ strs[Dir[r]] = <<>>
  /\ Mishap("nodir")
  /\ dropped' = [dropped EXCEPT ![Hasher(r)] = @ \cup hands[r]]
  /\ hands' = [hands EXCEPT ![r] = {}]
  /\ SetTask(r, "lost")
  /\ loop' = IF loop = r THEN NoRecord ELSE loop
  /\ UNCHANGED <<loaded, known, pending, seen, files>>

\* The coroutine goes on after its flush: it needs the loop to submit _append.
Resume(r) ==
  /\ task[r] = "flushed"
  /\ loop = NoRecord
  /\ SetTask(r, "append")
  /\ UNCHANGED <<hasher, loop, hands, files, mishaps>>

\* _append, in a thread; an exception only loses the record.
AppendRecord(r) ==
  /\ task[r] = "append"
  /\ msgs' = [msgs EXCEPT ![Dir[r]] = Appended(@, <<r>>)]
  /\ SetTask(r, "done")
  /\ UNCHANGED <<hasher, loop, hands, strs, mishaps>>

AppendFails(r) ==
  /\ task[r] = "append"
  /\ Mishap("ioerror")
  /\ SetTask(r, "lost")
  /\ UNCHANGED <<hasher, loop, hands, files>>

-----------------------------------------------------------------------------
\* The sidecar goes down and comes up again: what was in memory is gone.
Restart ==
  /\ loaded' = [h \in Ids |-> FALSE]
  /\ known' = [h \in Ids |-> {}]
  /\ pending' = [h \in Ids |-> {}]
  /\ seen' = [h \in Ids |-> {}]
  /\ loop' = NoRecord
  /\ task' = [r \in Records |-> IF task[r] \in InFlight THEN "lost" ELSE task[r]]
  /\ hands' = [r \in Records |-> {}]
  /\ UNCHANGED dropped

Kill ==
  /\ Mishap("kill")
  /\ Restart
  /\ UNCHANGED files

\* The sidecar dies in the middle of appending a record, or a string.
KillInAppend(r) ==
  /\ Mishap("torn")
  /\ Restart
  /\ \/ /\ task[r] = "append"
        /\ msgs' = [msgs EXCEPT ![Dir[r]] = AppendedTorn(@)]
        /\ UNCHANGED strs
     \/ /\ hands[r] \ seen[Hasher(r)] # {}
        /\ strs' = [strs EXCEPT ![Dir[r]] = AppendedTorn(@)]
        /\ UNCHANGED msgs

\* What the loop and the threads do with record r once it is being handled.
Handle(r) ==
  \/ FlushNothing(r) \/ FlushGrab(r) \/ FlushWrite(r)
  \/ Resume(r) \/ AppendRecord(r)

HandleFails(r) == FlushFails(r) \/ FlushRaises(r) \/ AppendFails(r) \/ KillInAppend(r)

WriterTypeOK ==
  /\ loaded \in [Ids -> BOOLEAN]
  /\ known \in [Ids -> SUBSET Strings]
  /\ pending \in [Ids -> SUBSET Strings]
  /\ seen \in [Ids -> SUBSET Strings]
  /\ loop \in Records \cup {NoRecord}
  /\ task \in [Records -> TaskStates]
  /\ hands \in [Records -> SUBSET Strings]
  /\ dropped \in [Ids -> SUBSET Strings]
=============================================================================
