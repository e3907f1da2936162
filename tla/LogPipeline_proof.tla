------------------------- MODULE LogPipeline_proof --------------------------
(***************************************************************************)
(* Proofs about LogPipeline, for every set of sessions, records, contents  *)
(* and strings, every size of a chunk and everything that may go wrong.    *)
(***************************************************************************)
EXTENDS LogPipeline, FiniteSetTheorems, SequenceTheorems, TLAPS

-----------------------------------------------------------------------------
(* Files.                                                                  *)

\* The strings of a flush can be put into a sequence.
LEMMA StringsAsSeq ==
  ASSUME NEW S \in SUBSET Strings
  PROVE  SetToSeq(S) \in Seq(S)
<1>1. IsFiniteSet(S)
  BY FS_Subset, LogFilesAssumption
<1>2. Cardinality(S) \in Nat /\ ExistsBijection(1..Cardinality(S), S)
  BY <1>1, FS_CardinalityType
<1>3. PICK f \in [1..Cardinality(S) -> S] : IsInjective(f)
  BY <1>2 DEF ExistsBijection, Bijection, Injection, IsInjective
<1>4. SetToSeq(S) \in [1..Cardinality(S) -> S]
  BY <1>3 DEF SetToSeq
<1> QED
  BY <1>2, <1>4

\* What an append makes of a file (_append, flush).
LEMMA AppendedType ==
  ASSUME NEW S, NEW f \in Seq(S), Bad \in S, Torn \in S, NEW lines \in Seq(S)
  PROVE  /\ Appended(f, lines) \in Seq(S)
         /\ AppendedTorn(f) \in Seq(S)
<1>1. CASE IsTorn(f) /\ lines # <<>>
  <2>1. Len(f) \in 1..Len(f)
    BY <1>1, EmptySeq DEF IsTorn
  <2>2. [f EXCEPT ![Len(f)] = Bad] \in Seq(S)
    BY <2>1, ExceptSeq
  <2>3. Tail(lines) \in Seq(S)
    BY <1>1, HeadTailProperties
  <2> QED
    BY <1>1, <2>2, <2>3, ConcatProperties DEF Appended, AppendedTorn
<1>2. CASE ~ (IsTorn(f) /\ lines # <<>>)
  BY <1>2, ConcatProperties, AppendProperties DEF Appended, AppendedTorn
<1> QED
  BY <1>1, <1>2

\* Only the last line of a file can be torn.
OnlyLastTorn(f) == \A k \in 1..Len(f) - 1 : f[k] # Torn

\* It stays so when a record is appended, in full or not.
LEMMA AppendedTornLast ==
  ASSUME NEW f \in Seq(MsgLines), OnlyLastTorn(f), NEW r \in Records
  PROVE  OnlyLastTorn(Appended(f, <<r>>)) /\ OnlyLastTorn(AppendedTorn(f))
<1> USE LogFilesAssumption
<1>0. /\ Len(f) \in Nat /\ <<r>> \in Seq(MsgLines) /\ <<r>> # <<>>
      /\ Len(<<r>>) = 1 /\ <<r>>[1] = r /\ Tail(<<r>>) = <<>>
  BY DEF MsgLines
<1>1. CASE IsTorn(f)
  <2>1. f # <<>> /\ Len(f) \in 1..Len(f)
    BY <1>1, EmptySeq DEF IsTorn
  <2> DEFINE g == [f EXCEPT ![Len(f)] = Bad]
  <2>2. g \in Seq(MsgLines) /\ Len(g) = Len(f) /\ \A k \in 1..Len(f) - 1 : g[k] = f[k]
    BY <2>1, ExceptSeq DEF MsgLines
  <2>3. Appended(f, <<r>>) = g
    BY <1>0, <1>1, <2>2, ConcatEmptySeq DEF Appended
  <2> QED
    BY <1>1, <2>2, <2>3 DEF OnlyLastTorn, AppendedTorn
<1>2. CASE ~ IsTorn(f)
  <2>1. \A k \in 1..Len(f) : f[k] # Torn
    BY <1>0, <1>2, EmptySeq DEF OnlyLastTorn, IsTorn
  <2>2. OnlyLastTorn(f \o <<r>>)
    <3> DEFINE g == f \o <<r>>
    <3>1. Len(g) = Len(f) + 1 /\ \A k \in 1..Len(f) : g[k] = f[k]
      BY <1>0, ConcatProperties
    <3> QED
      BY <1>0, <2>1, <3>1 DEF OnlyLastTorn
  <2>3. OnlyLastTorn(Append(f, Torn))
    <3> DEFINE g == Append(f, Torn)
    <3>1. Len(g) = Len(f) + 1 /\ \A k \in 1..Len(f) : g[k] = f[k]
      BY <1>0, AppendProperties DEF MsgLines
    <3> QED
      BY <1>0, <2>1, <3>1 DEF OnlyLastTorn
  <2> QED
    BY <1>2, <2>2, <2>3 DEF Appended, AppendedTorn
<1> QED
  BY <1>1, <1>2

\* The lines that a reader gets through are there and not torn.
LEMMA CompleteLines ==
  ASSUME NEW S, NEW f \in Seq(S)
  PROVE  /\ Complete(f) \in Nat /\ Complete(f) <= Len(f)
         /\ OnlyLastTorn(f) => \A k \in 1..Complete(f) : f[k] \in S \ {Torn}
<1>1. Len(f) \in Nat /\ \A k \in 1..Len(f) : f[k] \in S
  BY ElementOfSeq
<1>2. CASE IsTorn(f)
  BY <1>1, <1>2, EmptySeq DEF Complete, IsTorn, OnlyLastTorn
<1>3. CASE ~ IsTorn(f)
  <2>1. CASE f = <<>>
    BY <1>3, <2>1, EmptySeq DEF Complete
  <2>2. CASE f # <<>>
    BY <1>1, <1>3, <2>2 DEF Complete, IsTorn, OnlyLastTorn
  <2> QED
    BY <2>1, <2>2
<1> QED
  BY <1>2, <1>3

-----------------------------------------------------------------------------
(* Types.                                                                  *)

\* TypeOK with what makes it inductive: a reader that stops before a torn line
\* sees records only, and each process knows which session it is at.
TypeInv ==
  /\ TypeOK
  /\ \A s \in Sessions : OnlyLastTorn(msgs[s])
  /\ ing \notin {"off", "scan"} => icur \in Sessions
  /\ rec \in {"list", "rm"} => rcur \in Sessions

\* The initial state is well typed.
LEMMA InitType == Init => TypeInv
<1> SUFFICES ASSUME Init PROVE TypeInv
  OBVIOUS
<1>1. FilesTypeOK /\ \A s \in Sessions : OnlyLastTorn(msgs[s])
  BY EmptySeq, LogFilesAssumption
  DEF Init, FilesInit, FilesTypeOK, OnlyLastTorn
<1>2. WriterTypeOK
  BY DEF Init, WriterInit, WriterTypeOK, TaskStates
<1>3. IndexTypeOK
  BY EmptySeq DEF Init, IndexInit, IndexTypeOK, IngStates, RecStates
<1> QED
  BY <1>1, <1>2, <1>3 DEF TypeInv, TypeOK, Init, IndexInit

\* A failure is counted within the bound.
LEMMA MishapType ==
  ASSUME TypeInv, NEW e, Mishap(e)
  PROVE  mishaps' \in 0..MaxMishaps
BY LogFilesAssumption DEF TypeInv, TypeOK, FilesTypeOK, Mishap

\* The sidecar (callback.py, string_hasher.py) keeps the types.
LEMMA WriteType ==
  ASSUME TypeInv, Write, UNCHANGED index
  PROVE  TypeInv'
<1> USE LogFilesAssumption, LogWriterAssumption
<1>0. WriterTypeOK /\ FilesTypeOK /\ busy \subseteq Sessions
  BY DEF TypeInv, TypeOK
<1>1. IndexTypeOK'
  BY DEF TypeInv, TypeOK, IndexTypeOK, index, tables, ingester, reclaimer
<1>2. /\ ing' \notin {"off", "scan"} => icur' \in Sessions
      /\ rec' \in {"list", "rm"} => rcur' \in Sessions
  BY DEF TypeInv, index, ingester, reclaimer
<1> SUFFICES /\ WriterTypeOK' /\ FilesTypeOK' /\ busy' \subseteq Sessions
             /\ \A s \in Sessions : OnlyLastTorn(msgs'[s])
  BY <1>1, <1>2 DEF TypeInv, TypeOK, OnlyLastTorn
<1>3. \A r \in Records : Dir[r] \in Sessions /\ Hasher(r) \in Ids /\ Uses(r) \subseteq Strings
  BY DEF Hasher, Uses
<1>4. \A s \in Sessions : OnlyLastTorn(msgs[s])
  BY DEF TypeInv
<1>5. /\ Torn \in MsgLines /\ Bad \in MsgLines /\ Torn \in StrLines /\ Bad \in StrLines
      /\ \A r \in Records : <<r>> \in Seq(MsgLines)
  BY DEF MsgLines, StrLines
<1>6. ASSUME Restart PROVE WriterTypeOK'
  BY <1>0, <1>6 DEF Restart, WriterTypeOK, TaskStates
<1>7. ASSUME NEW r \in Records, Arrive(r)
      PROVE  WriterTypeOK' /\ UNCHANGED <<files, mishaps>> /\ busy' \subseteq Sessions
  BY <1>0, <1>3, <1>7
  DEF Arrive, MarkBusy, Build, SetTask, WriterTypeOK, TaskStates
<1>8. ASSUME NEW r \in Records, FlushNothing(r) \/ FlushGrab(r) \/ Resume(r)
      PROVE  WriterTypeOK' /\ UNCHANGED <<files, mishaps>>
  <2>1. CASE FlushNothing(r)
    BY <1>0, <1>3, <2>1
    DEF FlushNothing, LeaveFlush, FlushEnd, SetTask, hasher, WriterTypeOK, TaskStates
  <2>2. CASE FlushGrab(r)
    BY <1>0, <1>3, <2>2 DEF FlushGrab, FlushAt, SetTask, WriterTypeOK, TaskStates
  <2>3. CASE Resume(r)
    BY <1>0, <1>3, <2>3 DEF Resume, SetTask, hasher, WriterTypeOK, TaskStates
  <2> QED
    BY <1>8, <2>1, <2>2, <2>3
<1>9. ASSUME NEW r \in Records, FlushWrite(r)
      PROVE  WriterTypeOK' /\ FilesTypeOK' /\ UNCHANGED msgs
  <2> DEFINE new == hands[r] \ seen[Hasher(r)]
  <2>1. SetToSeq(new) \in Seq(StrLines)
    BY <1>0, StringsAsSeq, SeqMonotonic DEF WriterTypeOK, StrLines
  <2>2. Appended(strs[Dir[r]], SetToSeq(new)) \in Seq(StrLines)
    BY <1>0, <1>3, <1>5, <2>1, AppendedType DEF FilesTypeOK
  <2>3. FilesTypeOK' /\ UNCHANGED msgs
    BY <1>0, <1>3, <1>9, <2>2 DEF FlushWrite, FilesTypeOK
  <2>4. WriterTypeOK'
    BY <1>0, <1>3, <1>9
    DEF FlushWrite, LeaveFlush, FlushEnd, SetTask, WriterTypeOK, TaskStates
  <2> QED
    BY <2>3, <2>4
<1>10. ASSUME NEW r \in Records, FlushFails(r) \/ FlushRaises(r)
       PROVE  WriterTypeOK' /\ FilesTypeOK' /\ UNCHANGED msgs
  <2>1. WriterTypeOK'
    <3>1. CASE FlushFails(r)
      BY <1>0, <1>3, <3>1
      DEF FlushFails, Restored, LeaveFlush, FlushEnd, SetTask, WriterTypeOK, TaskStates
    <3>2. CASE FlushRaises(r)
      BY <1>0, <1>3, <3>2 DEF FlushRaises, SetTask, WriterTypeOK, TaskStates
    <3> QED
      BY <1>10, <3>1, <3>2
  <2>2. FilesTypeOK' /\ UNCHANGED msgs
    BY <1>0, <1>10, MishapType DEF FlushFails, FlushRaises, files, FilesTypeOK
  <2> QED
    BY <2>1, <2>2
<1>11. ASSUME NEW r \in Records, AppendRecord(r)
       PROVE  /\ WriterTypeOK' /\ FilesTypeOK'
              /\ \A s \in Sessions : OnlyLastTorn(msgs'[s])
  <2>1. Appended(msgs[Dir[r]], <<r>>) \in Seq(MsgLines)
    BY <1>0, <1>3, <1>5, AppendedType DEF FilesTypeOK
  <2>2. OnlyLastTorn(Appended(msgs[Dir[r]], <<r>>))
    BY <1>0, <1>3, <1>4, AppendedTornLast DEF FilesTypeOK
  <2>3. WriterTypeOK'
    BY <1>0, <1>11 DEF AppendRecord, SetTask, hasher, WriterTypeOK, TaskStates
  <2>4. FilesTypeOK'
    BY <1>0, <1>3, <1>11, <2>1 DEF AppendRecord, FilesTypeOK
  <2>5. ASSUME NEW s \in Sessions
        PROVE  msgs'[s] \in {msgs[s], Appended(msgs[Dir[r]], <<r>>)}
    BY <1>0, <1>11 DEF AppendRecord, FilesTypeOK
  <2> QED
    BY <1>4, <2>2, <2>3, <2>4, <2>5
<1>12. ASSUME NEW r \in Records, AppendFails(r)
       PROVE  WriterTypeOK' /\ FilesTypeOK' /\ UNCHANGED msgs
  <2>1. WriterTypeOK'
    BY <1>0, <1>12 DEF AppendFails, SetTask, hasher, WriterTypeOK, TaskStates
  <2>2. FilesTypeOK' /\ UNCHANGED msgs
    BY <1>0, <1>12, MishapType DEF AppendFails, files, FilesTypeOK
  <2> QED
    BY <2>1, <2>2
<1>13. ASSUME Kill
       PROVE  WriterTypeOK' /\ FilesTypeOK' /\ UNCHANGED msgs
  BY <1>0, <1>6, <1>13, MishapType DEF Kill, files, FilesTypeOK
<1>14. ASSUME NEW r \in Records, KillInAppend(r)
       PROVE  /\ WriterTypeOK' /\ FilesTypeOK'
              /\ \A s \in Sessions : OnlyLastTorn(msgs'[s])
  <2>1. WriterTypeOK' /\ mishaps' \in 0..MaxMishaps
    BY <1>6, <1>14, MishapType DEF KillInAppend
  <2>2. /\ AppendedTorn(msgs[Dir[r]]) \in Seq(MsgLines)
        /\ AppendedTorn(strs[Dir[r]]) \in Seq(StrLines)
    BY <1>0, <1>3, <1>5, AppendedType, EmptySeq DEF FilesTypeOK
  <2>3. OnlyLastTorn(AppendedTorn(msgs[Dir[r]]))
    BY <1>0, <1>3, <1>4, AppendedTornLast DEF FilesTypeOK
  <2>4. FilesTypeOK'
    <3>1. msgs' \in [Sessions -> Seq(MsgLines)]
      BY <1>0, <1>3, <1>14, <2>2 DEF KillInAppend, FilesTypeOK
    <3>2. strs' \in [Sessions -> Seq(StrLines)]
      BY <1>0, <1>3, <1>14, <2>2 DEF KillInAppend, FilesTypeOK
    <3> QED
      BY <2>1, <3>1, <3>2 DEF FilesTypeOK
  <2>5. ASSUME NEW s \in Sessions
        PROVE  msgs'[s] \in {msgs[s], AppendedTorn(msgs[Dir[r]])}
    BY <1>0, <1>14 DEF KillInAppend, FilesTypeOK
  <2> QED
    BY <1>4, <2>1, <2>3, <2>4, <2>5
<1>15. CASE \E r \in Records : Arrive(r)
  BY <1>0, <1>4, <1>7, <1>15 DEF files, FilesTypeOK
<1>16. CASE UNCHANGED busy /\ Kill
  BY <1>0, <1>4, <1>13, <1>16
<1>17. CASE UNCHANGED busy /\ \E r \in Records : Handle(r)
  <2> PICK r \in Records : Handle(r)
    BY <1>17
  <2>1. CASE FlushNothing(r) \/ FlushGrab(r) \/ Resume(r)
    BY <1>0, <1>4, <1>8, <1>17, <2>1 DEF files, FilesTypeOK
  <2>2. CASE FlushWrite(r)
    BY <1>0, <1>4, <1>9, <1>17, <2>2
  <2>3. CASE AppendRecord(r)
    BY <1>0, <1>11, <1>17, <2>3
  <2> QED
    BY <2>1, <2>2, <2>3 DEF Handle
<1>18. CASE UNCHANGED busy /\ \E r \in Records : HandleFails(r)
  <2> PICK r \in Records : HandleFails(r)
    BY <1>18
  <2>1. CASE FlushFails(r) \/ FlushRaises(r)
    BY <1>0, <1>4, <1>10, <1>18, <2>1
  <2>2. CASE AppendFails(r)
    BY <1>0, <1>4, <1>12, <1>18, <2>2
  <2>3. CASE KillInAppend(r)
    BY <1>0, <1>14, <1>18, <2>3
  <2> QED
    BY <2>1, <2>2, <2>3 DEF HandleFails
<1> QED
  BY <1>15, <1>16, <1>17, <1>18 DEF Write

\* The ingest pass (ingest_tree) keeps the types.
LEMMA ReadType ==
  ASSUME TypeInv, Read, UNCHANGED writer
  PROVE  TypeInv'
<1> USE LogFilesAssumption, LogIndexAssumption
<1>0. IndexTypeOK /\ FilesTypeOK /\ \A s \in Sessions : OnlyLastTorn(msgs[s])
  BY DEF TypeInv, TypeOK
<1>1. WriterTypeOK' /\ busy' \subseteq Sessions
  BY DEF Read, TypeInv, TypeOK, WriterTypeOK, writer
<1>2. UNCHANGED files
  BY DEF Read, Ingest, IngestStart, OpenSession, ReadLine, CommitChunk, ReadEnd,
         FinishSession, IngestEnd, IngestFails, IngestCrashes
<1>3. rec \in {"list", "rm"} => rcur \in Sessions
  BY DEF TypeInv
<1>4. UNCHANGED reclaimer
  BY DEF Read, Ingest, IngestStart, OpenSession, ReadLine, CommitChunk, ReadEnd,
         FinishSession, IngestEnd, IngestFails, IngestCrashes
<1>5. mishaps' \in 0..MaxMishaps
  BY <1>0, MishapType
  DEF Read, Ingest, IngestStart, OpenSession, ReadLine, CommitChunk, ReadEnd,
      FinishSession, IngestEnd, IngestFails, IngestCrashes, FilesTypeOK
<1>6. FilesTypeOK' /\ \A s \in Sessions : OnlyLastTorn(msgs'[s])
  BY <1>0, <1>2, <1>5 DEF FilesTypeOK, files
<1>7. /\ rec' \in RecStates /\ scope' \in [Sessions -> Nat]
      /\ rcur' \in Sessions \cup {NoSession} /\ listed' \subseteq {"msgs", "strs"}
      /\ deleted' \subseteq Sessions /\ doomed' \subseteq Contents \cup Strings
      /\ gone' \subseteq Sessions
      /\ rec' \in {"list", "rm"} => rcur' \in Sessions
  BY <1>0, <1>3, <1>4 DEF reclaimer, IndexTypeOK
<1> DEFINE TablesType == /\ rowM \in [Sessions -> Nat] /\ rowT \in [Sessions -> Nat]
                         /\ reqs \in [Sessions -> Seq(Records)]
                         /\ blobs \subseteq Contents \cup Strings
           IngestType == /\ ilock \in {"none", "ingest", "reclaim"}
                         /\ ing \in IngStates /\ todo \subseteq Sessions
                         /\ icur \in Sessions \cup {NoSession}
                         /\ pos \in Nat /\ chunk \in Seq(Records)
                         /\ carried \subseteq Contents
                         /\ ing \notin {"off", "scan"} => icur \in Sessions
<1>8. TablesType /\ IngestType
  BY <1>0 DEF IndexTypeOK, TypeInv
<1> SUFFICES TablesType' /\ IngestType'
  BY <1>1, <1>6, <1>7 DEF TypeInv, TypeOK, IndexTypeOK, OnlyLastTorn
<1>9. \A s \in Sessions : /\ msgs[s] \in Seq(MsgLines) /\ Complete(msgs[s]) \in Nat
                          /\ Complete(msgs[s]) <= Len(msgs[s]) /\ Len(msgs[s]) \in Nat
                          /\ Complete(strs[s]) \in Nat
                          /\ \A k \in 1..Complete(msgs[s]) : msgs[s][k] \in MsgLines \ {Torn}
  BY <1>0, CompleteLines, LenProperties DEF FilesTypeOK
<1>10. <<>> \in Seq(Records)
  BY EmptySeq
<1>11. ASSUME NextSession PROVE IngestType' \/ ilock' # ilock
  BY <1>8, <1>10, <1>11 DEF NextSession, IngStates
<1>12. ASSUME NEW m \in Nat, NEW t \in Nat, NEW new \in SUBSET Strings,
              icur \in Sessions, Commit(m, t, new)
       PROVE  TablesType'
  <2>1. reqs[icur] \o chunk \in Seq(Records)
    BY <1>8, <1>12, ConcatProperties
  <2> QED
    BY <1>8, <1>12, <2>1 DEF Commit
<1>13. CASE IngestStart
  BY <1>8, <1>13 DEF IngestStart, tables, Discovered, IngStates
<1>14. ASSUME NEW s \in Sessions, OpenSession(s) PROVE TablesType' /\ IngestType'
  BY <1>8, <1>10, <1>14 DEF OpenSession, ForgetRows, IngStates
<1>15. CASE ReadLine
  <2> DEFINE line == msgs[icur][pos + 1]
  <2>1. icur \in Sessions /\ pos + 1 \in Nat /\ line \in MsgLines \ {Torn}
    BY <1>8, <1>9, <1>15 DEF ReadLine
  <2>2. CASE line = Bad
    BY <1>8, <1>15, <2>1, <2>2 DEF ReadLine, tables
  <2>3. CASE line # Bad
    <3>1. line \in Records /\ Append(chunk, line) \in Seq(Records)
      BY <1>8, <2>1, <2>3, AppendProperties DEF MsgLines
    <3>2. carried \cup Holds[line] \subseteq Contents
      BY <1>8, <3>1
    <3> QED
      BY <1>8, <1>15, <2>1, <2>3, <3>1, <3>2 DEF ReadLine, tables, IngStates
  <2> QED
    BY <2>2, <2>3
<1>16. CASE CommitChunk
  <2>1. icur \in Sessions /\ rowT[icur] \in Nat
    BY <1>8, <1>16 DEF CommitChunk
  <2>2. TablesType'
    BY <1>8, <1>12, <1>16, <2>1 DEF CommitChunk
  <2> QED
    BY <1>8, <1>10, <1>16, <2>1, <2>2 DEF CommitChunk, IngStates
<1>17. CASE ReadEnd
  BY <1>8, <1>17 DEF ReadEnd, tables, IngStates
<1>18. CASE FinishSession
  <2>1. icur \in Sessions /\ rowT[icur] \in Nat
    BY <1>8, <1>18 DEF FinishSession
  <2>2. StringsEnd \in Nat /\ StringsRead \in SUBSET Strings
    BY <1>9, <2>1 DEF StringsEnd, StringsRead
  <2>3. TablesType'
    BY <1>8, <1>12, <1>18, <2>1, <2>2 DEF FinishSession, tables
  <2> QED
    BY <1>11, <1>18, <2>3 DEF FinishSession
<1>19. CASE IngestFails
  BY <1>8, <1>11, <1>19 DEF IngestFails, tables
<1>20. CASE IngestEnd
  BY <1>8, <1>20 DEF IngestEnd, tables, IngStates
<1>21. CASE IngestCrashes
  BY <1>8, <1>10, <1>21 DEF IngestCrashes, tables, IngStates
<1> QED
  BY <1>13, <1>14, <1>15, <1>16, <1>17, <1>18, <1>19, <1>20, <1>21 DEF Read, Ingest

\* Cleanup (retention_scope, reclaim_index) keeps the types.
LEMMA CleanType ==
  ASSUME TypeInv, Clean, UNCHANGED writer
  PROVE  TypeInv'
<1> USE LogFilesAssumption, LogIndexAssumption
<1>0. IndexTypeOK /\ FilesTypeOK /\ busy \subseteq Sessions
  BY DEF TypeInv, TypeOK
<1>1. WriterTypeOK'
  BY DEF TypeInv, TypeOK, WriterTypeOK, writer
<1>2. UNCHANGED ingester
  BY DEF Clean, Check, Reclaim, Survey, ReclaimDeclined, ReclaimStart, CheckSession,
         ListDir, RemoveFile, RemoveDir, RemoveFails, ForgetSessions, SweepRead,
         SweepDelete, ReclaimCrashes
<1>3. busy' \subseteq Sessions
  BY <1>0 DEF Clean, Check, MarkBusy
<1>4. /\ ing' \in IngStates /\ todo' \subseteq Sessions
      /\ icur' \in Sessions \cup {NoSession} /\ pos' \in Nat
      /\ chunk' \in Seq(Records) /\ carried' \subseteq Contents
      /\ ing' \notin {"off", "scan"} => icur' \in Sessions
  BY <1>0, <1>2 DEF ingester, IndexTypeOK, TypeInv
<1> DEFINE LogType == FilesTypeOK /\ \A s \in Sessions : OnlyLastTorn(msgs[s])
           TablesType == /\ rowM \in [Sessions -> Nat] /\ rowT \in [Sessions -> Nat]
                         /\ reqs \in [Sessions -> Seq(Records)]
                         /\ blobs \subseteq Contents \cup Strings
                         /\ ilock \in {"none", "ingest", "reclaim"}
           ReclaimType == /\ rec \in RecStates /\ scope \in [Sessions -> Nat]
                          /\ rcur \in Sessions \cup {NoSession}
                          /\ listed \subseteq {"msgs", "strs"}
                          /\ deleted \subseteq Sessions
                          /\ doomed \subseteq Contents \cup Strings
                          /\ gone \subseteq Sessions
                          /\ rec \in {"list", "rm"} => rcur \in Sessions
<1>5. LogType /\ TablesType /\ ReclaimType
  BY <1>0 DEF IndexTypeOK, TypeInv
<1> SUFFICES LogType' /\ TablesType' /\ ReclaimType'
  BY <1>1, <1>3, <1>4 DEF TypeInv, TypeOK, IndexTypeOK, OnlyLastTorn
<1>6. ASSUME UNCHANGED files, mishaps' \in 0..MaxMishaps PROVE LogType'
  BY <1>5, <1>6 DEF FilesTypeOK, files
<1>7. ASSUME UNCHANGED <<files, mishaps>> PROVE LogType'
  BY <1>5, <1>7 DEF FilesTypeOK, files
<1>8. CASE Survey
  BY <1>5, <1>7, <1>8 DEF Survey, tables, RecStates
<1>9. CASE ReclaimDeclined \/ ReclaimStart
  <2>1. CASE ReclaimDeclined
    BY <1>5, <1>7, <2>1 DEF ReclaimDeclined, tables, RecStates
  <2>2. CASE ReclaimStart
    BY <1>5, <1>7, <2>2 DEF ReclaimStart, tables, RecStates
  <2> QED
    BY <1>9, <2>1, <2>2
<1>10. ASSUME NEW s \in Sessions, CheckSession(s)
       PROVE  LogType' /\ TablesType' /\ ReclaimType'
  BY <1>5, <1>7, <1>10 DEF CheckSession, tables, RecStates
<1>11. CASE ListDir
  BY <1>5, <1>7, <1>11 DEF ListDir, Present, tables, RecStates
<1>12. ASSUME NEW n \in {"msgs", "strs"}, RemoveFile(n)
       PROVE  LogType' /\ TablesType' /\ ReclaimType'
  <2>1. /\ <<>> \in Seq(MsgLines) /\ <<>> \in Seq(StrLines) /\ OnlyLastTorn(<<>>)
    BY EmptySeq DEF OnlyLastTorn
  <2>2. LogType'
    <3>1. FilesTypeOK'
      BY <1>5, <1>12, <2>1 DEF RemoveFile, FilesTypeOK
    <3>2. \A s \in Sessions : msgs'[s] \in {msgs[s], <<>>}
      BY <1>5, <1>12 DEF RemoveFile, FilesTypeOK
    <3> QED
      BY <1>5, <2>1, <3>1, <3>2
  <2> QED
    BY <1>5, <1>12, <2>2 DEF RemoveFile, tables
<1>13. CASE RemoveDir
  BY <1>5, <1>7, <1>13 DEF RemoveDir, NextExpired, tables, RecStates
<1>14. CASE RemoveFails
  <2>1. mishaps' \in 0..MaxMishaps
    BY <1>5, <1>14, MishapType DEF RemoveFails, FilesTypeOK
  <2> QED
    BY <1>5, <1>6, <1>14, <2>1 DEF RemoveFails, NextExpired, tables, RecStates
<1>15. CASE ForgetSessions
  <2>1. <<>> \in Seq(Records)
    BY EmptySeq
  <2> QED
    BY <1>5, <1>7, <1>15, <2>1 DEF ForgetSessions, ForgetRows, RecStates
<1>16. CASE SweepRead
  BY <1>5, <1>7, <1>16 DEF SweepRead, Unreferenced, tables, RecStates
<1>17. CASE SweepDelete
  BY <1>5, <1>7, <1>17 DEF SweepDelete, RecStates
<1>18. CASE ReclaimCrashes
  BY <1>5, <1>6, <1>18, MishapType DEF ReclaimCrashes, tables, RecStates
<1> QED
  BY <1>8, <1>9, <1>10, <1>11, <1>12, <1>13, <1>14, <1>15, <1>16, <1>17, <1>18
  DEF Clean, Check, Reclaim

\* TypeInv is inductive.
LEMMA TypeInvariant == Spec => []TypeInv
<1>1. TypeInv /\ [Next]_vars => TypeInv'
  <2> SUFFICES ASSUME TypeInv, [Next]_vars PROVE TypeInv'
    OBVIOUS
  <2>1. CASE UNCHANGED vars
    BY <2>1
    DEF vars, files, writer, index, tables, ingester, reclaimer, TypeInv, TypeOK,
        FilesTypeOK, WriterTypeOK, IndexTypeOK, OnlyLastTorn
  <2> QED
    BY <2>1, WriteType, ReadType, CleanType DEF Next
<1> QED
  BY <1>1, InitType, PTL DEF Spec

\* Every variable keeps its type: above all, no line that is torn or does not
\* parse gets into the index, whatever the callback's appends went through.
THEOREM TypeCorrect == Spec => []TypeOK
<1>1. TypeInv => TypeOK
  BY DEF TypeInv
<1> QED
  BY <1>1, TypeInvariant, PTL

-----------------------------------------------------------------------------
(* The blob store.                                                         *)

\* Why the contents of requests are stored: whoever commits or sweeps holds the
\* ingest lock, a chunk carries what its records hold, and what the sweep has
\* chosen stays unreachable until it is deleted.
StoreInv ==
  /\ ilock = "ingest" <=> ing # "off"
  /\ ilock = "reclaim" <=> rec \in RecLocked
  /\ \A r \in Range(chunk) : Holds[r] \subseteq carried
  /\ ContentIsStored
  /\ rec = "delete" => doomed \cap Reachable = {}

\* The requests that contents are named by determine what is reachable.
LEMMA ReachableShrinks ==
  ASSUME Indexed' \subseteq Indexed
  PROVE  Named' \subseteq Named /\ Reachable' \subseteq Reachable
<1>1. Named' \subseteq Named
  BY DEF Named
<1> QED
  BY <1>1 DEF Reachable

\* Forgetting sessions only takes requests away.
LEMMA ForgetShrinks ==
  ASSUME NEW S, ForgetRows(S)
  PROVE  Indexed' \subseteq Indexed
<1>1. \A s \in Sessions : reqs'[s] \in {reqs[s], <<>>}
  BY DEF ForgetRows
<1>2. Range(<<>>) = {}
  BY EmptySeq DEF Range
<1> QED
  BY <1>1, <1>2 DEF Indexed, RequestsOf

\* A chunk adds its own requests and stores what they hold.
LEMMA CommitStores ==
  ASSUME TypeInv, StoreInv, NEW m, NEW t, NEW new, icur \in Sessions,
         Commit(m, t, new)
  PROVE  ContentIsStored' /\ blobs \subseteq blobs'
<1>1. reqs \in [Sessions -> Seq(Records)] /\ chunk \in Seq(Records)
  BY DEF TypeInv, TypeOK, IndexTypeOK
<1>2. Range(reqs[icur] \o chunk) = Range(reqs[icur]) \cup Range(chunk)
  BY <1>1, RangeConcatenation
<1>3. Indexed' \subseteq Indexed \cup Range(chunk)
  BY <1>1, <1>2 DEF Commit, Indexed, RequestsOf
<1>4. blobs' = blobs \cup carried \cup new
  BY DEF Commit
<1> QED
  BY <1>3, <1>4 DEF StoreInv, ContentIsStored, Named

\* An empty chunk carries nothing.
LEMMA EmptyRange == Range(<<>>) = {}
BY EmptySeq DEF Range

\* The ingest pass keeps the store, and takes no blob away.
LEMMA ReadStore ==
  ASSUME TypeInv, StoreInv, Read
  PROVE  StoreInv' /\ blobs \subseteq blobs'
<1> USE DEF RecLocked, RecStates
<1>1. UNCHANGED reclaimer
  BY DEF Read, Ingest, IngestStart, OpenSession, ReadLine, CommitChunk, ReadEnd,
         FinishSession, IngestEnd, IngestFails, IngestCrashes
<1>2. rec = rec' /\ doomed = doomed'
  BY <1>1 DEF reclaimer
<1>3. ASSUME ilock' = ilock, ing # "off", ing' # "off",
             \A r \in Range(chunk') : Holds[r] \subseteq carried',
             ContentIsStored'
      PROVE  StoreInv'
  <2>1. rec # "delete"
    BY <1>3 DEF StoreInv
  <2> QED
    BY <1>2, <1>3, <2>1 DEF StoreInv
<1>4. ASSUME UNCHANGED tables
      PROVE  /\ ContentIsStored' /\ blobs \subseteq blobs'
             /\ doomed \cap Reachable = {} => doomed' \cap Reachable' = {}
  <2>1. UNCHANGED <<reqs, blobs>>
    BY <1>4 DEF tables
  <2>2. Indexed' = Indexed
    BY <2>1 DEF Indexed, RequestsOf
  <2> QED
    BY <1>2, <2>1, <2>2, ReachableShrinks DEF StoreInv, ContentIsStored
<1>5. ASSUME UNCHANGED tables, UNCHANGED <<chunk, carried>>, UNCHANGED ilock,
             ing # "off", ing' # "off"
      PROVE  StoreInv' /\ blobs \subseteq blobs'
  BY <1>3, <1>4, <1>5 DEF StoreInv
<1>6. CASE IngestStart
  BY <1>2, <1>4, <1>6 DEF IngestStart, LockFree, StoreInv
<1>7. CASE \E s \in Sessions : OpenSession(s)
  <2> PICK s \in Sessions : OpenSession(s)
    BY <1>7
  <2>1. Indexed' \subseteq Indexed
    BY ForgetShrinks DEF OpenSession
  <2>2. blobs' = blobs
    BY DEF OpenSession
  <2>3. ContentIsStored'
    BY <2>1, <2>2, ReachableShrinks DEF StoreInv, ContentIsStored
  <2> QED
    BY <1>3, <2>2, <2>3 DEF OpenSession, StoreInv
<1>8. CASE ReadLine
  <2> DEFINE line == msgs[icur][pos + 1]
  <2>1. CASE line = Bad
    BY <1>5, <1>8, <2>1 DEF ReadLine
  <2>2. CASE line # Bad
    <3>1. chunk \in Seq(Records \cup {line})
      BY SeqMonotonic DEF TypeInv, TypeOK, IndexTypeOK
    <3>2. Range(Append(chunk, line)) \subseteq Range(chunk) \cup {line}
      BY <3>1, AppendProperties, LenProperties DEF Range
    <3>3. chunk' = Append(chunk, line) /\ carried' = carried \cup Holds[line]
      BY <1>8, <2>2 DEF ReadLine
    <3> QED
      BY <1>3, <1>4, <1>8, <2>2, <3>2, <3>3 DEF ReadLine, StoreInv
  <2> QED
    BY <2>1, <2>2
<1>9. CASE CommitChunk
  <2>1. icur \in Sessions
    BY <1>9 DEF CommitChunk, TypeInv
  <2> QED
    BY <1>3, <1>9, <2>1, CommitStores, EmptyRange DEF CommitChunk
<1>10. CASE ReadEnd
  BY <1>5, <1>10 DEF ReadEnd
<1>11. CASE FinishSession
  <2>1. icur \in Sessions
    BY <1>11 DEF FinishSession, TypeInv
  <2>2. ContentIsStored' /\ blobs \subseteq blobs'
    BY <1>4, <1>11, <2>1, CommitStores DEF FinishSession
  <2> QED
    BY <1>3, <1>11, <2>2, EmptyRange DEF FinishSession, NextSession
<1>12. CASE IngestFails
  BY <1>3, <1>4, <1>12, EmptyRange DEF IngestFails, NextSession
<1>13. CASE IngestEnd
  BY <1>2, <1>4, <1>13 DEF IngestEnd, StoreInv
<1>14. CASE IngestCrashes
  BY <1>2, <1>4, <1>14, EmptyRange DEF IngestCrashes, StoreInv
<1> QED
  BY <1>6, <1>7, <1>8, <1>9, <1>10, <1>11, <1>12, <1>13, <1>14 DEF Read, Ingest

\* What a step may do to the blobs: none that a request reaches goes.
Spares == (blobs \ blobs') \cap (Reachable \cup Reachable') = {}

\* Cleanup keeps the store, and sweeps only what nothing reaches.
LEMMA CleanStore ==
  ASSUME StoreInv, Clean
  PROVE  StoreInv' /\ Spares
<1> USE DEF RecLocked, RecStates
<1>1. UNCHANGED ingester
  BY DEF Clean, Check, Reclaim, Survey, ReclaimDeclined, ReclaimStart, CheckSession,
         ListDir, RemoveFile, RemoveDir, RemoveFails, ForgetSessions, SweepRead,
         SweepDelete, ReclaimCrashes
<1>2. ing' = ing /\ \A r \in Range(chunk') : Holds[r] \subseteq carried'
  BY <1>1 DEF ingester, StoreInv
<1>3. ASSUME UNCHANGED reqs PROVE Named' = Named /\ Reachable' = Reachable
  BY <1>3 DEF Named, Reachable, Indexed, RequestsOf
<1>4. ASSUME UNCHANGED tables PROVE ContentIsStored' /\ Spares
  BY <1>3, <1>4 DEF tables, StoreInv, ContentIsStored, Spares
<1>5. ASSUME UNCHANGED tables, rec' # "delete",
             \/ UNCHANGED ilock /\ (rec \in RecLocked <=> rec' \in RecLocked)
             \/ ilock = "none" /\ ilock' = "reclaim" /\ rec' \in RecLocked
             \/ ilock = "reclaim" /\ ilock' = "none" /\ rec' \notin RecLocked
      PROVE  StoreInv' /\ Spares
  BY <1>2, <1>4, <1>5 DEF StoreInv
<1>6. CASE Survey \/ ReclaimDeclined
  BY <1>5, <1>6 DEF Survey, ReclaimDeclined
<1>7. CASE ReclaimStart
  BY <1>5, <1>7 DEF ReclaimStart, LockFree
<1>8. CASE \E s \in Sessions : Check(s)
  BY <1>5, <1>8 DEF Check, CheckSession
<1>9. CASE ListDir \/ \E n \in {"msgs", "strs"} : RemoveFile(n)
  BY <1>5, <1>9 DEF ListDir, RemoveFile
<1>10. CASE RemoveDir \/ RemoveFails
  BY <1>5, <1>10 DEF RemoveDir, RemoveFails, NextExpired
<1>11. CASE ForgetSessions
  <2>1. Named' \subseteq Named /\ Reachable' \subseteq Reachable /\ blobs' = blobs
    BY <1>11, ForgetShrinks, ReachableShrinks DEF ForgetSessions
  <2>2. ContentIsStored' /\ Spares
    BY <2>1 DEF StoreInv, ContentIsStored, Spares
  <2> QED
    BY <1>2, <1>11, <2>2 DEF ForgetSessions, StoreInv
<1>12. CASE SweepRead
  <2>1. ContentIsStored' /\ Spares
    BY <1>4, <1>12 DEF SweepRead
  <2>2. doomed' \cap Reachable' = {}
    BY <1>3, <1>12 DEF SweepRead, Unreferenced, tables
  <2> QED
    BY <1>2, <1>12, <2>1, <2>2 DEF SweepRead, StoreInv
<1>13. CASE SweepDelete
  <2>1. /\ doomed \cap Reachable = {} /\ blobs' = blobs \ doomed
        /\ Named' = Named /\ Reachable' = Reachable
    BY <1>3, <1>13 DEF SweepDelete, StoreInv
  <2>2. ContentIsStored' /\ Spares
    BY <2>1 DEF StoreInv, ContentIsStored, Spares, Reachable
  <2> QED
    BY <1>2, <1>13, <2>2 DEF SweepDelete, StoreInv
<1>14. CASE ReclaimCrashes
  BY <1>5, <1>14 DEF ReclaimCrashes, StoreInv
<1> QED
  BY <1>6, <1>7, <1>8, <1>9, <1>10, <1>11, <1>12, <1>13, <1>14 DEF Clean, Reclaim

\* What does not touch the index keeps both.
LEMMA IndexUntouched ==
  ASSUME StoreInv, UNCHANGED index
  PROVE  StoreInv' /\ Spares
BY DEF index, tables, ingester, reclaimer, StoreInv, ContentIsStored, Named, Reachable,
       Indexed, RequestsOf, Spares

\* Every step keeps the store and spares what is reachable.
LEMMA StoreStep ==
  ASSUME TypeInv, StoreInv, [Next]_vars
  PROVE  StoreInv' /\ Spares
<1>1. CASE UNCHANGED index
  BY <1>1, IndexUntouched
<1>2. CASE Read
  BY <1>2, ReadStore DEF Spares
<1>3. CASE Clean
  BY <1>3, CleanStore
<1> QED
  BY <1>1, <1>2, <1>3 DEF Next, vars

\* StoreInv is inductive, given the types.
LEMMA StoreInvariant == Spec => []StoreInv
<1>1. Init => StoreInv
  BY EmptyRange
  DEF Init, IndexInit, StoreInv, RecLocked, RecStates, ContentIsStored, Named, Indexed,
      RequestsOf
<1>2. TypeInv /\ StoreInv /\ [Next]_vars => StoreInv'
  BY StoreStep
<1> QED
  BY <1>1, <1>2, TypeInvariant, PTL DEF Spec

\* Every content that a request row names is in the blobs table, although the
\* rows have no foreign key: whatever fails, crashes or is deleted, and in
\* chunks of any size (ingest_chunk, sweep_blobs).
THEOREM ContentIsStoredHolds == Spec => []ContentIsStored
<1>1. StoreInv => ContentIsStored
  BY DEF StoreInv
<1> QED
  BY <1>1, StoreInvariant, PTL

\* The sweep reads and deletes in two transactions and still never takes a blob
\* that a request reaches, since every writer of the tables holds the ingest
\* lock (sweep_blobs: "The caller must hold the ingest lock").
THEOREM SweepSparesReachableHolds == Spec => SweepSparesReachable
<1>1. TypeInv /\ StoreInv /\ [Next]_vars
        => [(blobs \ blobs') \cap (Reachable \cup Reachable') = {}]_vars
  BY StoreStep DEF Spares
<1> QED
  BY <1>1, TypeInvariant, StoreInvariant, PTL DEF Spec, SweepSparesReachable

-----------------------------------------------------------------------------
(* What is read, kept and deleted: the index is the file up to its offset, *)
(* retention deletes nothing unread, and what a record points to is on its *)
(* way to the file.                                                        *)

\* The sessions whose messages file is what the index says: all but those whose
\* deletion broke off, and of these the ones that nobody used since and that
\* still have the file.
MsgsKept(s) == s \notin gone \/ (s \notin busy /\ msgs[s] # <<>>)
StrsKept(s) == s \notin gone \/ (s \notin busy /\ strs[s] # <<>>)

\* The offsets are inside the files, and the index is the file up to its offset.
OffsetInv ==
  \A s \in Sessions :
    /\ MsgsKept(s) => /\ rowM[s] <= Complete(msgs[s])
                      /\ IsRecordsUpTo(reqs[s], msgs[s], rowM[s])
    /\ StrsKept(s) => rowT[s] <= Complete(strs[s])

\* So is what the pass has read on top of it.
ReadingInv ==
  /\ ing \in {"off", "scan"} => chunk = <<>>
  /\ ing \notin {"off", "scan"} =>
       /\ rowM[icur] <= pos
       /\ MsgsKept(icur) => /\ pos <= Complete(msgs[icur])
                            /\ IsRecordsUpTo(reqs[icur] \o chunk, msgs[icur], pos)

\* A session that is being deleted is gone, and has nothing in flight unless it
\* is busy.
GoneInv ==
  /\ deleted \subseteq gone
  /\ rec \in {"list", "rm"} => rcur \in gone
  /\ \A s \in gone \ busy : Quiet(s)

\* What a flush has grabbed is in hand while it writes, and only then.
HandsInv == \A r \in Records : hands[r] # {} => task[r] \in {"flush1", "flush2"}

\* The survey's offsets have not been passed by, and what is being deleted is
\* in the index.
ScopeInv ==
  /\ \A s \in Sessions \ busy : scope[s] <= rowM[s]
  /\ rec \in {"list", "rm"} /\ rcur \notin busy =>
       Range(msgs[rcur]) \cap Records \subseteq RequestsOf(rcur)

OrderInv == OffsetInv /\ ReadingInv /\ GoneInv /\ HandsInv /\ ScopeInv

\* A string that has a pointer is in the file or on its way there, as long as
\* nothing is deleted or torn.
StringInv ==
  /\ rec = "off"
  /\ \A s \in Sessions : ~ IsTorn(strs[s])
  /\ \A h \in Ids : known[h] \subseteq Written \cup Buffered(h) \cup dropped[h]
  /\ \A h \in Ids : seen[h] \subseteq Written
  /\ \A r \in Records : task[r] \notin {"new", "lost"} => Uses(r) \subseteq known[Hasher(r)]
  /\ \A s \in Sessions : \A r \in Range(msgs[s]) \cap Records : task[r] = "done" /\ Dir[r] = s

-----------------------------------------------------------------------------
(* Files and the records in them.                                          *)

\* Nothing is read from an empty prefix.
LEMMA NoRecordsYet ==
  ASSUME NEW f
  PROVE  IsRecordsUpTo(<<>>, f, 0)
<1>1. Len(<<>>) = 0 /\ RecordLines(f, 0) = {}
  BY EmptySeq DEF RecordLines
<1>2. [i \in 1..0 |-> 0] \in [1..Len(<<>>) -> RecordLines(f, 0)]
  BY <1>1
<1> QED
  BY <1>1, <1>2 DEF IsRecordsUpTo

\* A line that does not parse is skipped.
LEMMA SkipsLine ==
  ASSUME NEW g \in Seq(Records), NEW f, NEW n \in Nat, IsRecordsUpTo(g, f, n),
         f[n + 1] \notin Records
  PROVE  IsRecordsUpTo(g, f, n + 1)
<1>1. RecordLines(f, n + 1) = RecordLines(f, n)
  BY DEF RecordLines
<1> QED
  BY <1>1 DEF IsRecordsUpTo

\* A record goes to the end.
LEMMA TakesRecord ==
  ASSUME NEW g \in Seq(Records), NEW f, NEW n \in Nat, IsRecordsUpTo(g, f, n),
         f[n + 1] \in Records
  PROVE  IsRecordsUpTo(Append(g, f[n + 1]), f, n + 1)
<1> DEFINE h == Append(g, f[n + 1])
<1>1. /\ Len(g) \in Nat /\ Len(h) = Len(g) + 1
      /\ \A i \in 1..Len(g) : h[i] = g[i]
      /\ h[Len(g) + 1] = f[n + 1]
  BY AppendProperties
<1> HIDE DEF h
<1>2. PICK at \in [1..Len(g) -> RecordLines(f, n)] :
        /\ \A i, j \in 1..Len(g) : i < j => at[i] < at[j]
        /\ \A k \in RecordLines(f, n) : \E i \in 1..Len(g) : at[i] = k
        /\ \A i \in 1..Len(g) : g[i] = f[at[i]]
  BY DEF IsRecordsUpTo
<1> DEFINE bt == [i \in 1..Len(h) |-> IF i = Len(h) THEN n + 1 ELSE at[i]]
<1>3. /\ n + 1 \in RecordLines(f, n + 1)
      /\ \A k \in RecordLines(f, n) : k \in RecordLines(f, n + 1) /\ k < n + 1
      /\ \A k \in RecordLines(f, n + 1) : k = n + 1 \/ k \in RecordLines(f, n)
  BY DEF RecordLines
<1>4. \A i \in 1..Len(g) : bt[i] = at[i] /\ bt[i] \in RecordLines(f, n) /\ i \in 1..Len(h)
  BY <1>1
<1>5. Len(h) \in 1..Len(h) /\ bt[Len(h)] = n + 1
      /\ \A i \in 1..Len(h) : i = Len(h) \/ i \in 1..Len(g)
  BY <1>1
<1>6. bt \in [1..Len(h) -> RecordLines(f, n + 1)]
  BY <1>1, <1>3
<1> HIDE DEF bt
<1>7. ASSUME NEW i \in 1..Len(h), NEW j \in 1..Len(h), i < j PROVE bt[i] < bt[j]
  <2>1. i \in 1..Len(g)
    BY <1>1, <1>7
  <2>2. CASE j = Len(h)
    BY <1>3, <1>4, <1>5, <2>1, <2>2
  <2>3. CASE j \in 1..Len(g)
    BY <1>2, <1>4, <1>7, <2>1, <2>3
  <2> QED
    BY <1>5, <2>2, <2>3
<1>8. \A k \in RecordLines(f, n + 1) : \E i \in 1..Len(h) : bt[i] = k
  BY <1>2, <1>3, <1>4, <1>5
<1>9. \A i \in 1..Len(h) : h[i] = f[bt[i]]
  BY <1>1, <1>2, <1>4, <1>5
<1> QED
  BY <1>6, <1>7, <1>8, <1>9 DEF IsRecordsUpTo, h

\* Only the lines up to the offset matter.
LEMMA SamePrefix ==
  ASSUME NEW g, NEW e, NEW f, NEW n \in Nat, IsRecordsUpTo(g, e, n),
         \A k \in 1..n : f[k] = e[k]
  PROVE  IsRecordsUpTo(g, f, n)
<1>1. RecordLines(f, n) = RecordLines(e, n)
  BY DEF RecordLines
<1>2. \A k \in RecordLines(e, n) : f[k] = e[k]
  BY DEF RecordLines
<1> QED
  BY <1>1, <1>2 DEF IsRecordsUpTo

\* When the offset is at the end of the file, every record is there.
LEMMA AllRead ==
  ASSUME NEW g \in Seq(Records), NEW f \in Seq(MsgLines), IsRecordsUpTo(g, f, Len(f))
  PROVE  Range(f) \cap Records \subseteq Range(g)
<1> SUFFICES ASSUME NEW r \in Range(f) \cap Records PROVE r \in Range(g)
  OBVIOUS
<1>1. PICK k \in 1..Len(f) : f[k] = r
  BY LenProperties DEF Range
<1>2. k \in RecordLines(f, Len(f))
  BY <1>1 DEF RecordLines
<1>3. PICK i \in 1..Len(g) : g[i] = f[k]
  BY <1>2 DEF IsRecordsUpTo
<1> QED
  BY <1>1, <1>3, LenProperties DEF Range

\* An append, whole or torn, leaves the complete lines of a file alone.
LEMMA AppendKeeps ==
  ASSUME NEW S, NEW f \in Seq(S), Bad \in S, Torn \in S, NEW lines \in Seq(S)
  PROVE  \A e \in {Appended(f, lines), AppendedTorn(f)} :
           /\ Complete(f) <= Complete(e)
           /\ \A k \in 1..Complete(f) : e[k] = f[k]
           /\ f # <<>> => e # <<>>
<1>0. /\ Complete(f) \in Nat /\ Complete(f) <= Len(f)
      /\ Len(f) \in Nat /\ Len(lines) \in Nat
  BY CompleteLines, LenProperties
<1>2. ASSUME NEW e \in Seq(S), Len(e) > Len(f), \A k \in 1..Len(f) : e[k] = f[k]
      PROVE  /\ Complete(f) <= Complete(e)
             /\ \A k \in 1..Complete(f) : e[k] = f[k]
             /\ e # <<>>
  BY <1>0, <1>2, LenProperties, EmptySeq DEF Complete
<1>3. CASE IsTorn(f)
  <2>1. Len(f) \in 1..Len(f) /\ f # <<>> /\ Complete(f) = Len(f) - 1
    BY <1>3, EmptySeq DEF IsTorn, Complete
  <2> DEFINE g == [f EXCEPT ![Len(f)] = Bad]
  <2>2. g \in Seq(S) /\ Len(g) = Len(f) /\ \A k \in 1..Len(f) - 1 : g[k] = f[k]
    BY <2>1, ExceptSeq
  <2> HIDE DEF g
  <2>3. ASSUME lines # <<>> PROVE Appended(f, lines) = g \o Tail(lines)
    BY <1>3, <2>3 DEF Appended, g
  <2>4. ASSUME lines = <<>> PROVE Appended(f, lines) = f
    BY <2>4, ConcatEmptySeq DEF Appended
  <2>5. ASSUME lines # <<>>
        PROVE  LET e == Appended(f, lines)
               IN /\ e \in Seq(S) /\ Len(e) >= Len(f)
                  /\ \A k \in 1..Len(f) - 1 : e[k] = f[k]
    <3> DEFINE t == Tail(lines)
    <3>1. t \in Seq(S)
      BY <2>5, HeadTailProperties
    <3> HIDE DEF t
    <3>2. Len(t) \in Nat /\ Len(g) \in Nat
      BY <2>2, <3>1, LenProperties
    <3>3. /\ g \o t \in Seq(S) /\ Len(g \o t) = Len(g) + Len(t)
          /\ \A k \in 1..Len(g) + Len(t) :
               (g \o t)[k] = IF k <= Len(g) THEN g[k] ELSE t[k - Len(g)]
      BY <2>2, <3>1, ConcatProperties
    <3>4. Appended(f, lines) = g \o t
      BY <2>3, <2>5 DEF t
    <3> QED
      BY <1>0, <2>2, <3>2, <3>3, <3>4
  <2>6. ASSUME NEW e \in Seq(S), Len(e) >= Len(f), \A k \in 1..Len(f) - 1 : e[k] = f[k]
        PROVE  /\ Complete(f) <= Complete(e)
               /\ \A k \in 1..Complete(f) : e[k] = f[k]
               /\ e # <<>>
    BY <1>0, <2>1, <2>6, LenProperties, EmptySeq DEF Complete
  <2>7. AppendedTorn(f) = f
    BY <1>3 DEF AppendedTorn
  <2> QED
    BY <1>0, <2>1, <2>4, <2>5, <2>6, <2>7
<1>4. CASE ~ IsTorn(f)
  <2>1. /\ Appended(f, lines) = f \o lines
        /\ AppendedTorn(f) = Append(f, Torn)
    BY <1>4 DEF Appended, AppendedTorn
  <2>2. ASSUME lines # <<>>
        PROVE  /\ f \o lines \in Seq(S) /\ Len(f \o lines) > Len(f)
               /\ \A k \in 1..Len(f) : (f \o lines)[k] = f[k]
    BY <1>0, <2>2, ConcatProperties, EmptySeq
  <2>3. ASSUME lines = <<>> PROVE f \o lines = f
    BY <2>3, ConcatEmptySeq
  <2>4. /\ Append(f, Torn) \in Seq(S) /\ Len(Append(f, Torn)) > Len(f)
        /\ \A k \in 1..Len(f) : Append(f, Torn)[k] = f[k]
    BY <1>0, AppendProperties
  <2> DEFINE Keeps(e) == /\ Complete(f) <= Complete(e)
                         /\ \A k \in 1..Complete(f) : e[k] = f[k]
                         /\ f # <<>> => e # <<>>
  <2>5. Keeps(Append(f, Torn))
    BY <1>2, <2>4
  <2>6. Keeps(f \o lines)
    <3>1. CASE lines = <<>>
      BY <1>0, <2>3, <3>1
    <3>2. CASE lines # <<>>
      BY <1>2, <2>2, <3>2
    <3> QED
      BY <3>1, <3>2
  <2> QED
    BY <2>1, <2>5, <2>6
<1> QED
  BY <1>3, <1>4

\* What file e still has of file f after appends.
Extends(e, f) ==
  /\ Complete(f) <= Complete(e)
  /\ \A k \in 1..Complete(f) : e[k] = f[k]
  /\ f # <<>> => e # <<>>

\* That is what an append leaves.
LEMMA AppendExtends ==
  ASSUME NEW S, NEW f \in Seq(S), Bad \in S, Torn \in S, NEW lines \in Seq(S)
  PROVE  Extends(Appended(f, lines), f) /\ Extends(AppendedTorn(f), f)
BY AppendKeeps DEF Extends

\* It has all of its records and strings, since no such line is torn.
LEMMA ExtendsLines ==
  ASSUME NEW S, NEW f \in Seq(S), NEW e \in Seq(S), Extends(e, f), NEW X, Torn \notin X
  PROVE  Range(f) \cap X \subseteq Range(e)
<1> SUFFICES ASSUME NEW x \in Range(f) \cap X PROVE x \in Range(e)
  OBVIOUS
<1>1. PICK k \in 1..Len(f) : f[k] = x
  BY LenProperties DEF Range
<1>2. Len(f) \in Nat /\ Complete(e) <= Len(e) /\ Complete(e) \in Nat /\ Complete(f) \in Nat
  BY CompleteLines, LenProperties
<1>3. k <= Complete(f)
  BY <1>1, <1>2 DEF Complete, IsTorn
<1>4. k \in 1..Len(e) /\ e[k] = x
  BY <1>1, <1>2, <1>3, LenProperties DEF Extends
<1> QED
  BY <1>4, LenProperties DEF Range

\* A file extends itself.
LEMMA ExtendsSelf ==
  ASSUME NEW S, NEW f \in Seq(S)
  PROVE  Extends(f, f)
BY CompleteLines DEF Extends

-----------------------------------------------------------------------------
(* The sidecar.                                                            *)

\* A request is in flight from its build_record on.
LEMMA InFlightStep ==
  ASSUME TypeInv, Write, NEW q \in Records, task'[q] \in InFlight
  PROVE  task[q] \in InFlight \/ Arrive(q)
<1> USE DEF InFlight, TaskStates
<1>0. task \in [Records -> TaskStates]
  BY DEF TypeInv, TypeOK, WriterTypeOK
<1>1. ASSUME NEW r \in Records, Arrive(r) PROVE task[q] \in InFlight \/ Arrive(q)
  BY <1>0, <1>1 DEF Arrive, Build, SetTask
<1>2. CASE Kill
  BY <1>0, <1>2 DEF Kill, Restart
<1>3. ASSUME NEW r \in Records, Handle(r) PROVE task[q] \in InFlight
  BY <1>0, <1>3
  DEF Handle, FlushNothing, FlushGrab, FlushWrite, LeaveFlush, Resume, AppendRecord, SetTask
<1>4. ASSUME NEW r \in Records, HandleFails(r) PROVE task[q] \in InFlight
  BY <1>0, <1>4
  DEF HandleFails, FlushFails, FlushRaises, AppendFails, KillInAppend, Restart, LeaveFlush, SetTask
<1> QED
  BY <1>1, <1>2, <1>3, <1>4 DEF Write

\* What is grabbed stays in hand until it is written or given back.
LEMMA HandsStep ==
  ASSUME TypeInv, HandsInv, Write
  PROVE  HandsInv'
<1> SUFFICES ASSUME NEW q \in Records, hands'[q] # {}
             PROVE  task'[q] \in {"flush1", "flush2"}
  BY DEF HandsInv
<1>0. /\ task \in [Records -> TaskStates] /\ hands \in [Records -> SUBSET Strings]
      /\ hands[q] # {} => task[q] \in {"flush1", "flush2"}
  BY DEF TypeInv, TypeOK, WriterTypeOK, HandsInv
<1>1. ASSUME NEW r \in Records, Arrive(r) PROVE task'[q] \in {"flush1", "flush2"}
  BY <1>0, <1>1 DEF Arrive, Build, SetTask
<1>2. CASE Kill
  BY <1>0, <1>2 DEF Kill, Restart
<1>3. ASSUME NEW r \in Records, Handle(r) PROVE task'[q] \in {"flush1", "flush2"}
  BY <1>0, <1>3
  DEF Handle, FlushNothing, FlushGrab, FlushWrite, FlushAt, LeaveFlush, Resume,
      AppendRecord, SetTask, hasher
<1>4. ASSUME NEW r \in Records, HandleFails(r) PROVE task'[q] \in {"flush1", "flush2"}
  BY <1>0, <1>4
  DEF HandleFails, FlushFails, FlushRaises, AppendFails, KillInAppend, Restart, LeaveFlush, SetTask
<1> QED
  BY <1>1, <1>2, <1>3, <1>4 DEF Write

\* The sidecar only extends the files, and only those of a session that has
\* something in flight.
LEMMA WriteFiles ==
  ASSUME TypeInv, HandsInv, Write, NEW s \in Sessions
  PROVE  /\ Extends(msgs'[s], msgs[s]) /\ Extends(strs'[s], strs[s])
         /\ Quiet(s) => msgs'[s] = msgs[s] /\ strs'[s] = strs[s]
<1> USE LogFilesAssumption
<1>0. /\ msgs \in [Sessions -> Seq(MsgLines)] /\ strs \in [Sessions -> Seq(StrLines)]
      /\ hands \in [Records -> SUBSET Strings]
      /\ \A r \in Records : Dir[r] \in Sessions
  BY DEF TypeInv, TypeOK, WriterTypeOK, FilesTypeOK
<1>1. /\ Torn \in MsgLines /\ Bad \in MsgLines /\ Torn \in StrLines /\ Bad \in StrLines
      /\ \A r \in Records : <<r>> \in Seq(MsgLines)
      /\ <<>> \in Seq(MsgLines) /\ <<>> \in Seq(StrLines)
  BY EmptySeq DEF MsgLines, StrLines
<1>2. Extends(msgs[s], msgs[s]) /\ Extends(strs[s], strs[s])
  BY <1>0, ExtendsSelf
<1>3. CASE UNCHANGED files
  BY <1>2, <1>3 DEF files
<1>4. ASSUME NEW r \in Records, FlushWrite(r)
      PROVE  /\ Extends(msgs'[s], msgs[s]) /\ Extends(strs'[s], strs[s])
             /\ Quiet(s) => msgs'[s] = msgs[s] /\ strs'[s] = strs[s]
  <2> DEFINE new == hands[r] \ seen[Hasher(r)]
             lines == SetToSeq(new)
  <2>1. lines \in Seq(StrLines)
    <3>1. new \in SUBSET Strings /\ new \subseteq StrLines
      BY <1>0 DEF StrLines
    <3> HIDE DEF new
    <3>2. lines \in Seq(new)
      BY <3>1, StringsAsSeq
    <3> QED
      BY <3>1, <3>2, SeqMonotonic
  <2> HIDE DEF lines
  <2>2. Extends(Appended(strs[s], lines), strs[s])
    BY <1>0, <1>1, <2>1, AppendExtends
  <2>3. msgs' = msgs /\ strs' = [strs EXCEPT ![Dir[r]] = Appended(@, lines)]
    BY <1>4 DEF FlushWrite, lines
  <2>4. Quiet(s) => s # Dir[r]
    BY <1>4 DEF FlushWrite, Quiet, InFlight, TaskStates
  <2> QED
    BY <1>0, <1>2, <2>2, <2>3, <2>4
<1>5. ASSUME NEW r \in Records, AppendRecord(r)
      PROVE  /\ Extends(msgs'[s], msgs[s]) /\ Extends(strs'[s], strs[s])
             /\ Quiet(s) => msgs'[s] = msgs[s] /\ strs'[s] = strs[s]
  <2>1. Extends(Appended(msgs[s], <<r>>), msgs[s])
    BY <1>0, <1>1, AppendExtends
  <2>2. strs' = strs /\ msgs' = [msgs EXCEPT ![Dir[r]] = Appended(@, <<r>>)]
    BY <1>5 DEF AppendRecord
  <2>3. Quiet(s) => s # Dir[r]
    BY <1>5 DEF AppendRecord, Quiet, InFlight, TaskStates
  <2> QED
    BY <1>0, <1>2, <2>1, <2>2, <2>3
<1>6. ASSUME NEW r \in Records, KillInAppend(r)
      PROVE  /\ Extends(msgs'[s], msgs[s]) /\ Extends(strs'[s], strs[s])
             /\ Quiet(s) => msgs'[s] = msgs[s] /\ strs'[s] = strs[s]
  <2>1. Extends(AppendedTorn(msgs[s]), msgs[s]) /\ Extends(AppendedTorn(strs[s]), strs[s])
    BY <1>0, <1>1, AppendExtends
  <2>2. \/ strs' = strs /\ msgs' = [msgs EXCEPT ![Dir[r]] = AppendedTorn(@)]
        \/ msgs' = msgs /\ strs' = [strs EXCEPT ![Dir[r]] = AppendedTorn(@)]
    BY <1>6 DEF KillInAppend
  <2>3. task[r] \in {"append", "flush1", "flush2"}
    BY <1>6 DEF KillInAppend, HandsInv
  <2>4. Quiet(s) => s # Dir[r]
    BY <2>3 DEF Quiet, InFlight, TaskStates
  <2> QED
    BY <1>0, <1>2, <2>1, <2>2, <2>4
<1> QED
  BY <1>3, <1>4, <1>5, <1>6
  DEF Write, Arrive, Build, Kill, Handle, FlushNothing, FlushGrab, Resume,
      HandleFails, FlushFails, FlushRaises, AppendFails

\* The sidecar keeps the order, and takes nothing out of a file.
LEMMA WriteOrder ==
  ASSUME TypeInv, OrderInv, Write, UNCHANGED index
  PROVE  OrderInv' /\ \A s \in Sessions \ busy : LostUnread(s) = {}
<1> USE LogFilesAssumption DEF OrderInv
<1>0. /\ TypeInv'
      /\ msgs \in [Sessions -> Seq(MsgLines)] /\ msgs' \in [Sessions -> Seq(MsgLines)]
      /\ strs \in [Sessions -> Seq(StrLines)]
      /\ rowM \in [Sessions -> Nat] /\ rowT \in [Sessions -> Nat] /\ pos \in Nat
      /\ ing \notin {"off", "scan"} => icur \in Sessions
      /\ rec \in {"list", "rm"} => rcur \in Sessions
      /\ gone \subseteq Sessions
  BY WriteType DEF TypeInv, TypeOK, FilesTypeOK, IndexTypeOK
<1>1. /\ UNCHANGED <<rowM, rowT, reqs, gone, deleted, scope, rcur, rec>>
      /\ UNCHANGED <<ing, icur, pos, chunk>>
  BY DEF index, tables, ingester, reclaimer
<1>2. busy \subseteq busy'
  BY DEF Write, Arrive, MarkBusy
<1>3. \A s \in Sessions :
        /\ Extends(msgs'[s], msgs[s]) /\ Extends(strs'[s], strs[s])
        /\ s \in gone /\ s \notin busy' => msgs'[s] = msgs[s] /\ strs'[s] = strs[s]
  BY <1>2, WriteFiles DEF GoneInv
<1>4. \A s \in Sessions : /\ MsgsKept(s)' => MsgsKept(s)
                          /\ StrsKept(s)' => StrsKept(s)
  BY <1>1, <1>2, <1>3 DEF MsgsKept, StrsKept
<1>5. \A s \in Sessions : Complete(msgs[s]) \in Nat /\ Complete(msgs'[s]) \in Nat
                          /\ Complete(strs[s]) \in Nat /\ Complete(strs'[s]) \in Nat
  <2>1. strs' \in [Sessions -> Seq(StrLines)]
    BY <1>0 DEF TypeInv, TypeOK, FilesTypeOK
  <2> QED
    BY <1>0, <2>1, CompleteLines
\* A prefix that was the index's is so in the extended file.
<1>6. ASSUME NEW s \in Sessions, NEW n \in Nat, NEW g, n <= Complete(msgs[s]),
             IsRecordsUpTo(g, msgs[s], n)
      PROVE  n <= Complete(msgs'[s]) /\ IsRecordsUpTo(g, msgs'[s], n)
  <2> DEFINE e == msgs'[s]
             f == msgs[s]
  <2>0. /\ Complete(f) \in Nat /\ Complete(e) \in Nat /\ n <= Complete(f)
        /\ Complete(f) <= Complete(e) /\ \A k \in 1..Complete(f) : e[k] = f[k]
    BY <1>3, <1>5, <1>6 DEF Extends
  <2>1. n <= Complete(e) /\ \A k \in 1..n : e[k] = f[k]
    <3> HIDE DEF e, f
    <3> QED
      BY <2>0
  <2> QED
    BY <1>6, <2>1, SamePrefix
<1>7. OffsetInv'
  <2> SUFFICES ASSUME NEW s \in Sessions
               PROVE  /\ MsgsKept(s)' => /\ rowM[s] <= Complete(msgs'[s])
                                         /\ IsRecordsUpTo(reqs[s], msgs'[s], rowM[s])
                      /\ StrsKept(s)' => rowT[s] <= Complete(strs'[s])
    BY <1>1 DEF OffsetInv
  <2>1. MsgsKept(s)' => /\ rowM[s] <= Complete(msgs'[s])
                        /\ IsRecordsUpTo(reqs[s], msgs'[s], rowM[s])
    BY <1>0, <1>4, <1>6 DEF OffsetInv
  <2>2. StrsKept(s)' => rowT[s] <= Complete(strs'[s])
    BY <1>0, <1>3, <1>4, <1>5 DEF OffsetInv, Extends
  <2> QED
    BY <2>1, <2>2
<1>8. ReadingInv'
  <2> SUFFICES ASSUME ing \notin {"off", "scan"}, MsgsKept(icur)'
               PROVE  /\ pos <= Complete(msgs'[icur])
                      /\ IsRecordsUpTo(reqs[icur] \o chunk, msgs'[icur], pos)
    BY <1>1 DEF ReadingInv
  <2>1. /\ icur \in Sessions /\ pos <= Complete(msgs[icur])
        /\ IsRecordsUpTo(reqs[icur] \o chunk, msgs[icur], pos)
    BY <1>0, <1>1, <1>4 DEF ReadingInv
  <2> QED
    BY <1>0, <1>6, <2>1
<1>9. GoneInv'
  <2>1. ASSUME NEW s \in gone, s \notin busy' PROVE Quiet(s)'
    <3> SUFFICES ASSUME NEW r \in Records, Dir[r] = s, task'[r] \in InFlight PROVE FALSE
      BY DEF Quiet
    <3>1. Quiet(s)
      BY <1>2, <2>1 DEF GoneInv
    <3>2. Arrive(r)
      BY <3>1, InFlightStep DEF Quiet
    <3> QED
      BY <2>1, <3>2 DEF Arrive, MarkBusy
  <2> QED
    BY <1>1, <2>1 DEF GoneInv
<1>10. HandsInv'
  BY HandsStep
<1>11. ScopeInv'
  <2>1. ASSUME rec \in {"list", "rm"}, rcur \notin busy'
        PROVE  msgs'[rcur] = msgs[rcur] /\ rcur \notin busy
    BY <1>0, <1>2, <1>3, <2>1 DEF GoneInv
  <2> QED
    BY <1>1, <1>2, <2>1 DEF ScopeInv, RequestsOf
<1>12. ASSUME NEW s \in Sessions PROVE LostUnread(s) = {}
  <2>1. Torn \notin Records
    OBVIOUS
  <2>2. Range(msgs[s]) \cap Records \subseteq Range(msgs'[s])
    BY <1>0, <1>3, <2>1, ExtendsLines
  <2> QED
    BY <2>2 DEF LostUnread
<1> QED
  BY <1>7, <1>8, <1>9, <1>10, <1>11, <1>12

-----------------------------------------------------------------------------
(* The ingest pass.                                                        *)

\* A line read is a line of the index to be.
LEMMA ConcatAppend ==
  ASSUME NEW S, NEW g \in Seq(S), NEW c \in Seq(S), NEW x \in S
  PROVE  g \o Append(c, x) = Append(g \o c, x)
<1>1. /\ Append(c, x) \in Seq(S) /\ Len(Append(c, x)) = Len(c) + 1
      /\ \A i \in 1..Len(c) : Append(c, x)[i] = c[i]
      /\ Append(c, x)[Len(c) + 1] = x
  BY AppendProperties
<1>2. /\ g \o c \in Seq(S) /\ Len(g \o c) = Len(g) + Len(c)
      /\ \A i \in 1..Len(g) + Len(c) :
           (g \o c)[i] = IF i <= Len(g) THEN g[i] ELSE c[i - Len(g)]
  BY ConcatProperties
<1> DEFINE l == g \o Append(c, x)
           r == Append(g \o c, x)
<1>3. Len(g) \in Nat /\ Len(c) \in Nat
  BY LenProperties
<1>4. /\ l \in Seq(S) /\ Len(l) = Len(g) + Len(c) + 1
      /\ \A i \in 1..Len(g) + Len(c) + 1 :
           l[i] = IF i <= Len(g) THEN g[i] ELSE Append(c, x)[i - Len(g)]
  BY <1>1, <1>3, ConcatProperties
<1>5. /\ r \in Seq(S) /\ Len(r) = Len(g) + Len(c) + 1
      /\ \A i \in 1..Len(g) + Len(c) : r[i] = (g \o c)[i]
      /\ r[Len(g) + Len(c) + 1] = x
  BY <1>2, AppendProperties
<1> HIDE DEF l, r
<1>6. ASSUME NEW i \in 1..Len(l) PROVE l[i] = r[i]
  <2>1. CASE i <= Len(g)
    <3>1. i \in 1..Len(g) + Len(c)
      BY <1>3, <1>4, <2>1
    <3> QED
      BY <1>2, <1>3, <1>4, <1>5, <2>1, <3>1
  <2>2. CASE Len(g) < i /\ i <= Len(g) + Len(c)
    BY <1>1, <1>2, <1>3, <1>4, <1>5, <2>2
  <2>3. CASE i = Len(g) + Len(c) + 1
    BY <1>1, <1>3, <1>4, <1>5, <2>3
  <2> QED
    BY <1>3, <1>4, <2>1, <2>2, <2>3
<1>7. l = r
  BY <1>4, <1>5, <1>6, SeqEqual
<1> QED
  BY <1>7 DEF l, r

\* What a commit does to the row of the session it is for.
LEMMA CommitOrder ==
  ASSUME TypeInv, OrderInv, ing \notin {"off", "scan"}, NEW t \in Nat, NEW new,
         StrsKept(icur) => t <= Complete(strs[icur]),
         Commit(pos, t, new), UNCHANGED <<files, busy, gone>>
  PROVE  /\ OffsetInv'
         /\ \A s \in Sessions : rowM[s] <= rowM'[s]
         /\ rowM'[icur] = pos /\ reqs'[icur] = reqs[icur] \o chunk
<1>0. /\ icur \in Sessions /\ pos \in Nat
      /\ rowM \in [Sessions -> Nat] /\ rowT \in [Sessions -> Nat]
      /\ reqs \in [Sessions -> Seq(Records)]
  BY DEF TypeInv, TypeOK, IndexTypeOK
<1>1. /\ rowM' = [rowM EXCEPT ![icur] = pos] /\ rowT' = [rowT EXCEPT ![icur] = t]
      /\ reqs' = [reqs EXCEPT ![icur] = @ \o chunk]
  BY DEF Commit
<1>2. \A s \in Sessions : /\ MsgsKept(s)' <=> MsgsKept(s)
                          /\ StrsKept(s)' <=> StrsKept(s)
                          /\ msgs'[s] = msgs[s] /\ strs'[s] = strs[s]
  BY DEF files, MsgsKept, StrsKept
<1>3. OffsetInv'
  <2> SUFFICES ASSUME NEW s \in Sessions
               PROVE  /\ MsgsKept(s) => /\ rowM'[s] <= Complete(msgs[s])
                                        /\ IsRecordsUpTo(reqs'[s], msgs[s], rowM'[s])
                      /\ StrsKept(s) => rowT'[s] <= Complete(strs[s])
    BY <1>2 DEF OffsetInv
  <2>1. CASE s = icur
    BY <1>0, <1>1, <2>1 DEF OrderInv, ReadingInv
  <2>2. CASE s # icur
    BY <1>0, <1>1, <2>2 DEF OrderInv, OffsetInv
  <2> QED
    BY <2>1, <2>2
<1>4. ASSUME NEW s \in Sessions PROVE rowM[s] <= rowM'[s]
  BY <1>0, <1>1 DEF OrderInv, ReadingInv
<1> QED
  BY <1>0, <1>1, <1>3, <1>4

\* A session that nobody used while it was deleted is not truncated.
LEMMA NotTruncated ==
  ASSUME TypeInv, OffsetInv, NEW s \in Sessions \ busy
  PROVE  ~ Truncated(s)
<1>1. /\ Complete(msgs[s]) \in Nat /\ Complete(msgs[s]) <= Len(msgs[s]) /\ Len(msgs[s]) \in Nat
      /\ Complete(strs[s]) \in Nat /\ Complete(strs[s]) <= Len(strs[s]) /\ Len(strs[s]) \in Nat
      /\ rowM[s] \in Nat /\ rowT[s] \in Nat
  BY CompleteLines, LenProperties DEF TypeInv, TypeOK, FilesTypeOK, IndexTypeOK
<1>2. msgs[s] # <<>> => rowM[s] <= Complete(msgs[s])
  BY DEF OffsetInv, MsgsKept
<1>3. strs[s] # <<>> => rowT[s] <= Complete(strs[s])
  BY DEF OffsetInv, StrsKept
<1> QED
  BY <1>1, <1>2, <1>3 DEF Truncated

\* The pass reads on where the index ends, a line at a time.
LEMMA ReadOrder ==
  ASSUME TypeInv, StoreInv, OrderInv, Read, UNCHANGED writer
  PROVE  OrderInv' /\ UNCHANGED msgs
<1> USE LogFilesAssumption DEF OrderInv
<1>0. /\ msgs \in [Sessions -> Seq(MsgLines)] /\ strs \in [Sessions -> Seq(StrLines)]
      /\ rowM \in [Sessions -> Nat] /\ rowT \in [Sessions -> Nat] /\ pos \in Nat
      /\ reqs \in [Sessions -> Seq(Records)] /\ chunk \in Seq(Records)
      /\ scope \in [Sessions -> Nat]
      /\ ing \notin {"off", "scan"} => icur \in Sessions
      /\ \A s \in Sessions : OnlyLastTorn(msgs[s])
  BY DEF TypeInv, TypeOK, FilesTypeOK, IndexTypeOK
<1>1. UNCHANGED <<msgs, strs, task, hands, busy, rec, scope, rcur, deleted, gone>>
  BY DEF Read, Ingest, IngestStart, OpenSession, ReadLine, CommitChunk, ReadEnd,
         FinishSession, IngestEnd, IngestFails, IngestCrashes, files, reclaimer, writer
<1>2. GoneInv' /\ HandsInv'
  BY <1>1 DEF GoneInv, HandsInv, Quiet
<1>3. ing # "off" => rec \notin {"list", "rm"}
  BY DEF StoreInv, RecLocked, RecStates
<1>4. \A s \in Sessions : /\ MsgsKept(s)' <=> MsgsKept(s)
                          /\ StrsKept(s)' <=> StrsKept(s)
  BY <1>1 DEF MsgsKept, StrsKept
<1>5. ASSUME UNCHANGED tables PROVE OffsetInv' /\ ScopeInv'
  BY <1>1, <1>4, <1>5 DEF tables, OffsetInv, ScopeInv, RequestsOf
<1>6. ASSUME ing # "off", \A s \in Sessions \ busy : rowM[s] <= rowM'[s],
             \A s \in Sessions : rowM'[s] \in Nat
      PROVE  ScopeInv'
  BY <1>0, <1>1, <1>3, <1>6 DEF ScopeInv
<1>7. CASE IngestStart
  BY <1>1, <1>2, <1>5, <1>7 DEF IngestStart, ReadingInv
<1>8. ASSUME NEW s \in Sessions, OpenSession(s) PROVE OrderInv'
  <2>1. /\ ing = "scan" /\ icur' = s /\ pos' = rowM'[s] /\ ing' = "read"
        /\ chunk' = <<>> /\ ForgetRows(IF Truncated(s) THEN {s} ELSE {})
    BY <1>8 DEF OpenSession, ReadingInv
  <2>2. \A z \in Sessions :
          \/ rowM'[z] = rowM[z] /\ rowT'[z] = rowT[z] /\ reqs'[z] = reqs[z]
          \/ /\ rowM'[z] = 0 /\ rowT'[z] = 0 /\ reqs'[z] = <<>>
             /\ z = s /\ Truncated(s)
    BY <2>1 DEF ForgetRows
  <2>3. \A z \in Sessions : Complete(msgs[z]) \in Nat /\ Complete(strs[z]) \in Nat
    BY <1>0, CompleteLines
  <2>4. OffsetInv'
    <3> SUFFICES ASSUME NEW z \in Sessions
                 PROVE  /\ MsgsKept(z) => /\ rowM'[z] <= Complete(msgs[z])
                                          /\ IsRecordsUpTo(reqs'[z], msgs[z], rowM'[z])
                        /\ StrsKept(z) => rowT'[z] <= Complete(strs[z])
      BY <1>1, <1>4 DEF OffsetInv
    <3>1. IsRecordsUpTo(<<>>, msgs[z], 0)
      BY NoRecordsYet
    <3>2. CASE rowM'[z] = rowM[z] /\ rowT'[z] = rowT[z] /\ reqs'[z] = reqs[z]
      BY <3>2 DEF OffsetInv
    <3>3. CASE rowM'[z] = 0 /\ rowT'[z] = 0 /\ reqs'[z] = <<>>
      BY <2>3, <3>1, <3>3
    <3> QED
      BY <2>2, <3>2, <3>3
  <2>5. ReadingInv'
    <3>0. <<>> \in Seq(Records)
      BY EmptySeq
    <3>1. reqs'[s] \in Seq(Records) /\ rowM'[s] \in Nat
      <4>1. \/ rowM'[s] = rowM[s] /\ reqs'[s] = reqs[s]
            \/ rowM'[s] = 0 /\ reqs'[s] = <<>>
        BY <2>2
      <4>2. reqs[s] \in Seq(Records) /\ rowM[s] \in Nat
        BY <1>0
      <4> QED
        <5>1. CASE rowM'[s] = rowM[s] /\ reqs'[s] = reqs[s]
          BY <4>2, <5>1
        <5>2. CASE rowM'[s] = 0 /\ reqs'[s] = <<>>
          BY <3>0, <5>2
        <5> QED
          BY <4>1, <5>1, <5>2
    <3>2. reqs'[s] \o <<>> = reqs'[s]
      BY <3>1, ConcatEmptySeq
    <3> QED
      BY <2>1, <2>4, <3>1, <3>2 DEF ReadingInv, OffsetInv
  <2>6. ScopeInv'
    <3>1. \A z \in Sessions \ busy : rowM'[z] = rowM[z]
      BY <2>2, NotTruncated
    <3>2. \A z \in Sessions : rowM'[z] \in Nat
      <4> TAKE z \in Sessions
      <4>1. rowM[z] \in Nat /\ (rowM'[z] = rowM[z] \/ rowM'[z] = 0)
        BY <1>0, <2>2
      <4> QED
        BY <4>1
    <3> QED
      BY <1>0, <1>6, <2>1, <3>1, <3>2
  <2> QED
    BY <1>2, <2>4, <2>5, <2>6
<1>9. CASE ReadLine
  <2> DEFINE f == msgs[icur]
             line == f[pos + 1]
  <2>1. /\ ing = "read" /\ icur \in Sessions /\ pos < Complete(f)
        /\ UNCHANGED tables /\ icur' = icur /\ pos' = pos + 1
        /\ ing' \in {"read", "full"}
    BY <1>0, <1>9 DEF ReadLine
  <2>2. f \in Seq(MsgLines) /\ OnlyLastTorn(f) /\ Complete(f) \in Nat
    BY <1>0, <2>1, CompleteLines
  <2>3. rowM[icur] <= pos'
    BY <1>0, <2>1 DEF ReadingInv
  <2>4. ASSUME MsgsKept(icur)
        PROVE  pos' <= Complete(f) /\ IsRecordsUpTo(reqs[icur] \o chunk', f, pos')
    <3> DEFINE g == reqs[icur] \o chunk
    <3>1. /\ g \in Seq(Records) /\ reqs[icur] \in Seq(Records)
      BY <1>0, <2>1, ConcatProperties
    <3>2. IsRecordsUpTo(g, f, pos)
      BY <2>1, <2>4 DEF ReadingInv
    <3>3. line \in Records \cup {Bad}
      <4>1. pos + 1 \in 1..Complete(f)
        BY <1>0, <2>1, <2>2
      <4>2. \A k \in 1..Complete(f) : f[k] \in MsgLines \ {Torn}
        BY <2>2, CompleteLines
      <4> QED
        BY <4>1, <4>2 DEF MsgLines
    <3>4. CASE line = Bad
      <4>1. chunk' = chunk
        BY <1>9, <3>4 DEF ReadLine
      <4>2. line \notin Records
        BY <3>4
      <4>3. IsRecordsUpTo(g, f, pos + 1)
        BY <1>0, <3>1, <3>2, <4>2, SkipsLine
      <4> QED
        BY <1>0, <2>1, <2>2, <4>1, <4>3
    <3>5. CASE line # Bad
      <4>1. chunk' = Append(chunk, line) /\ line \in Records
        BY <1>9, <3>3, <3>5 DEF ReadLine
      <4>2. reqs[icur] \o Append(chunk, line) = Append(g, line)
        <5>1. ASSUME NEW c \in Seq(Records), NEW b \in Seq(Records)
              PROVE  \A x \in Records : b \o Append(c, x) = Append(b \o c, x)
          BY ConcatAppend
        <5> QED
          BY <1>0, <3>1, <4>1, <5>1
      <4>3. IsRecordsUpTo(Append(g, line), f, pos + 1)
        BY <1>0, <3>1, <3>2, <4>1, TakesRecord
      <4> QED
        BY <1>0, <2>1, <2>2, <4>1, <4>2, <4>3
    <3> QED
      BY <3>4, <3>5
  <2>5. ReadingInv'
    BY <1>1, <1>4, <2>1, <2>3, <2>4 DEF ReadingInv, tables
  <2> QED
    BY <1>1, <1>2, <1>5, <2>1, <2>5
<1>10. CASE CommitChunk
  <2>1. /\ ing = "full" /\ ing' = "read" /\ chunk' = <<>> /\ icur' = icur /\ pos' = pos
        /\ icur \in Sessions /\ Commit(pos, rowT[icur], {})
    BY <1>0, <1>10 DEF CommitChunk
  <2>2. rowT[icur] \in Nat /\ (StrsKept(icur) => rowT[icur] <= Complete(strs[icur]))
    BY <1>0, <2>1 DEF OffsetInv
  <2>3. /\ OffsetInv' /\ \A s \in Sessions : rowM[s] <= rowM'[s]
        /\ rowM'[icur] = pos /\ reqs'[icur] = reqs[icur] \o chunk
    BY <1>1, <2>1, <2>2, CommitOrder DEF files
  <2>4. reqs'[icur] \in Seq(Records) /\ \A s \in Sessions : rowM'[s] \in Nat
    BY <1>0, <2>1, <2>3, ConcatProperties DEF Commit
  <2>5. reqs'[icur] \o <<>> = reqs'[icur]
    BY <2>4, ConcatEmptySeq
  <2>6. ReadingInv'
    <3>1. rowM'[icur] <= pos
      BY <1>0, <2>3
    <3>2. MsgsKept(icur)' => /\ pos <= Complete(msgs'[icur])
                             /\ IsRecordsUpTo(reqs'[icur], msgs'[icur], pos)
      BY <2>1, <2>3 DEF OffsetInv
    <3> QED
      BY <2>1, <2>5, <3>1, <3>2 DEF ReadingInv
  <2> QED
    BY <1>1, <1>2, <1>6, <2>1, <2>3, <2>4, <2>6
<1>11. CASE ReadEnd
  <2>1. ReadingInv'
    BY <1>1, <1>4, <1>11 DEF ReadEnd, ReadingInv, TypeInv, tables
  <2> QED
    BY <1>1, <1>2, <1>5, <1>11, <2>1 DEF ReadEnd
<1>12. CASE FinishSession
  <2>1. ing = "strings" /\ ing' = "scan" /\ chunk' = <<>> /\ icur \in Sessions
    BY <1>0, <1>12 DEF FinishSession, NextSession
  <2>2. ReadingInv'
    BY <2>1 DEF ReadingInv
  <2>3. CASE UNCHANGED tables
    BY <1>1, <1>2, <1>5, <2>2, <2>3
  <2>4. CASE Commit(pos, StringsEnd, StringsRead)
    <3>1. Complete(strs[icur]) \in Nat
      BY <1>0, <2>1, CompleteLines
    <3>2. StringsEnd \in Nat /\ (StrsKept(icur) => StringsEnd <= Complete(strs[icur]))
      BY <1>0, <2>1, <3>1 DEF StringsEnd, OffsetInv
    <3>3. OffsetInv' /\ \A s \in Sessions : rowM[s] <= rowM'[s]
      BY <1>1, <2>1, <2>4, <3>2, CommitOrder DEF files
    <3>4. \A s \in Sessions : rowM'[s] \in Nat
      BY <1>0, <2>4 DEF Commit
    <3> QED
      BY <1>1, <1>2, <1>6, <2>1, <2>2, <3>3, <3>4
  <2> QED
    BY <1>12, <2>3, <2>4 DEF FinishSession
<1>13. CASE IngestFails
  <2>1. ReadingInv' /\ UNCHANGED tables
    BY <1>13 DEF IngestFails, NextSession, ReadingInv
  <2> QED
    BY <1>1, <1>2, <1>5, <2>1
<1>14. CASE IngestEnd \/ IngestCrashes
  <2>1. ReadingInv' /\ UNCHANGED tables
    BY <1>14 DEF IngestEnd, IngestCrashes, ReadingInv
  <2> QED
    BY <1>1, <1>2, <1>5, <2>1
<1> QED
  BY <1>1, <1>7, <1>8, <1>9, <1>10, <1>11, <1>12, <1>13, <1>14 DEF Read, Ingest

-----------------------------------------------------------------------------
(* Cleanup.                                                                *)

\* What cleanup deletes has been read, unless it is used while it is deleted.
LEMMA CleanOrder ==
  ASSUME TypeInv, StoreInv, OrderInv, Clean, UNCHANGED writer
  PROVE  OrderInv' /\ \A s \in Sessions \ busy : LostUnread(s) = {}
<1> USE DEF OrderInv
<1>0. /\ msgs \in [Sessions -> Seq(MsgLines)] /\ strs \in [Sessions -> Seq(StrLines)]
      /\ rowM \in [Sessions -> Nat] /\ rowT \in [Sessions -> Nat]
      /\ reqs \in [Sessions -> Seq(Records)] /\ scope \in [Sessions -> Nat]
      /\ rec \in {"list", "rm"} => rcur \in Sessions
      /\ rec \in RecStates
  BY DEF TypeInv, TypeOK, FilesTypeOK, IndexTypeOK
<1>1. UNCHANGED <<task, hands, ing, icur, pos, chunk>>
  BY DEF Clean, Check, Reclaim, Survey, ReclaimDeclined, ReclaimStart, CheckSession,
         ListDir, RemoveFile, RemoveDir, RemoveFails, ForgetSessions, SweepRead,
         SweepDelete, ReclaimCrashes, ingester, writer
<1>2. /\ HandsInv'
      /\ \A s \in Sessions : Quiet(s)' <=> Quiet(s)
  BY <1>1 DEF HandsInv, Quiet
<1>3. rec \in RecLocked => ing = "off"
  BY DEF StoreInv
<1>4. ASSUME ing = "off" PROVE ReadingInv'
  BY <1>1, <1>4 DEF ReadingInv
<1> DEFINE Rows == <<rowM, rowT, reqs>>
           SameFiles == UNCHANGED <<msgs, strs>>
           NoneLost == \A s \in Sessions \ busy : LostUnread(s) = {}
<1>5. SameFiles => NoneLost
  BY DEF LostUnread
<1>6. ASSUME SameFiles, UNCHANGED Rows, gone \subseteq gone', busy \subseteq busy'
      PROVE  OffsetInv'
  BY <1>6 DEF OffsetInv, MsgsKept, StrsKept
\* The steps that only move the reclaiming process on.
<1>7. ASSUME SameFiles, UNCHANGED Rows, UNCHANGED <<gone, busy>>,
             ing = "off" \/ rec' = rec \/ rec' \in {"off", "confirm"},
             deleted' \subseteq gone,
             \A s \in Sessions \ busy : scope'[s] <= rowM[s],
             rec' \in {"list", "rm"} => rec \in {"list", "rm"} /\ rcur' = rcur
      PROVE  OrderInv'
  <2>1. OffsetInv'
    BY <1>6, <1>7
  <2>2. ReadingInv'
    BY <1>1, <1>7 DEF ReadingInv, MsgsKept
  <2>3. GoneInv'
    BY <1>2, <1>7 DEF GoneInv, TypeInv, TypeOK, IndexTypeOK
  <2>4. ScopeInv'
    BY <1>7 DEF ScopeInv, RequestsOf
  <2> QED
    BY <1>2, <2>1, <2>2, <2>3, <2>4
<1>8. \A s \in Sessions : rowM[s] \in Nat /\ 0 <= rowM[s]
  BY <1>0
<1>9. /\ deleted \subseteq gone
      /\ \A s \in Sessions \ busy : scope[s] <= rowM[s]
  BY DEF GoneInv, ScopeInv
<1>10. CASE (Survey \/ ReclaimDeclined) /\ UNCHANGED busy
  <2>1. /\ SameFiles /\ UNCHANGED Rows /\ UNCHANGED <<gone, busy>> /\ deleted' = deleted
        /\ rec' \in {"off", "confirm"}
        /\ \A s \in Sessions : scope'[s] = rowM[s] \/ scope'[s] = 0
    BY <1>10 DEF Survey, ReclaimDeclined, files, tables
  <2> QED
    BY <1>5, <1>7, <1>8, <1>9, <2>1
<1>11. CASE ReclaimStart /\ UNCHANGED busy
  <2>1. /\ SameFiles /\ UNCHANGED Rows /\ UNCHANGED <<gone, busy, deleted, scope>>
        /\ rec' = "retain" /\ ing = "off"
    BY <1>11 DEF ReclaimStart, files, tables, LockFree, StoreInv
  <2> QED
    BY <1>5, <1>7, <1>9, <2>1
<1>12. ASSUME NEW s \in Sessions, Check(s) PROVE OrderInv' /\ NoneLost
  <2>1. /\ SameFiles /\ UNCHANGED Rows /\ deleted' = deleted /\ rec = "retain"
        /\ ing = "off" /\ busy \subseteq busy'
        /\ s \in gone' /\ ~ Quiet(s) => s \in busy'
        /\ scope' = [scope EXCEPT ![s] = 0]
    BY <1>3, <1>12
    DEF Check, CheckSession, MarkBusy, files, tables, RecLocked, RecStates
  <2>2. \/ UNCHANGED <<rec, rcur, gone>>
        \/ /\ rec' = "list" /\ rcur' = s /\ gone' = gone \cup {s}
           /\ msgs[s] # <<>> /\ Len(msgs[s]) = scope[s]
    BY <1>12 DEF Check, CheckSession, FullyIndexed
  <2>3. gone \subseteq gone'
    BY <2>2
  <2>4. OffsetInv'
    BY <1>6, <2>1, <2>3
  <2>5. GoneInv'
    <3>1. \A z \in gone' \ busy' : Quiet(z)
      BY <2>1, <2>2 DEF GoneInv
    <3>2. rec' \in {"list", "rm"} => rcur' \in gone'
      BY <2>1, <2>2
    <3>3. gone' \subseteq Sessions
      BY <2>2 DEF TypeInv, TypeOK, IndexTypeOK
    <3> QED
      BY <1>2, <1>9, <2>1, <2>3, <3>1, <3>2, <3>3 DEF GoneInv
  <2>6. \A z \in Sessions \ busy' : scope'[z] <= rowM'[z]
    BY <1>0, <1>8, <1>9, <2>1
  <2>7. ASSUME rec' \in {"list", "rm"}, rcur' \notin busy'
        PROVE  Range(msgs[s]) \cap Records \subseteq RequestsOf(s) /\ rcur' = s
    <3>1. /\ rcur' = s /\ s \notin busy /\ msgs[s] # <<>> /\ Len(msgs[s]) = scope[s]
      BY <2>1, <2>2, <2>7
    <3>2. /\ rowM[s] <= Complete(msgs[s]) /\ IsRecordsUpTo(reqs[s], msgs[s], rowM[s])
          /\ scope[s] <= rowM[s] /\ rowM[s] \in Nat
      BY <1>8, <1>9, <3>1 DEF OffsetInv, MsgsKept
    <3>3. Complete(msgs[s]) \in Nat /\ Complete(msgs[s]) <= Len(msgs[s]) /\ Len(msgs[s]) \in Nat
      BY <1>0, CompleteLines, LenProperties
    <3>4. rowM[s] = Len(msgs[s])
      BY <3>1, <3>2, <3>3
    <3> QED
      BY <1>0, <3>1, <3>2, <3>4, AllRead DEF RequestsOf
  <2>8. ScopeInv'
    BY <2>1, <2>6, <2>7 DEF ScopeInv, RequestsOf
  <2> QED
    BY <1>2, <1>4, <1>5, <2>1, <2>4, <2>5, <2>8
<1>13. CASE (ListDir \/ RemoveDir \/ RemoveFails \/ SweepRead \/ SweepDelete \/ ReclaimCrashes)
            /\ UNCHANGED busy
  <2>1. rec \in RecLocked
    BY <1>13
    DEF ListDir, RemoveDir, RemoveFails, SweepRead, SweepDelete, ReclaimCrashes,
        RecLocked, RecStates
  <2>2. SameFiles /\ UNCHANGED Rows /\ UNCHANGED <<gone, busy>>
    BY <1>13
    DEF ListDir, RemoveDir, RemoveFails, SweepRead, SweepDelete, ReclaimCrashes,
        files, tables
  <2>3. deleted' \subseteq gone
    BY <1>9, <1>13
    DEF ListDir, RemoveDir, RemoveFails, SweepRead, SweepDelete, ReclaimCrashes,
        GoneInv
  <2>4. scope' = scope \/ scope' = [z \in Sessions |-> 0]
    BY <1>13
    DEF ListDir, RemoveDir, RemoveFails, SweepRead, SweepDelete, ReclaimCrashes
  <2>5. \A z \in Sessions \ busy : scope'[z] <= rowM[z]
    BY <1>8, <1>9, <2>4
  <2>6. rec' \in {"list", "rm"} => rec \in {"list", "rm"} /\ rcur' = rcur
    BY <1>13
    DEF ListDir, RemoveDir, RemoveFails, SweepRead, SweepDelete, ReclaimCrashes,
        NextExpired
  <2> QED
    BY <1>3, <1>5, <1>7, <2>1, <2>2, <2>3, <2>5, <2>6
<1>14. ASSUME NEW n \in {"msgs", "strs"}, RemoveFile(n), UNCHANGED busy
       PROVE  OrderInv' /\ NoneLost
  <2>1. /\ rec = "rm" /\ UNCHANGED Rows /\ UNCHANGED <<rec, rcur, scope, deleted, gone>>
        /\ ing = "off" /\ rcur \in gone /\ rcur \in Sessions
    BY <1>0, <1>3, <1>14 DEF RemoveFile, tables, RecLocked, RecStates, GoneInv
  <2>2. \A z \in Sessions :
          /\ msgs'[z] = msgs[z] \/ (msgs'[z] = <<>> /\ z = rcur)
          /\ strs'[z] = strs[z] \/ (strs'[z] = <<>> /\ z = rcur)
    BY <1>0, <1>14 DEF RemoveFile
  <2>3. \A z \in Sessions :
          /\ MsgsKept(z)' => MsgsKept(z) /\ msgs'[z] = msgs[z]
          /\ StrsKept(z)' => StrsKept(z) /\ strs'[z] = strs[z]
    BY <1>14, <2>1, <2>2 DEF MsgsKept, StrsKept
  <2>4. OffsetInv'
    BY <2>1, <2>3 DEF OffsetInv
  <2>5. GoneInv'
    BY <1>2, <1>14, <2>1 DEF GoneInv, TypeInv, TypeOK, IndexTypeOK
  <2>6. Range(<<>>) = {}
    BY EmptyRange
  <2>7. ScopeInv'
    <3>1. rcur \notin busy => Range(msgs'[rcur]) \cap Records \subseteq RequestsOf(rcur)
      BY <2>1, <2>2, <2>6 DEF ScopeInv
    <3> QED
      BY <1>14, <2>1, <3>1 DEF ScopeInv, RequestsOf
  <2>8. NoneLost
    <3> SUFFICES ASSUME NEW z \in Sessions \ busy PROVE LostUnread(z) = {}
      OBVIOUS
    <3>1. CASE msgs'[z] = msgs[z]
      BY <3>1 DEF LostUnread
    <3>2. CASE z = rcur
      BY <2>1, <3>2 DEF LostUnread, ScopeInv
    <3> QED
      BY <2>2, <3>1, <3>2
  <2> QED
    BY <1>2, <1>4, <2>1, <2>4, <2>5, <2>7, <2>8
<1>15. CASE ForgetSessions /\ UNCHANGED busy
  <2>1. /\ SameFiles /\ rec' = "sweep" /\ ing = "off" /\ ForgetRows(deleted)
        /\ deleted' = {} /\ gone' = gone \ deleted /\ scope' = scope
        /\ \A z \in Sessions : scope[z] = 0
    BY <1>3, <1>15 DEF ForgetSessions, files, RecLocked, RecStates
  <2>2. \A z \in Sessions :
          \/ /\ rowM'[z] = rowM[z] /\ rowT'[z] = rowT[z] /\ reqs'[z] = reqs[z]
             /\ z \in gone' <=> z \in gone
          \/ rowM'[z] = 0 /\ rowT'[z] = 0 /\ reqs'[z] = <<>>
    BY <2>1 DEF ForgetRows
  <2>3. OffsetInv'
    <3> SUFFICES ASSUME NEW z \in Sessions
                 PROVE  /\ MsgsKept(z)' => /\ rowM'[z] <= Complete(msgs[z])
                                           /\ IsRecordsUpTo(reqs'[z], msgs[z], rowM'[z])
                        /\ StrsKept(z)' => rowT'[z] <= Complete(strs[z])
      BY <2>1 DEF OffsetInv
    <3>1. IsRecordsUpTo(<<>>, msgs[z], 0)
      BY NoRecordsYet
    <3>2. Complete(msgs[z]) \in Nat /\ Complete(strs[z]) \in Nat
      BY <1>0, CompleteLines
    <3>3. CASE rowM'[z] = 0 /\ rowT'[z] = 0 /\ reqs'[z] = <<>>
      BY <3>1, <3>2, <3>3
    <3>4. CASE /\ rowM'[z] = rowM[z] /\ rowT'[z] = rowT[z] /\ reqs'[z] = reqs[z]
               /\ z \in gone' <=> z \in gone
      BY <1>15, <2>1, <3>4 DEF OffsetInv, MsgsKept, StrsKept
    <3> QED
      BY <2>2, <3>3, <3>4
  <2>4. GoneInv'
    BY <1>2, <1>15, <2>1 DEF GoneInv, TypeInv, TypeOK, IndexTypeOK
  <2>5. ScopeInv'
    <3>1. \A z \in Sessions : rowM'[z] = rowM[z] \/ rowM'[z] = 0
      BY <2>2
    <3>2. \A z \in Sessions : 0 <= rowM'[z]
      BY <1>8, <3>1
    <3> QED
      BY <2>1, <3>2 DEF ScopeInv
  <2> QED
    BY <1>2, <1>4, <1>5, <2>1, <2>3, <2>4, <2>5
<1> QED
  BY <1>10, <1>11, <1>12, <1>13, <1>14, <1>15 DEF Clean, Reclaim

-----------------------------------------------------------------------------
(* The theorems.                                                           *)

\* At the start there is nothing in the files and nothing in the index.
LEMMA InitOrder == Init => OrderInv
<1> SUFFICES ASSUME Init PROVE OrderInv
  OBVIOUS
<1>1. /\ \A s \in Sessions : msgs[s] = <<>> /\ strs[s] = <<>>
      /\ \A s \in Sessions : rowM[s] = 0 /\ rowT[s] = 0 /\ reqs[s] = <<>>
      /\ \A s \in Sessions : scope[s] = 0
      /\ \A r \in Records : hands[r] = {}
      /\ ing = "off" /\ rec = "off" /\ chunk = <<>> /\ deleted = {} /\ gone = {}
  BY DEF Init, FilesInit, WriterInit, IndexInit
<1>2. Complete(<<>>) = 0
  BY EmptySeq DEF Complete, IsTorn
<1>3. OffsetInv
  BY <1>1, <1>2, NoRecordsYet DEF OffsetInv
<1> QED
  BY <1>1, <1>3 DEF OrderInv, ReadingInv, GoneInv, HandsInv, ScopeInv

\* What a step may do to the files of sessions that are not used while they are
\* being deleted.
NoneLost == \A s \in Sessions \ busy : LostUnread(s) = {}

\* Every step keeps the order and deletes nothing unread.
LEMMA OrderStep ==
  ASSUME TypeInv, StoreInv, OrderInv, [Next]_vars
  PROVE  OrderInv' /\ NoneLost
<1>1. CASE Write /\ UNCHANGED index
  BY <1>1, WriteOrder DEF NoneLost
<1>2. CASE Read /\ UNCHANGED writer
  BY <1>2, ReadOrder DEF NoneLost, LostUnread
<1>3. CASE Clean /\ UNCHANGED writer
  BY <1>3, CleanOrder DEF NoneLost
<1>4. CASE UNCHANGED vars
  <2>1. /\ UNCHANGED <<msgs, strs, task, hands, rowM, rowT, reqs, ing, icur, pos, chunk>>
        /\ UNCHANGED <<rec, scope, rcur, deleted, gone, busy>>
    BY <1>4 DEF vars, files, writer, index, tables, ingester, reclaimer
  <2> QED
    BY <2>1
    DEF OrderInv, OffsetInv, ReadingInv, GoneInv, HandsInv, ScopeInv, MsgsKept, StrsKept,
        Quiet, RequestsOf, NoneLost, LostUnread
<1> QED
  BY <1>1, <1>2, <1>3, <1>4 DEF Next

\* OrderInv is inductive, given the types and the lock.
LEMMA OrderInvariant == Spec => []OrderInv
<1>1. TypeInv /\ StoreInv /\ OrderInv /\ [Next]_vars => OrderInv'
  BY OrderStep
<1> QED
  BY <1>1, InitOrder, TypeInvariant, StoreInvariant, PTL DEF Spec

\* The index of a session is what lies before its offset, every record once and
\* in the order of the file: for chunks of any size, any number of sessions,
\* and however appends, torn lines, failures, crashes and half-done deletions
\* interleave with the passes (ingest_chunk: "the offsets make a re-run safe, by
\* never presenting the same lines twice").
THEOREM IndexedInOrderHolds == Spec => []IndexedInOrder
<1>1. OrderInv => IndexedInOrder
  BY DEF OrderInv, OffsetInv, MsgsKept, IndexedInOrder
<1> QED
  BY <1>1, OrderInvariant, PTL

\* Retention deletes no unread request of a session that is not used while it is
\* being deleted, although the sessions were chosen before the user was asked
\* and without the lock (retention_scope, _apply_retention).
THEOREM IdleNotDeletedUnreadHolds == Spec => IdleNotDeletedUnread
<1>1. TypeInv /\ StoreInv /\ OrderInv /\ [Next]_vars
        => [\A s \in Sessions \ busy : LostUnread(s) = {}]_vars
  BY OrderStep DEF NoneLost
<1> QED
  BY <1>1, TypeInvariant, StoreInvariant, OrderInvariant, PTL
  DEF Spec, IdleNotDeletedUnread

-----------------------------------------------------------------------------
(* The strings.                                                            *)

\* A flush puts every one of its strings on a line.
LEMMA EveryString ==
  ASSUME NEW S \in SUBSET Strings
  PROVE  SetToSeq(S) \in Seq(S) /\ Range(SetToSeq(S)) = S
<1> DEFINE n == Cardinality(S)
           f == SetToSeq(S)
<1>1. IsFiniteSet(S)
  BY FS_Subset, LogFilesAssumption
<1>2. n \in Nat /\ ExistsBijection(1..n, S)
  BY <1>1, FS_CardinalityType
<1>3. PICK g \in [1..n -> S] : IsInjective(g)
  BY <1>2 DEF ExistsBijection, Bijection, Injection, IsInjective
<1>4. f \in [1..n -> S] /\ IsInjective(f)
  BY <1>3 DEF SetToSeq
<1> HIDE DEF f
<1>5. f \in Injection(1..n, S)
  BY <1>4 DEF Injection, IsInjective
<1>6. Cardinality(1..n) = n
  BY <1>2, FS_Interval
<1>7. f \in Surjection(1..n, S)
  BY <1>1, <1>5, <1>6, FS_Injection
<1>8. \A x \in S : \E k \in 1..n : f[k] = x
  BY <1>7 DEF Surjection
<1>9. Range(f) = S
  BY <1>4, <1>8 DEF Range
<1> QED
  BY <1>2, <1>4, <1>9 DEF f

\* An append to a file that is not torn adds its lines and nothing else.
LEMMA AppendedRange ==
  ASSUME NEW S, NEW f \in Seq(S), NEW lines \in Seq(S), ~ IsTorn(f)
  PROVE  /\ Range(Appended(f, lines)) = Range(f) \cup Range(lines)
         /\ Torn \notin Range(lines) => ~ IsTorn(Appended(f, lines))
<1> DEFINE e == Appended(f, lines)
<1>1. e = f \o lines
  BY DEF Appended
<1>2. Range(e) = Range(f) \cup Range(lines)
  BY <1>1, RangeConcatenation
<1>3. ASSUME Torn \notin Range(lines) PROVE ~ IsTorn(e)
  <2>1. CASE lines = <<>>
    BY <1>1, <2>1, ConcatEmptySeq
  <2>2. CASE lines # <<>>
    <3>1. Len(lines) \in Nat \ {0} /\ Len(f) \in Nat /\ Len(e) = Len(f) + Len(lines)
      BY <1>1, <2>2, EmptySeq, LenProperties, ConcatProperties
    <3>2. e[Len(e)] = lines[Len(lines)]
      <4>1. Len(e) \in 1..Len(f) + Len(lines) /\ ~ (Len(e) <= Len(f))
            /\ Len(e) - Len(f) = Len(lines)
        BY <3>1
      <4>2. \A i \in 1..Len(f) + Len(lines) :
              e[i] = IF i <= Len(f) THEN f[i] ELSE lines[i - Len(f)]
        BY <1>1, ConcatProperties
      <4> QED
        BY <4>1, <4>2
    <3>3. lines[Len(lines)] \in Range(lines)
      BY <3>1, LenProperties DEF Range
    <3> QED
      BY <1>3, <3>2, <3>3 DEF IsTorn
  <2> QED
    BY <2>1, <2>2
<1> QED
  BY <1>2, <1>3

\* What an append puts into a file, whatever it was like.
LEMMA AppendedWithin ==
  ASSUME NEW S, NEW f \in Seq(S), NEW x
  PROVE  Range(Appended(f, <<x>>)) \subseteq Range(f) \cup {x, Bad, Torn}
<1> DEFINE T == Range(f) \cup {x, Bad, Torn}
<1>1. /\ Len(f) \in Nat /\ f \in [1..Len(f) -> T]
  BY LenProperties DEF Range
<1>2. f \in Seq(T) /\ <<x>> \in Seq(T) /\ Bad \in T /\ Torn \in T
  BY <1>1
<1> HIDE DEF T
<1>3. Appended(f, <<x>>) \in Seq(T)
  BY <1>2, AppendedType
<1>4. Range(Appended(f, <<x>>)) \subseteq T
  BY <1>3, LenProperties DEF Range
<1> QED
  BY <1>4 DEF T

\* The sidecar loses no string as long as what it writes is stored and it lives.
LEMMA WriteStrings ==
  ASSUME TypeInv, HandsInv, StringInv, Events \cap {"full", "kill", "torn", "reclaim"} = {},
         Write, UNCHANGED index
  PROVE  StringInv'
<1> USE LogFilesAssumption, LogWriterAssumption DEF StringInv, TaskStates, Hasher
<1>0. /\ msgs \in [Sessions -> Seq(MsgLines)] /\ strs \in [Sessions -> Seq(StrLines)]
      /\ msgs' \in [Sessions -> Seq(MsgLines)] /\ strs' \in [Sessions -> Seq(StrLines)]
      /\ known \in [Ids -> SUBSET Strings] /\ pending \in [Ids -> SUBSET Strings]
      /\ seen \in [Ids -> SUBSET Strings] /\ hands \in [Records -> SUBSET Strings]
      /\ task \in [Records -> TaskStates] /\ dropped \in [Ids -> SUBSET Strings]
      /\ \A r \in Records : Dir[r] \in Sessions /\ Hasher(r) \in Ids /\ Uses(r) \subseteq Strings
  BY WriteType DEF TypeInv, TypeOK, WriterTypeOK, FilesTypeOK, Uses
<1>1. Written \cap Strings \subseteq Written'
  <2>1. \A s \in Sessions : Range(strs[s]) \cap Strings \subseteq Range(strs'[s])
    BY <1>0, WriteFiles, ExtendsLines
  <2> QED
    BY <2>1 DEF Written
<1>2. rec' = "off"
  BY DEF index, reclaimer
<1>3. ASSUME NEW e, Mishap(e) PROVE e \in {"ioerror", "nodir", "crash", "late"}
  BY <1>3 DEF Mishap, EventKinds
<1>4. \A h \in Ids : known[h] \subseteq Strings /\ seen[h] \subseteq Strings
  BY <1>0
\* The steps that leave the files alone.
<1>5. ASSUME UNCHANGED <<files, dropped>>,
             \A h \in Ids : known'[h] \subseteq known[h] \cup Buffered(h)',
             \A h \in Ids : Buffered(h) \subseteq Buffered(h)',
             \A h \in Ids : seen'[h] \subseteq seen[h] \cup Written,
             \A r \in Records :
               /\ task'[r] \notin {"new", "lost"} => Uses(r) \subseteq known'[Hasher(r)]
               /\ task[r] = "done" => task'[r] = "done"
      PROVE  StringInv'
  <2>1. Written' = Written /\ msgs' = msgs /\ strs' = strs
    BY <1>5 DEF files, Written
  <2> QED
    BY <1>2, <1>5, <2>1
<1>6. ASSUME NEW r \in Records, Arrive(r) PROVE StringInv'
  <2> DEFINE h == Hasher(r)
  <2>1. /\ UNCHANGED <<files, dropped>> /\ hands' = hands /\ task[r] = "new"
        /\ task' = [task EXCEPT ![r] = "built"]
        /\ known' = [known EXCEPT ![h] = @ \cup Uses(r)]
        /\ pending' = [pending EXCEPT ![h] = @ \cup (Uses(r) \ known[h])]
        /\ seen' = [seen EXCEPT ![h] =
             IF loaded[h] THEN @ ELSE Range(strs[Dir[r]]) \cap Strings]
    BY <1>6 DEF Arrive, Build, SetTask, files
  <2>2. h \in Ids /\ Dir[r] \in Sessions
    BY <1>0
  <2>3. \A i \in Ids : Buffered(i) \subseteq Buffered(i)'
    BY <1>0, <2>1, <2>2 DEF Buffered
  <2>4. \A i \in Ids : known'[i] \subseteq known[i] \cup Buffered(i)'
    BY <1>0, <2>1, <2>2 DEF Buffered
  <2>5. \A i \in Ids : seen'[i] \subseteq seen[i] \cup Written
    BY <1>0, <2>1, <2>2 DEF Written
  <2>6. ASSUME NEW q \in Records
        PROVE  /\ task'[q] \notin {"new", "lost"} => Uses(q) \subseteq known'[Hasher(q)]
               /\ task[q] = "done" => task'[q] = "done"
    BY <1>0, <2>1, <2>2
  <2> QED
    BY <1>5, <2>1, <2>3, <2>4, <2>5, <2>6
<1>7. ASSUME NEW r \in Records, FlushNothing(r) \/ Resume(r) \/ AppendFails(r) PROVE StringInv'
  <2>1. /\ UNCHANGED <<files, dropped>> /\ UNCHANGED <<hands, known, pending, seen>>
        /\ task[r] \notin {"new", "lost", "done"}
        /\ \E t : task' = [task EXCEPT ![r] = t]
    BY <1>7 DEF FlushNothing, Resume, AppendFails, LeaveFlush, SetTask, files, hasher
  <2>2. \A i \in Ids : Buffered(i) = Buffered(i)'
    BY <2>1 DEF Buffered
  <2>3. ASSUME NEW q \in Records
        PROVE  /\ task'[q] \notin {"new", "lost"} => Uses(q) \subseteq known'[Hasher(q)]
               /\ task[q] = "done" => task'[q] = "done"
    BY <1>0, <2>1
  <2> QED
    BY <1>5, <2>1, <2>2, <2>3
\* What is grabbed is in hand, and what is not stored is put back.
<1>8. ASSUME NEW r \in Records, FlushGrab(r) PROVE StringInv'
  <2>1. /\ UNCHANGED <<files, dropped, known, seen>> /\ task[r] \in {"built", "await"}
        /\ \E t : task' = [task EXCEPT ![r] = t]
        /\ hands' = [hands EXCEPT ![r] = pending[Hasher(r)]]
        /\ pending' = [pending EXCEPT ![Hasher(r)] = {}]
    BY <1>8 DEF FlushGrab, SetTask, files
  <2>2. hands[r] = {}
    BY <2>1 DEF HandsInv
  <2>3. ASSUME NEW i \in Ids, NEW x \in Buffered(i) PROVE x \in Buffered(i)'
    BY <1>0, <2>1, <2>2, <2>3 DEF Buffered
  <2>4. ASSUME NEW q \in Records
        PROVE  /\ task'[q] \notin {"new", "lost"} => Uses(q) \subseteq known'[Hasher(q)]
               /\ task[q] = "done" => task'[q] = "done"
    BY <1>0, <2>1
  <2> QED
    BY <1>5, <2>1, <2>3, <2>4
<1>9. ASSUME NEW r \in Records, FlushFails(r) PROVE StringInv'
  <2>1. /\ UNCHANGED <<files, dropped, known, seen>> /\ task[r] \in {"flush1", "flush2"}
        /\ \E t : task' = [task EXCEPT ![r] = t]
        /\ hands' = [hands EXCEPT ![r] = {}]
        /\ pending' = [pending EXCEPT ![Hasher(r)] = @ \cup hands[r]]
    BY <1>3, <1>9 DEF FlushFails, LeaveFlush, SetTask, files, Restored
  <2>2. ASSUME NEW i \in Ids, NEW x \in Buffered(i) PROVE x \in Buffered(i)'
    BY <1>0, <2>1, <2>2 DEF Buffered
  <2>3. ASSUME NEW q \in Records
        PROVE  /\ task'[q] \notin {"new", "lost"} => Uses(q) \subseteq known'[Hasher(q)]
               /\ task[q] = "done" => task'[q] = "done"
    BY <1>0, <2>1
  <2> QED
    BY <1>5, <2>1, <2>2, <2>3
\* What goes with an error is on the list of what was dropped.
<1>13. ASSUME NEW r \in Records, FlushRaises(r) PROVE StringInv'
  <2>1. /\ UNCHANGED <<files, known, seen, pending>> /\ task[r] \in {"flush1", "flush2"}
        /\ task' = [task EXCEPT ![r] = "lost"]
        /\ hands' = [hands EXCEPT ![r] = {}]
        /\ dropped' = [dropped EXCEPT ![Hasher(r)] = @ \cup hands[r]]
    BY <1>13 DEF FlushRaises, SetTask, files
  <2>2. Written' = Written /\ msgs' = msgs /\ strs' = strs
    BY <2>1 DEF files, Written
  <2>3. ASSUME NEW i \in Ids, NEW x \in Buffered(i) PROVE x \in Buffered(i)' \cup dropped'[i]
    BY <1>0, <2>1, <2>3 DEF Buffered
  <2>4. \A i \in Ids : dropped[i] \subseteq dropped'[i]
    BY <1>0, <2>1
  <2>5. ASSUME NEW i \in Ids PROVE known'[i] \subseteq Written' \cup Buffered(i)' \cup dropped'[i]
    BY <2>1, <2>2, <2>3, <2>4
  <2>6. ASSUME NEW q \in Records
        PROVE  /\ task'[q] \notin {"new", "lost"} => Uses(q) \subseteq known'[Hasher(q)]
               /\ task[q] = "done" => task'[q] = "done"
    BY <1>0, <2>1
  <2> QED
    BY <1>2, <2>1, <2>2, <2>5, <2>6
<1>10. ASSUME NEW r \in Records, FlushWrite(r) PROVE StringInv'
  <2> DEFINE new == hands[r] \ seen[Hasher(r)]
             f == strs[Dir[r]]
             e == Appended(f, SetToSeq(new))
  <2>1. /\ msgs' = msgs /\ UNCHANGED <<known, pending, dropped>> /\ task[r] \in {"flush1", "flush2"}
        /\ \E t : task' = [task EXCEPT ![r] = t]
        /\ hands' = [hands EXCEPT ![r] = {}]
        /\ seen' = [seen EXCEPT ![Hasher(r)] = @ \cup hands[r]]
        /\ strs' = [strs EXCEPT ![Dir[r]] = e]
    BY <1>10 DEF FlushWrite, LeaveFlush, SetTask
  <2>2. new \in SUBSET Strings /\ f \in Seq(StrLines) /\ Dir[r] \in Sessions
    BY <1>0
  <2>3. SetToSeq(new) \in Seq(new) /\ Range(SetToSeq(new)) = new
    BY <2>2, EveryString
  <2>4. SetToSeq(new) \in Seq(StrLines) /\ Torn \notin new
    <3> HIDE DEF new
    <3>1. new \subseteq StrLines /\ Torn \notin new
      BY <2>2 DEF StrLines
    <3> QED
      BY <2>3, <3>1, SeqMonotonic
  <2>5. Range(e) = Range(f) \cup new /\ ~ IsTorn(e)
    <3> DEFINE l == SetToSeq(new)
    <3>1. ~ IsTorn(f) /\ l \in Seq(StrLines) /\ f \in Seq(StrLines)
      BY <2>2, <2>4
    <3>2. Range(l) = new
      BY <2>3
    <3> HIDE DEF l, f, new
    <3>3. /\ Range(Appended(f, l)) = Range(f) \cup Range(l)
          /\ Torn \notin Range(l) => ~ IsTorn(Appended(f, l))
      BY <3>1, AppendedRange
    <3> QED
      BY <2>4, <3>2, <3>3 DEF l
  <2> HIDE DEF e, new
  <2>6. strs'[Dir[r]] = e
    BY <1>0, <2>1, <2>2
  <2>7. hands[r] \subseteq Written'
    <3>1. new \subseteq Written'
      BY <2>2, <2>5, <2>6 DEF Written
    <3>2. seen[Hasher(r)] \subseteq Written'
      BY <1>0, <1>1, <1>4
    <3> QED
      BY <3>1, <3>2 DEF new
  <2>8. \A s \in Sessions : ~ IsTorn(strs'[s])
    <3> TAKE s \in Sessions
    <3>1. strs'[s] = e \/ strs'[s] = strs[s]
      BY <1>0, <2>1
    <3> QED
      BY <2>5, <3>1
  <2>9. ASSUME NEW h \in Ids PROVE known'[h] \subseteq Written' \cup Buffered(h)' \cup dropped'[h]
    <3>1. ASSUME NEW x \in Buffered(h) PROVE x \in Written' \cup Buffered(h)'
      BY <1>0, <2>1, <2>7, <3>1 DEF Buffered
    <3> QED
      BY <1>1, <1>4, <2>1, <3>1
  <2>10. ASSUME NEW h \in Ids PROVE seen'[h] \subseteq Written'
    BY <1>0, <1>1, <1>4, <2>1, <2>7
  <2>11. ASSUME NEW q \in Records
         PROVE  /\ task'[q] \notin {"new", "lost"} => Uses(q) \subseteq known'[Hasher(q)]
                /\ task[q] = "done" => task'[q] = "done"
    BY <1>0, <2>1
  <2> QED
    BY <1>2, <2>1, <2>8, <2>9, <2>10, <2>11
<1>11. ASSUME NEW r \in Records, AppendRecord(r) PROVE StringInv'
  <2> DEFINE e == Appended(msgs[Dir[r]], <<r>>)
  <2>1. /\ strs' = strs /\ UNCHANGED <<known, pending, seen, hands, dropped>>
        /\ task[r] = "append"
        /\ task' = [task EXCEPT ![r] = "done"]
        /\ msgs' = [msgs EXCEPT ![Dir[r]] = e]
    BY <1>11 DEF AppendRecord, SetTask, hasher
  <2>2. Range(e) \subseteq Range(msgs[Dir[r]]) \cup {r, Bad, Torn}
    BY <1>0, AppendedWithin
  <2> HIDE DEF e
  <2>3. /\ Written' = Written
        /\ \A h \in Ids : Buffered(h)' = Buffered(h)
    BY <2>1 DEF Written, Buffered
  <2>4. ASSUME NEW s \in Sessions, NEW q \in Range(msgs'[s]) \cap Records
        PROVE  task'[q] = "done" /\ Dir[q] = s
    <3>1. \/ q \in Range(msgs[s]) \cap Records
          \/ q = r /\ s = Dir[r]
      <4>1. CASE s = Dir[r]
        BY <1>0, <2>1, <2>2, <2>4, <4>1
      <4>2. CASE s # Dir[r]
        BY <1>0, <2>1, <2>4, <4>2
      <4> QED
        BY <4>1, <4>2
    <3> QED
      BY <1>0, <2>1, <2>4, <3>1
  <2>5. ASSUME NEW q \in Records, task'[q] \notin {"new", "lost"}
        PROVE  Uses(q) \subseteq known'[Hasher(q)]
    BY <1>0, <2>1, <2>5
  <2> QED
    BY <1>2, <2>1, <2>3, <2>4, <2>5
<1>12. ~ Kill /\ \A r \in Records : ~ KillInAppend(r)
  BY <1>3 DEF Kill, KillInAppend
<1> QED
  BY <1>6, <1>7, <1>8, <1>9, <1>10, <1>11, <1>12, <1>13 DEF Write, Handle, HandleFails

\* Nor does any other step.
LEMMA StringStep ==
  ASSUME TypeInv, HandsInv, StringInv, Events \cap {"full", "kill", "torn", "reclaim"} = {},
         [Next]_vars
  PROVE  StringInv'
<1>1. CASE Write /\ UNCHANGED index
  BY <1>1, WriteStrings
<1>2. CASE Read /\ UNCHANGED writer
  <2>1. UNCHANGED <<msgs, strs, task, hands, known, pending, seen, dropped, rec>>
    BY <1>2
    DEF Read, Ingest, IngestStart, OpenSession, ReadLine, CommitChunk, ReadEnd,
        FinishSession, IngestEnd, IngestFails, IngestCrashes, files, reclaimer, writer
  <2> QED
    BY <2>1 DEF StringInv, Written, Buffered
<1>3. CASE Clean /\ UNCHANGED writer
  <2>1. rec = "off" /\ "reclaim" \notin Events
    BY DEF StringInv
  <2> QED
    BY <1>3, <2>1
    DEF Clean, Check, Reclaim, Survey, ReclaimDeclined, ReclaimStart, CheckSession,
        ListDir, RemoveFile, RemoveDir, RemoveFails, ForgetSessions, SweepRead,
        SweepDelete, ReclaimCrashes, RecLocked, RecStates
<1>4. CASE UNCHANGED vars
  <2>1. UNCHANGED <<msgs, strs, task, hands, known, pending, seen, dropped, rec>>
    BY <1>4 DEF vars, files, writer, index, reclaimer
  <2> QED
    BY <2>1 DEF StringInv, Written, Buffered
<1> QED
  BY <1>1, <1>2, <1>3, <1>4 DEF Next

\* StringInv is inductive, given the types and what flushes hold.
LEMMA StringInvariant ==
  ASSUME Events \cap {"full", "kill", "torn", "reclaim"} = {}
  PROVE  Spec => []StringInv
<1>1. Init => StringInv
  <2> SUFFICES ASSUME Init PROVE StringInv
    OBVIOUS
  <2>1. /\ rec = "off" /\ \A s \in Sessions : msgs[s] = <<>> /\ strs[s] = <<>>
        /\ \A h \in Ids : known[h] = {} /\ seen[h] = {}
        /\ \A r \in Records : task[r] = "new"
    BY DEF Init, FilesInit, WriterInit, IndexInit
  <2> QED
    BY <2>1, EmptyRange DEF StringInv, IsTorn
<1>2. TypeInv /\ OrderInv /\ StringInv /\ [Next]_vars => StringInv'
  BY StringStep DEF OrderInv
<1> QED
  BY <1>1, <1>2, TypeInvariant, OrderInvariant, PTL DEF Spec

\* What a record on disk points to is on disk or still held by the sidecar,
\* which is going to write it, however the flushes and appends of any number of
\* concurrent requests interleave, share hashers and fail to open their files
\* (string_hasher.py: "Restored, not dropped: the next flush retries them"),
\* unless it was in a flush whose mkdir failed for another reason than
\* permissions.  A full disk, a killed sidecar and a torn line do lose strings,
\* and cleanup deletes some.
THEOREM NoStringLostHolds ==
  ASSUME Events \cap {"full", "kill", "torn", "reclaim"} = {}
  PROVE  Spec => []NoStringLost
<1>1. StringInv => NoStringLost
  BY LogFilesAssumption, LogWriterAssumption DEF StringInv, NoStringLost, Hasher
<1> QED
  BY <1>1, StringInvariant, PTL
-----------------------------------------------------------------------------
(* The refinement of RequestIndex: what the records of a file are.         *)

\* There are finitely many of them up to a line, and more up to a later record.
LEMMA LinesFinite ==
  ASSUME NEW f, NEW n \in Nat
  PROVE  IsFiniteSet(RecordLines(f, n)) /\ Cardinality(RecordLines(f, n)) \in Nat
<1>1. RecordLines(f, n) \in SUBSET (1..n) /\ IsFiniteSet(1..n)
  BY FS_Interval DEF RecordLines
<1> QED
  BY <1>1, FS_Subset, FS_CardinalityType

LEMMA LinesGrow ==
  ASSUME NEW f, NEW m \in Nat, NEW n \in Nat, m < n, f[n] \in Records
  PROVE  Cardinality(RecordLines(f, m)) < Cardinality(RecordLines(f, n))
<1>1. RecordLines(f, m) \in SUBSET (RecordLines(f, n) \ {n}) /\ n \in RecordLines(f, n)
  BY DEF RecordLines
<1>2. /\ IsFiniteSet(RecordLines(f, n) \ {n})
      /\ Cardinality(RecordLines(f, n) \ {n}) = Cardinality(RecordLines(f, n)) - 1
  BY <1>1, LinesFinite, FS_RemoveElement
<1>3. Cardinality(RecordLines(f, m)) <= Cardinality(RecordLines(f, n) \ {n})
  BY <1>1, <1>2, FS_Subset
<1> QED
  BY <1>2, <1>3, LinesFinite

\* In an enumeration that goes up, the i-th record line is the one with i record
\* lines up to it.
LEMMA LineCount ==
  ASSUME NEW f, NEW n \in Nat, NEW l \in Nat, NEW at \in [1..l -> RecordLines(f, n)],
         \A i, j \in 1..l : i < j => at[i] < at[j],
         \A k \in RecordLines(f, n) : \E i \in 1..l : at[i] = k,
         NEW i \in 1..l
  PROVE  Cardinality(RecordLines(f, at[i])) = i
<1> DEFINE T == RecordLines(f, at[i])
           b == [j \in 1..i |-> at[j]]
<1>1. at[i] \in Nat /\ at[i] <= n /\ \A j \in 1..l : at[j] \in Nat /\ at[j] \in RecordLines(f, n)
  BY DEF RecordLines
<1>2. \A j \in 1..i : j \in 1..l /\ at[j] <= at[i]
  BY <1>1
<1>3. \A k \in RecordLines(f, n) : k <= at[i] <=> k \in T
  BY <1>1 DEF RecordLines
<1>4. T \subseteq RecordLines(f, n)
  BY <1>1 DEF RecordLines
<1> HIDE DEF T
<1>5. b \in [1..i -> T]
  BY <1>1, <1>2, <1>3
<1>6. \A j, k \in 1..i : b[j] = b[k] => j = k
  <2> SUFFICES ASSUME NEW j \in 1..i, NEW k \in 1..i, j # k PROVE at[j] # at[k]
    OBVIOUS
  <2> QED
    BY <1>1, <1>2
<1>7. \A k \in T : \E j \in 1..i : b[j] = k
  <2> SUFFICES ASSUME NEW k \in T PROVE \E j \in 1..i : at[j] = k
    OBVIOUS
  <2>1. PICK j \in 1..l : at[j] = k
    BY <1>4
  <2>2. at[j] <= at[i]
    BY <1>3, <1>4, <2>1
  <2>3. j <= i
    BY <1>1, <2>2
  <2> QED
    BY <2>1, <2>3
<1>8. b \in Bijection(1..i, T)
  BY <1>5, <1>6, <1>7 DEF Bijection, Injection, Surjection, IsInjective
<1>9. IsFiniteSet(1..i) /\ Cardinality(1..i) = i
  BY FS_Interval
<1>10. Cardinality(T) = i
  BY <1>8, <1>9, FS_Bijection DEF ExistsBijection
<1> QED
  BY <1>10 DEF T

\* So there is one sequence of the records up to a line, the beginning of RecordsOf.
LEMMA RecordsUpTo ==
  ASSUME NEW f \in Seq(MsgLines), NEW n \in 0..Len(f), NEW g \in Seq(Records),
         IsRecordsUpTo(g, f, n)
  PROVE  /\ Len(g) = Cardinality(RecordLines(f, n))
         /\ Len(g) <= Cardinality(RecordLines(f, Len(f)))
         /\ \A i \in 1..Len(g) : RecordsOf(f)[i] = g[i]
<1> DEFINE L == RecordLines(f, Len(f))
<1>0. Len(f) \in Nat /\ Len(g) \in Nat /\ n \in Nat
  BY LenProperties
<1>1. PICK at \in [1..Len(g) -> RecordLines(f, n)] :
        /\ \A i, j \in 1..Len(g) : i < j => at[i] < at[j]
        /\ \A k \in RecordLines(f, n) : \E i \in 1..Len(g) : at[i] = k
        /\ \A i \in 1..Len(g) : g[i] = f[at[i]]
  BY DEF IsRecordsUpTo
<1>2. \A i \in 1..Len(g) : Cardinality(RecordLines(f, at[i])) = i
  <2> DEFINE l == Len(g)
  <2>1. /\ l \in Nat /\ at \in [1..l -> RecordLines(f, n)]
        /\ \A i, j \in 1..l : i < j => at[i] < at[j]
        /\ \A k \in RecordLines(f, n) : \E i \in 1..l : at[i] = k
    BY <1>0, <1>1
  <2> HIDE DEF l
  <2>2. \A i \in 1..l : Cardinality(RecordLines(f, at[i])) = i
    BY <1>0, <2>1, LineCount
  <2> QED
    BY <2>2 DEF l
<1>3. Len(g) = Cardinality(RecordLines(f, n))
  <2>1. at \in Bijection(1..Len(g), RecordLines(f, n))
    <3>1. \A i, j \in 1..Len(g) : at[i] = at[j] => i = j
      BY <1>2
    <3> QED
      BY <1>1, <3>1 DEF Bijection, Injection, Surjection, IsInjective
  <2>2. \A m \in Nat : IsFiniteSet(1..m) /\ Cardinality(1..m) = m
    BY FS_Interval
  <2> QED
    BY <1>0, <2>1, <2>2, FS_Bijection DEF ExistsBijection
<1>4. Len(g) <= Cardinality(L)
  <2>1. RecordLines(f, n) \in SUBSET L
    BY <1>0 DEF RecordLines
  <2> QED
    BY <1>0, <1>3, <2>1, LinesFinite, FS_Subset
<1>5. ASSUME NEW i \in 1..Len(g) PROVE RecordsOf(f)[i] = g[i]
  <2>1. at[i] \in L
    BY <1>0 DEF RecordLines
  <2>2. ASSUME NEW k \in L, Cardinality(RecordLines(f, k)) = i PROVE k = at[i]
    <3>1. k \in Nat /\ at[i] \in Nat /\ f[k] \in Records /\ f[at[i]] \in Records
      BY <1>0, <2>1 DEF RecordLines
    <3>2. Cardinality(RecordLines(f, k)) = Cardinality(RecordLines(f, at[i]))
      BY <1>2, <2>2
    <3>3. ~ (k < at[i]) /\ ~ (at[i] < k)
      BY <3>1, <3>2, LinesFinite, LinesGrow
    <3> QED
      BY <3>1, <3>3
  <2>3. (CHOOSE k \in L : Cardinality(RecordLines(f, k)) = i) = at[i]
    BY <1>2, <2>1, <2>2
  <2>4. i \in 1..Cardinality(L)
    <3>1. Cardinality(L) \in Nat
      BY <1>0, LinesFinite
    <3> HIDE DEF L
    <3> QED
      BY <1>0, <1>4, <3>1
  <2> QED
    BY <1>1, <2>3, <2>4 DEF RecordsOf
<1> QED
  BY <1>3, <1>4, <1>5

\* At the end of the file it is all of it.
LEMMA RecordsWhole ==
  ASSUME NEW f \in Seq(MsgLines), NEW g \in Seq(Records), IsRecordsUpTo(g, f, Len(f))
  PROVE  RecordsOf(f) = g
<1>0. Len(f) \in Nat /\ Len(f) \in 0..Len(f) /\ Len(g) \in Nat
  BY LenProperties
<1>1. /\ Len(g) = Cardinality(RecordLines(f, Len(f)))
      /\ \A i \in 1..Len(g) : RecordsOf(f)[i] = g[i]
  BY <1>0, RecordsUpTo
<1>2. DOMAIN RecordsOf(f) = 1..Len(g)
  BY <1>1 DEF RecordsOf
<1>3. RecordsOf(f) = [i \in 1..Len(g) |-> RecordsOf(f)[i]]
  BY <1>1 DEF RecordsOf
<1>4. g = [i \in 1..Len(g) |-> g[i]]
  BY LenProperties
<1> QED
  BY <1>1, <1>3, <1>4

\* An empty file has none.
LEMMA NoneInEmpty == RecordsOf(<<>>) = <<>>
<1>1. <<>> \in Seq(MsgLines) /\ <<>> \in Seq(Records) /\ Len(<<>>) = 0
  BY EmptySeq
<1> QED
  BY <1>1, NoRecordsYet, RecordsWhole

\* A sequence that another one begins with is a prefix of it.
LEMMA Begins ==
  ASSUME NEW S, NEW g \in Seq(S), NEW h \in Seq(S), Len(g) <= Len(h),
         \A i \in 1..Len(g) : h[i] = g[i]
  PROVE  IsPrefix(g, h)
<1>0. Len(g) \in Nat /\ Len(h) \in Nat
  BY LenProperties
<1> DEFINE a == SubSeq(g, 1, Len(g))
           b == SubSeq(h, 1, Len(g))
<1>1. \A i \in 1..Len(g) : g[i] \in S /\ h[i] \in S
  BY <1>0, ElementOfSeq
<1>2. /\ a \in Seq(S) /\ Len(a) = Len(g) /\ \A i \in 1..Len(g) : a[i] = g[i]
      /\ b \in Seq(S) /\ Len(b) = Len(g) /\ \A i \in 1..Len(g) : b[i] = h[i]
  <2>1. a \in Seq(S) /\ b \in Seq(S)
    BY <1>0, <1>1, SubSeqProperties
  <2>2. Len(a) = Len(g) /\ Len(b) = Len(g)
    BY <1>0, <1>1, SubSeqProperties
  <2>3. \A i \in 1..Len(g) : a[i] = g[i] /\ b[i] = h[i]
    BY <1>0, <1>1, SubSeqProperties
  <2> QED
    BY <2>1, <2>2, <2>3
<1> HIDE DEF a, b
<1>3. a = b
  BY <1>2, SeqEqual
<1> QED
  BY <1>3 DEF a, b, IsPrefix

\* Only the record lines matter.
LEMMA SameRecords ==
  ASSUME NEW g, NEW e, NEW f, NEW n \in Nat, IsRecordsUpTo(g, e, n),
         RecordLines(f, n) = RecordLines(e, n), \A k \in RecordLines(e, n) : f[k] = e[k]
  PROVE  IsRecordsUpTo(g, f, n)
BY DEF IsRecordsUpTo

\* An append adds the record, or nothing when a torn line swallows it.
LEMMA RecordAppended ==
  ASSUME NEW f \in Seq(MsgLines), NEW g \in Seq(Records), IsRecordsUpTo(g, f, Len(f)),
         NEW r \in Records
  PROVE  LET e == Appended(f, <<r>>)
         IN /\ e \in Seq(MsgLines)
            /\ IsRecordsUpTo(g, e, Len(e)) \/ IsRecordsUpTo(Append(g, r), e, Len(e))
<1> USE LogFilesAssumption
<1>0. Len(f) \in Nat /\ r \in MsgLines /\ Bad \in MsgLines /\ Bad \notin Records
  BY LenProperties DEF MsgLines
<1>1. <<r>> # <<>> /\ <<r>> \in Seq(MsgLines) /\ Tail(<<r>>) = <<>>
  BY <1>0
<1>2. CASE IsTorn(f)
  <2> DEFINE e == [f EXCEPT ![Len(f)] = Bad]
  <2>1. Len(f) \in 1..Len(f) /\ f[Len(f)] \notin Records
    BY <1>2, EmptySeq DEF IsTorn
  <2>2. /\ e \in Seq(MsgLines) /\ Len(e) = Len(f) /\ e[Len(f)] = Bad
        /\ \A k \in 1..Len(f) : k # Len(f) => e[k] = f[k]
    BY <1>0, <2>1, ExceptSeq
  <2> HIDE DEF e
  <2>3. Appended(f, <<r>>) = e
    <3>1. Appended(f, <<r>>) = e \o <<>>
      BY <1>1, <1>2 DEF Appended, e
    <3> QED
      BY <2>2, <3>1, ConcatEmptySeq
  <2>4. RecordLines(e, Len(f)) = RecordLines(f, Len(f))
    BY <1>0, <2>1, <2>2 DEF RecordLines
  <2>5. \A k \in RecordLines(f, Len(f)) : e[k] = f[k]
    BY <2>1, <2>2 DEF RecordLines
  <2>6. IsRecordsUpTo(g, e, Len(e))
    <3>1. IsRecordsUpTo(g, e, Len(f))
      BY <1>0, <2>4, <2>5, SameRecords
    <3> QED
      BY <2>2, <3>1
  <2> QED
    BY <2>2, <2>3, <2>6
<1>3. CASE ~ IsTorn(f)
  <2> DEFINE e == Append(f, r)
  <2>1. Appended(f, <<r>>) = e
    BY <1>0, <1>3, AppendIsConcat DEF Appended
  <2>2. /\ e \in Seq(MsgLines) /\ Len(e) = Len(f) + 1 /\ e[Len(f) + 1] = r
        /\ \A k \in 1..Len(f) : e[k] = f[k]
    BY <1>0, AppendProperties
  <2> HIDE DEF e
  <2>3. IsRecordsUpTo(g, e, Len(f))
    BY <1>0, <2>2, SamePrefix
  <2>4. IsRecordsUpTo(Append(g, e[Len(f) + 1]), e, Len(f) + 1)
    BY <1>0, <2>2, <2>3, TakesRecord
  <2> QED
    BY <2>1, <2>2, <2>4
<1> QED
  BY <1>2, <1>3

LEMMA TornAppended ==
  ASSUME NEW f \in Seq(MsgLines), NEW g \in Seq(Records), IsRecordsUpTo(g, f, Len(f))
  PROVE  LET e == AppendedTorn(f)
         IN e \in Seq(MsgLines) /\ IsRecordsUpTo(g, e, Len(e))
<1> USE LogFilesAssumption
<1>0. Len(f) \in Nat /\ Torn \in MsgLines /\ Torn \notin Records
  BY LenProperties DEF MsgLines
<1>1. CASE IsTorn(f)
  BY <1>1 DEF AppendedTorn
<1>2. CASE ~ IsTorn(f)
  <2> DEFINE e == Append(f, Torn)
  <2>1. AppendedTorn(f) = e
    BY <1>2 DEF AppendedTorn
  <2>2. /\ e \in Seq(MsgLines) /\ Len(e) = Len(f) + 1 /\ e[Len(f) + 1] = Torn
        /\ \A k \in 1..Len(f) : e[k] = f[k]
    BY <1>0, AppendProperties
  <2> HIDE DEF e
  <2>3. IsRecordsUpTo(g, e, Len(f))
    BY <1>0, <2>2, SamePrefix
  <2>4. IsRecordsUpTo(g, e, Len(f) + 1)
    BY <1>0, <2>2, <2>3, SkipsLine
  <2> QED
    BY <2>1, <2>2, <2>4
<1> QED
  BY <1>1, <1>2

-----------------------------------------------------------------------------
(* The refinement of RequestIndex: the steps.                              *)

\* The records of a file are records, and all it has.
WholeInv ==
  \A s \in Sessions :
    /\ RecordsOf(msgs[s]) \in Seq(Records)
    /\ IsRecordsUpTo(RecordsOf(msgs[s]), msgs[s], Len(msgs[s]))

\* A pass is at a session that has a file; what is being deleted was read to its end,
\* and what is deleted has no file, unless they are used meanwhile.
LeavingInv ==
  /\ ing # "off" => \A s \in todo : msgs[s] # <<>>
  /\ ing \notin {"off", "scan"} => icur \in todo
  /\ rec \in {"list", "rm"} /\ rcur \notin busy /\ msgs[rcur] # <<>> =>
       rowM[rcur] = Len(msgs[rcur])
  /\ \A s \in deleted \ busy : msgs[s] = <<>>

FollowInv == WholeInv /\ LeavingInv

\* What a step of RequestIndex does to one session.
SessionStep(s) ==
  \/ Abstract!Logged(s) \/ Abstract!Taken(s) \/ Abstract!Deleted(s)
  \/ Abstract!Forgotten(s) \/ Abstract!Still(s)

LEMMA FollowInit == Init => FollowInv /\ Abstract!IdxInit
<1> SUFFICES ASSUME Init PROVE FollowInv /\ Abstract!IdxInit
  OBVIOUS
<1>1. /\ msgs = [s \in Sessions |-> <<>>] /\ reqs = [s \in Sessions |-> <<>>] /\ busy = {}
      /\ ing = "off" /\ rec = "off" /\ deleted = {}
  BY DEF Init, FilesInit, WriterInit, IndexInit
<1>2. <<>> \in Seq(Records) /\ Len(<<>>) = 0 /\ RecordsOf(<<>>) = <<>>
  BY EmptySeq, NoneInEmpty
<1>3. WholeInv
  BY <1>1, <1>2, NoRecordsYet DEF WholeInv
<1>4. LeavingInv
  BY <1>1 DEF LeavingInv
<1>5. Log = [s \in Sessions |-> <<>>]
  BY <1>1, <1>2 DEF Log
<1> QED
  BY <1>1, <1>3, <1>4, <1>5 DEF FollowInv, Abstract!IdxInit

\* The file of a session after a step that leaves it alone or empties it.
LEMMA WholeSame ==
  ASSUME WholeInv, \A s \in Sessions : msgs'[s] = msgs[s] \/ msgs'[s] = <<>>
  PROVE  WholeInv'
<1> SUFFICES ASSUME NEW s \in Sessions
             PROVE  /\ RecordsOf(msgs'[s]) \in Seq(Records)
                    /\ IsRecordsUpTo(RecordsOf(msgs'[s]), msgs'[s], Len(msgs'[s]))
  BY DEF WholeInv
<1>1. CASE msgs'[s] = msgs[s]
  BY <1>1 DEF WholeInv
<1>2. CASE msgs'[s] = <<>>
  <2>1. <<>> \in Seq(Records) /\ Len(<<>>) = 0 /\ RecordsOf(<<>>) = <<>>
    BY EmptySeq, NoneInEmpty
  <2> QED
    BY <1>2, <2>1, NoRecordsYet
<1> QED
  BY <1>1, <1>2

\* The sidecar's step appends to one file at most.
LEMMA WriteMsgs ==
  ASSUME TypeInv, Write, NEW s \in Sessions
  PROVE  \/ msgs'[s] = msgs[s] \/ msgs'[s] = AppendedTorn(msgs[s])
         \/ \E r \in Records : msgs'[s] = Appended(msgs[s], <<r>>)
<1>0. msgs \in [Sessions -> Seq(MsgLines)]
  BY DEF TypeInv, TypeOK, FilesTypeOK
<1>1. CASE msgs' = msgs
  BY <1>1
<1>2. ASSUME NEW r \in Records, msgs' = [msgs EXCEPT ![Dir[r]] = Appended(@, <<r>>)]
      PROVE  msgs'[s] = msgs[s] \/ msgs'[s] = Appended(msgs[s], <<r>>)
  BY <1>0, <1>2
<1>3. ASSUME NEW r \in Records, msgs' = [msgs EXCEPT ![Dir[r]] = AppendedTorn(@)]
      PROVE  msgs'[s] = msgs[s] \/ msgs'[s] = AppendedTorn(msgs[s])
  BY <1>0, <1>3
<1> QED
  BY <1>1, <1>2, <1>3
  DEF Write, Arrive, Build, Kill, Handle, FlushNothing, FlushGrab, FlushWrite, Resume,
      AppendRecord, HandleFails, FlushFails, FlushRaises, AppendFails, KillInAppend, files

LEMMA WriteFollow ==
  ASSUME TypeInv, StoreInv, OrderInv, FollowInv, Write, UNCHANGED index
  PROVE  FollowInv' /\ busy \subseteq busy' /\ \A s \in Sessions \ busy' : SessionStep(s)
<1>0. /\ msgs \in [Sessions -> Seq(MsgLines)] /\ gone \subseteq Sessions
      /\ rec \in {"list", "rm"} => rcur \in Sessions
      /\ todo \subseteq Sessions
  BY DEF TypeInv, TypeOK, FilesTypeOK, IndexTypeOK
<1>1. /\ UNCHANGED <<rowM, reqs, gone, deleted, rcur, rec, ing, icur, todo>>
      /\ busy \subseteq busy'
  BY DEF index, tables, ingester, reclaimer, Write, Arrive, MarkBusy
<1>2. ASSUME NEW s \in Sessions
      PROVE  /\ RecordsOf(msgs'[s]) \in Seq(Records)
             /\ IsRecordsUpTo(RecordsOf(msgs'[s]), msgs'[s], Len(msgs'[s]))
             /\ \/ RecordsOf(msgs'[s]) = RecordsOf(msgs[s])
                \/ \E r \in Records : RecordsOf(msgs'[s]) = Append(RecordsOf(msgs[s]), r)
  <2> DEFINE f == msgs[s]
             e == msgs'[s]
             g == RecordsOf(f)
  <2>1. f \in Seq(MsgLines) /\ g \in Seq(Records) /\ IsRecordsUpTo(g, f, Len(f))
    BY <1>0 DEF FollowInv, WholeInv
  <2>2. \A r \in Records : Append(g, r) \in Seq(Records)
    BY <2>1, AppendProperties
  <2>3. \/ e = f \/ e = AppendedTorn(f)
        \/ \E r \in Records : e = Appended(f, <<r>>)
    BY WriteMsgs
  <2> HIDE DEF f, e, g
  <2>4. /\ e \in Seq(MsgLines)
        /\ \E h \in Seq(Records) :
             /\ h = g \/ \E r \in Records : h = Append(g, r)
             /\ IsRecordsUpTo(h, e, Len(e))
    <3>1. CASE e = f
      BY <2>1, <3>1
    <3>2. CASE e = AppendedTorn(f)
      BY <2>1, <3>2, TornAppended
    <3>3. ASSUME NEW r \in Records, e = Appended(f, <<r>>)
          PROVE  /\ e \in Seq(MsgLines)
                 /\ IsRecordsUpTo(g, e, Len(e)) \/ IsRecordsUpTo(Append(g, r), e, Len(e))
      BY <2>1, <3>3, RecordAppended
    <3> QED
      BY <2>1, <2>2, <2>3, <3>1, <3>2, <3>3
  <2>5. PICK h \in Seq(Records) : /\ h = g \/ \E r \in Records : h = Append(g, r)
                                  /\ IsRecordsUpTo(h, e, Len(e))
    BY <2>4
  <2>6. RecordsOf(e) = h
    BY <2>4, <2>5, RecordsWhole
  <2> QED
    BY <2>5, <2>6 DEF f, e, g
<1>3. WholeInv'
  BY <1>2 DEF WholeInv
<1>4. \A s \in Sessions :
        /\ msgs[s] # <<>> => msgs'[s] # <<>>
        /\ s \in gone /\ s \notin busy' => msgs'[s] = msgs[s]
  BY <1>1, WriteFiles DEF Extends, OrderInv, GoneInv
<1>5. LeavingInv'
  <2>1. rec \in {"list", "rm"} => rcur \in gone
    BY DEF OrderInv, GoneInv
  <2>2. deleted \subseteq gone
    BY DEF OrderInv, GoneInv
  <2> QED
    BY <1>0, <1>1, <1>4, <2>1, <2>2 DEF FollowInv, LeavingInv
<1>6. ASSUME NEW s \in Sessions PROVE SessionStep(s)
  <2>1. /\ Log[s] = RecordsOf(msgs[s]) /\ Log'[s] = RecordsOf(msgs'[s]) /\ reqs'[s] = reqs[s]
    BY <1>1 DEF Log
  <2>2. CASE RecordsOf(msgs'[s]) = RecordsOf(msgs[s])
    BY <2>1, <2>2 DEF SessionStep, Abstract!Still
  <2>3. CASE \E r \in Records : RecordsOf(msgs'[s]) = Append(RecordsOf(msgs[s]), r)
    BY <2>1, <2>3 DEF SessionStep, Abstract!Logged
  <2> QED
    BY <1>2, <2>2, <2>3
<1> QED
  BY <1>1, <1>3, <1>5, <1>6 DEF FollowInv

\* A pass takes more of the file of the session it is at.
LEMMA CommitTakes ==
  ASSUME TypeInv, OrderInv, FollowInv, ing \notin {"off", "scan"}, NEW s \in Sessions \ busy,
         UNCHANGED msgs, reqs' = [reqs EXCEPT ![icur] = @ \o chunk]
  PROVE  SessionStep(s)
<1>0. /\ msgs \in [Sessions -> Seq(MsgLines)] /\ icur \in Sessions /\ pos \in Nat
      /\ reqs \in [Sessions -> Seq(Records)] /\ chunk \in Seq(Records)
  BY DEF TypeInv, TypeOK, FilesTypeOK, IndexTypeOK
<1>1. Log[s] = RecordsOf(msgs[s]) /\ Log'[s] = RecordsOf(msgs[s])
  BY DEF Log
<1>2. CASE s # icur
  BY <1>0, <1>1, <1>2 DEF SessionStep, Abstract!Still
<1>3. CASE s = icur
  <2> DEFINE f == msgs[s]
             g == reqs[s]
             h == g \o chunk
  <2>1. MsgsKept(s)
    BY <1>3 DEF MsgsKept, FollowInv, LeavingInv
  <2>2. /\ f \in Seq(MsgLines) /\ g \in Seq(Records) /\ h \in Seq(Records)
        /\ reqs'[s] = h /\ Len(f) \in Nat /\ RecordsOf(f) \in Seq(Records)
        /\ RecordsOf(f) \in Seq(Records) /\ IsRecordsUpTo(RecordsOf(f), f, Len(f))
    BY <1>0, <1>3, ConcatProperties, LenProperties DEF FollowInv, WholeInv
  <2>3. Complete(f) \in Nat /\ Complete(f) <= Len(f)
    BY <2>2, CompleteLines
  <2>4. pos \in 0..Len(f) /\ IsRecordsUpTo(h, f, pos)
    BY <1>0, <1>3, <2>1, <2>2, <2>3 DEF OrderInv, ReadingInv
  <2>5. /\ Len(g) \in Nat /\ Len(chunk) \in Nat /\ Len(h) = Len(g) + Len(chunk)
        /\ \A i \in 1..Len(g) : h[i] = g[i]
    BY <1>0, <2>2, ConcatProperties, LenProperties
  <2> HIDE DEF f, g, h
  <2>6. IsPrefix(g, h)
    BY <2>2, <2>5, Begins
  <2>7. /\ Len(h) <= Cardinality(RecordLines(f, Len(f)))
        /\ \A i \in 1..Len(h) : RecordsOf(f)[i] = h[i]
    BY <2>2, <2>4, RecordsUpTo
  <2>8. Len(RecordsOf(f)) = Cardinality(RecordLines(f, Len(f)))
    <3>1. Len(f) \in 0..Len(f)
      BY <2>2
    <3> QED
      BY <2>2, <3>1, RecordsUpTo
  <2>9. IsPrefix(h, RecordsOf(f))
    BY <2>2, <2>7, <2>8, Begins
  <2> QED
    BY <1>1, <2>2, <2>6, <2>9 DEF f, g, h, SessionStep, Abstract!Taken, IsPrefix, Abstract!IsPrefix
<1> QED
  BY <1>2, <1>3

LEMMA ReadFollow ==
  ASSUME TypeInv, StoreInv, OrderInv, FollowInv, Read, UNCHANGED writer
  PROVE  FollowInv' /\ busy \subseteq busy' /\ \A s \in Sessions \ busy' : SessionStep(s)
<1>1. UNCHANGED <<msgs, strs, busy, rec, rcur, deleted>>
  BY DEF Read, Ingest, IngestStart, OpenSession, ReadLine, CommitChunk, ReadEnd,
         FinishSession, IngestEnd, IngestFails, IngestCrashes, files, reclaimer
<1>2. ing # "off" => rec \notin {"list", "rm"}
  BY DEF StoreInv, RecLocked, RecStates
<1>3. ing # "off" \/ UNCHANGED tables
  BY DEF Read, Ingest, IngestStart, OpenSession, ReadLine, CommitChunk, ReadEnd,
         FinishSession, IngestEnd, IngestFails, IngestCrashes
<1>4. WholeInv'
  BY <1>1, WholeSame DEF FollowInv
<1>5. /\ ing' # "off" => \A s \in todo' : msgs[s] # <<>>
      /\ ing' \notin {"off", "scan"} => icur' \in todo'
  <2>1. CASE IngestStart
    BY <2>1 DEF IngestStart, Discovered
  <2>2. CASE \E s \in Sessions : OpenSession(s)
    BY <2>2 DEF OpenSession, FollowInv, LeavingInv
  <2>3. CASE ReadLine \/ CommitChunk \/ ReadEnd
    BY <2>3 DEF ReadLine, CommitChunk, ReadEnd, FollowInv, LeavingInv
  <2>4. CASE FinishSession \/ IngestFails
    BY <2>4 DEF FinishSession, IngestFails, NextSession, FollowInv, LeavingInv
  <2>5. CASE IngestEnd \/ IngestCrashes
    BY <2>5 DEF IngestEnd, IngestCrashes
  <2> QED
    BY <2>1, <2>2, <2>3, <2>4, <2>5 DEF Read, Ingest
<1>6. LeavingInv'
  <2>1. rec \in {"list", "rm"} => rowM' = rowM
    BY <1>2, <1>3 DEF tables
  <2> QED
    BY <1>1, <1>5, <2>1 DEF FollowInv, LeavingInv
<1>7. ASSUME NEW s \in Sessions \ busy' PROVE SessionStep(s)
  <2>0. s \in Sessions \ busy
    BY <1>1
  <2>1. ASSUME reqs'[s] = reqs[s] PROVE SessionStep(s)
    BY <1>1, <2>1 DEF Log, SessionStep, Abstract!Still
  <2>2. ASSUME NEW z \in Sessions, OpenSession(z) PROVE SessionStep(s)
    <3>1. ForgetRows(IF Truncated(z) THEN {z} ELSE {})
      BY <2>2 DEF OpenSession
    <3>2. s \notin (IF Truncated(z) THEN {z} ELSE {})
      BY <2>0, NotTruncated DEF OrderInv
    <3> QED
      BY <2>0, <2>1, <3>1, <3>2 DEF ForgetRows
  <2>3. CASE CommitChunk
    BY <1>1, <2>0, <2>3, CommitTakes DEF CommitChunk, Commit
  <2>4. CASE FinishSession
    <3>1. ing = "strings" /\ (UNCHANGED tables \/ Commit(pos, StringsEnd, StringsRead))
      BY <2>4 DEF FinishSession
    <3> QED
      BY <1>1, <2>0, <2>1, <3>1, CommitTakes DEF Commit, tables
  <2>5. CASE IngestStart \/ ReadLine \/ ReadEnd \/ IngestEnd \/ IngestFails \/ IngestCrashes
    BY <2>1, <2>5
    DEF IngestStart, ReadLine, ReadEnd, IngestEnd, IngestFails, IngestCrashes, tables
  <2> QED
    BY <2>2, <2>3, <2>4, <2>5 DEF Read, Ingest
<1> QED
  BY <1>1, <1>4, <1>6, <1>7 DEF FollowInv

LEMMA CleanFollow ==
  ASSUME TypeInv, StoreInv, OrderInv, FollowInv, Clean, UNCHANGED writer
  PROVE  FollowInv' /\ busy \subseteq busy' /\ \A s \in Sessions \ busy' : SessionStep(s)
<1>0. /\ msgs \in [Sessions -> Seq(MsgLines)] /\ reqs \in [Sessions -> Seq(Records)]
      /\ rowM \in [Sessions -> Nat] /\ deleted \subseteq Sessions
      /\ rec \in {"list", "rm"} => rcur \in Sessions
  BY DEF TypeInv, TypeOK, FilesTypeOK, IndexTypeOK
<1>1. UNCHANGED <<ing, icur, todo>> /\ busy \subseteq busy'
  BY DEF Clean, Check, MarkBusy, Reclaim, Survey, ReclaimDeclined, ReclaimStart,
         CheckSession, ListDir, RemoveFile, RemoveDir, RemoveFails, ForgetSessions,
         SweepRead, SweepDelete, ReclaimCrashes, ingester
<1>2. rec \in RecLocked => ing = "off"
  BY DEF StoreInv
\* The steps that leave files and rows alone.
<1>3. ASSUME UNCHANGED <<msgs, rowM, reqs>>,
             rec' \in {"list", "rm"} =>
               \/ rec \in {"list", "rm"} /\ rcur' = rcur
               \/ rcur' \in busy' \/ rowM[rcur'] = Len(msgs[rcur']),
             \A s \in deleted' \ busy' : s \in deleted \/ msgs[s] = <<>>
      PROVE  FollowInv' /\ \A s \in Sessions \ busy' : SessionStep(s)
  <2>1. WholeInv'
    BY <1>3, WholeSame DEF FollowInv
  <2>2. LeavingInv'
    BY <1>1, <1>3 DEF FollowInv, LeavingInv
  <2>3. \A s \in Sessions : SessionStep(s)
    BY <1>3 DEF Log, SessionStep, Abstract!Still
  <2> QED
    BY <2>1, <2>2, <2>3 DEF FollowInv
<1>4. CASE (Survey \/ ReclaimDeclined \/ ReclaimStart) /\ UNCHANGED busy
  <2>1. UNCHANGED <<msgs, rowM, reqs, deleted>> /\ rec' \notin {"list", "rm"}
    BY <1>4 DEF Survey, ReclaimDeclined, ReclaimStart, files, tables
  <2> QED
    BY <1>1, <1>3, <2>1
<1>5. ASSUME NEW s \in Sessions, Check(s)
      PROVE  FollowInv' /\ \A z \in Sessions \ busy' : SessionStep(z)
  <2>1. /\ UNCHANGED <<msgs, rowM, reqs, deleted>> /\ rec = "retain"
        /\ \/ UNCHANGED <<rec, rcur>>
           \/ rec' = "list" /\ rcur' = s /\ msgs[s] # <<>> /\ Len(msgs[s]) = scope[s]
    BY <1>5 DEF Check, CheckSession, FullyIndexed, files, tables
  <2>2. ASSUME rec' = "list", rcur' = s, msgs[s] # <<>>, Len(msgs[s]) = scope[s], s \notin busy'
        PROVE  rowM[s] = Len(msgs[s])
    <3>1. s \notin busy
      BY <1>1, <2>2
    <3>2. rowM[s] <= Complete(msgs[s]) /\ scope[s] <= rowM[s]
      BY <2>2, <3>1 DEF OrderInv, OffsetInv, MsgsKept, ScopeInv
    <3>3. Complete(msgs[s]) \in Nat /\ Complete(msgs[s]) <= Len(msgs[s]) /\ Len(msgs[s]) \in Nat
      BY <1>0, CompleteLines, LenProperties
    <3> QED
      BY <1>0, <2>2, <3>2, <3>3
  <2> QED
    BY <1>1, <1>3, <2>1, <2>2
<1>6. CASE (ListDir \/ RemoveDir \/ RemoveFails \/ SweepRead \/ SweepDelete \/ ReclaimCrashes)
           /\ UNCHANGED busy
  <2>1. /\ UNCHANGED <<msgs, rowM, reqs, busy>>
        /\ rec' \in {"list", "rm"} => rec \in {"list", "rm"} /\ rcur' = rcur
        /\ \A s \in deleted' : s \in deleted \/ msgs[s] = <<>>
    BY <1>6
    DEF ListDir, RemoveDir, RemoveFails, SweepRead, SweepDelete, ReclaimCrashes, NextExpired,
        Present, files, tables
  <2> QED
    BY <1>1, <1>3, <2>1
<1>7. ASSUME NEW n \in {"msgs", "strs"}, RemoveFile(n), UNCHANGED busy
      PROVE  FollowInv' /\ \A s \in Sessions \ busy' : SessionStep(s)
  <2>1. /\ rec = "rm" /\ UNCHANGED <<rowM, reqs, rec, rcur, deleted, busy>> /\ ing = "off"
        /\ rcur \in Sessions
    BY <1>0, <1>2, <1>7 DEF RemoveFile, tables, RecLocked, RecStates
  <2>2. \A s \in Sessions : msgs'[s] = msgs[s] \/ (msgs'[s] = <<>> /\ s = rcur)
    BY <1>0, <1>7 DEF RemoveFile
  <2>3. WholeInv'
    BY <2>2, WholeSame DEF FollowInv
  <2>4. LeavingInv'
    BY <1>0, <1>1, <2>1, <2>2 DEF FollowInv, LeavingInv
  <2>5. ASSUME NEW s \in Sessions \ busy PROVE SessionStep(s)
    <3>1. Log[s] = RecordsOf(msgs[s]) /\ Log'[s] = RecordsOf(msgs'[s]) /\ reqs'[s] = reqs[s]
      BY <2>1 DEF Log
    <3>2. CASE msgs'[s] = msgs[s]
      BY <3>1, <3>2 DEF SessionStep, Abstract!Still
    <3>3. CASE msgs'[s] = <<>> /\ s = rcur /\ msgs[s] # <<>>
      <4>1. rowM[s] = Len(msgs[s])
        BY <2>1, <3>3 DEF FollowInv, LeavingInv
      <4>2. IsRecordsUpTo(reqs[s], msgs[s], rowM[s])
        BY <3>3 DEF OrderInv, OffsetInv, MsgsKept
      <4>3. IsRecordsUpTo(reqs[s], msgs[s], Len(msgs[s]))
        BY <4>1, <4>2
      <4>4. msgs[s] \in Seq(MsgLines) /\ reqs[s] \in Seq(Records)
        BY <1>0
      <4>5. RecordsOf(msgs[s]) = reqs[s]
        BY <4>3, <4>4, RecordsWhole
      <4> QED
        BY <3>1, <3>3, <4>5, NoneInEmpty DEF SessionStep, Abstract!Deleted
    <3> QED
      BY <2>2, <3>2, <3>3
  <2> QED
    BY <2>1, <2>3, <2>4, <2>5 DEF FollowInv
<1>8. CASE ForgetSessions /\ UNCHANGED busy
  <2>1. /\ UNCHANGED <<msgs, busy>> /\ rec' = "sweep" /\ deleted' = {} /\ ForgetRows(deleted)
    BY <1>8 DEF ForgetSessions, files
  <2>2. FollowInv'
    <3>1. WholeInv'
      BY <2>1, WholeSame DEF FollowInv
    <3> QED
      BY <1>1, <2>1, <3>1 DEF FollowInv, LeavingInv
  <2>3. ASSUME NEW s \in Sessions \ busy PROVE SessionStep(s)
    <3>1. Log[s] = RecordsOf(msgs[s]) /\ Log'[s] = RecordsOf(msgs[s])
      BY <2>1 DEF Log
    <3>2. CASE s \notin deleted
      <4>1. reqs'[s] = reqs[s]
        BY <2>1, <3>2 DEF ForgetRows
      <4> QED
        BY <3>1, <4>1 DEF SessionStep, Abstract!Still
    <3>3. CASE s \in deleted
      <4>1. reqs'[s] = <<>> /\ msgs[s] = <<>>
        BY <2>1, <3>3 DEF ForgetRows, FollowInv, LeavingInv
      <4> QED
        BY <3>1, <4>1, NoneInEmpty DEF SessionStep, Abstract!Forgotten
    <3> QED
      BY <3>2, <3>3
  <2> QED
    BY <2>1, <2>2, <2>3
<1> QED
  BY <1>1, <1>4, <1>5, <1>6, <1>7, <1>8 DEF Clean, Reclaim

LEMMA FollowStep ==
  ASSUME TypeInv, StoreInv, OrderInv, FollowInv, [Next]_vars
  PROVE  FollowInv' /\ [Abstract!IdxNext]_<<Log, reqs, busy>>
<1>1. CASE Next
  <2>1. FollowInv' /\ busy \subseteq busy' /\ \A s \in Sessions \ busy' : SessionStep(s)
    BY <1>1, WriteFollow, ReadFollow, CleanFollow DEF Next
  <2> QED
    BY <2>1 DEF Abstract!IdxNext, SessionStep
<1>2. CASE UNCHANGED vars
  <2>1. UNCHANGED <<msgs, reqs, busy, ing, todo, icur, rec, rcur, rowM, deleted>>
    BY <1>2 DEF vars, files, index, tables, ingester, reclaimer
  <2> QED
    BY <2>1 DEF FollowInv, WholeInv, LeavingInv, Log
<1> QED
  BY <1>1, <1>2

\* The pipeline implements RequestIndex: a step maps to a step of it or to a stutter,
\* for chunks of any size, any sessions and records, and whatever fails or crashes.
THEOREM ImplementsRequestIndexHolds == Spec => ImplementsRequestIndex
<1>1. Init => FollowInv /\ Abstract!IdxInit
  BY FollowInit
<1>2. TypeInv /\ StoreInv /\ OrderInv /\ FollowInv /\ [Next]_vars
        => FollowInv' /\ [Abstract!IdxNext]_<<Log, reqs, busy>>
  BY FollowStep
<1> QED
  BY <1>1, <1>2, TypeInvariant, StoreInvariant, OrderInvariant, PTL
  DEF Spec, ImplementsRequestIndex, Abstract!IdxSpec
=============================================================================
