-------------------------- MODULE LogsViewer_proof --------------------------
(***************************************************************************)
(* Proofs about LogsViewer, for every set of projects, sessions and        *)
(* records and any number of events: what the lists of the cache cover,    *)
(* how a session is ordered, and what an answer leaves a polling tab with. *)
(***************************************************************************)
EXTENDS LogsViewer, FiniteSetTheorems, SequenceTheorems, WellFoundedInduction, TLAPS

-----------------------------------------------------------------------------
(* Sets of numbers, and the merged lists.                                  *)

\* A nonempty set of numbers up to n has a greatest element.
LEMMA Greatest ==
  ASSUME NEW n \in Nat, NEW S \in SUBSET (0..n), S # {}
  PROVE  Max(S) \in S /\ \A t \in S : Max(S) >= t
<1> DEFINE Below == {n - s : s \in S}
<1>1. Below \subseteq Nat /\ Below # {}
  <2>1. \A s \in S : n - s \in Nat
    OBVIOUS
  <2>2. PICK s \in S : TRUE
    OBVIOUS
  <2>3. n - s \in Below
    BY <2>2
  <2> QED
    BY <2>1, <2>3
<1>2. PICK r \in Below : \A q \in Below : ~ (<<q, r>> \in OpToRel(<, Nat))
  <2>1. IsWellFoundedOn(OpToRel(<, Nat), Nat)
    BY NatLessThanWellFounded
  <2> HIDE DEF Below
  <2> QED
    BY <1>1, <2>1, WFMin
<1>3. \A q \in Below : ~ (q < r)
  BY <1>1, <1>2 DEF OpToRel
<1>4. PICK s \in S : r = n - s
  OBVIOUS
<1>5. \A t \in S : s >= t
  <2> TAKE t \in S
  <2>1. ~ (n - t < r)
    BY <1>3
  <2> QED
    BY <1>4, <2>1
<1> QED
  BY <1>5 DEF Max

Row == [recs : Seq(Records), stamp : Nat]
Tables == [Keys -> Row \cup {NoRow}]

\* One session's records, as MergeSessions counts them.
Listed(table, hashes) == {k \in RowsOf(table, hashes) : table[k].recs # <<>>}
Held(table, hashes, s) ==
  UNION {{k} \X DOMAIN table[k].recs : k \in {j \in Listed(table, hashes) : Sid[j] = s}}

LEMMA MergeIs ==
  ASSUME NEW table, NEW hashes
  PROVE  MergeSessions(table, hashes)
           = [s \in {Sid[k] : k \in Listed(table, hashes)} |-> Cardinality(Held(table, hashes, s))]
BY DEF MergeSessions, Listed, Held

LEMMA HeldFinite ==
  ASSUME NEW table \in Tables, NEW hashes, NEW s
  PROVE  IsFiniteSet(Held(table, hashes, s))
<1> DEFINE K == {j \in Listed(table, hashes) : Sid[j] = s}
           f == [k \in K |-> {k} \X DOMAIN table[k].recs]
           Parts == {f[k] : k \in K}
<1>1. K \subseteq Keys /\ \A k \in K : table[k] \in Row
  BY DEF Listed, RowsOf, Tables
<1>2. IsFiniteSet(K)
  BY <1>1, SessionListsAssumption, FS_Subset
<1>3. IsFiniteSet(Parts)
  <2>1. f \in Surjection(K, Parts)
    BY DEF Surjection
  <2> HIDE DEF f, K, Parts
  <2> QED
    BY <1>2, <2>1, FS_Surjection
<1>4. \A T \in Parts : IsFiniteSet(T)
  <2> SUFFICES ASSUME NEW k \in K PROVE IsFiniteSet(f[k])
    OBVIOUS
  <2>1. table[k].recs \in Seq(Records)
    BY <1>1 DEF Row
  <2>2. DOMAIN table[k].recs = 1..Len(table[k].recs) /\ Len(table[k].recs) \in Nat
    BY <2>1
  <2>3. IsFiniteSet(1..Len(table[k].recs))
    BY <2>2, FS_Interval
  <2>4. IsFiniteSet({k})
    BY FS_Singleton
  <2> QED
    BY <2>2, <2>3, <2>4, FS_Product
<1>5. Held(table, hashes, s) = UNION Parts
  BY DEF Held
<1> QED
  BY <1>3, <1>4, <1>5, FS_UNION

\* A table that has every row of another one lists all that the other lists.
LEMMA MoreIsListed ==
  ASSUME NEW T \in Tables, NEW U \in Tables, NEW hashes,
         \A k \in Keys : T[k] # NoRow => U[k] = T[k],
         NEW s \in DOMAIN MergeSessions(T, hashes)
  PROVE  /\ s \in DOMAIN MergeSessions(U, hashes)
         /\ MergeSessions(U, hashes)[s] >= MergeSessions(T, hashes)[s]
<1>1. \A k \in Listed(T, hashes) : k \in Listed(U, hashes) /\ U[k] = T[k]
  BY DEF Listed, RowsOf
<1>2. s \in {Sid[k] : k \in Listed(T, hashes)}
  BY MergeIs
<1>3. s \in {Sid[k] : k \in Listed(U, hashes)}
  BY <1>1, <1>2
<1>4. Held(T, hashes, s) \subseteq Held(U, hashes, s)
  BY <1>1 DEF Held
<1>5. /\ Cardinality(Held(T, hashes, s)) <= Cardinality(Held(U, hashes, s))
      /\ Cardinality(Held(T, hashes, s)) \in Nat /\ Cardinality(Held(U, hashes, s)) \in Nat
  BY <1>4, HeldFinite, FS_Subset, FS_CardinalityType
<1> QED
  BY <1>2, <1>3, <1>5, MergeIs

-----------------------------------------------------------------------------
(* Types.                                                                  *)

Mark == [rev : Nat, count : Nat]

\* No row is stamped, and no revision was read, ahead of the clock.
TypeInv ==
  /\ now \in Nat /\ disk \in [Keys -> Seq(Records)]
  /\ rows \in Tables /\ read \in Tables
  /\ \A k \in Keys : rows[k] # NoRow => rows[k].stamp <= now
  /\ probed \in Mark \cup {Unknown} /\ gate \in Mark \cup {Unknown}
  /\ \A m \in {probed, gate} : m # Unknown => m.rev <= now
  /\ pc \in {"read", "lists", "marks"} => probed # Unknown

\* A row changes by being deleted or by being written with a new stamp.
RowMoves(k) ==
  \/ rows'[k] \in {rows[k], NoRow}
  \/ rows'[k] \in Row /\ rows'[k].stamp = now' /\ now' > now

LEMMA IngestMoves ==
  ASSUME TypeInv, Ingest
  PROVE  now' \in {now, now + 1} /\ rows' \in Tables /\ \A k \in Keys : RowMoves(k)
<1> DEFINE New(k) == disk[k] # <<>> /\ (rows[k] = NoRow \/ rows[k].recs # disk[k])
<1>1. rows' = [k \in Keys |-> IF New(k) THEN [recs |-> disk[k], stamp |-> now + 1] ELSE rows[k]]
  BY DEF Ingest, Ingested
<1>2. now' = IF rows' # rows THEN now + 1 ELSE now
  BY DEF Ingest
<1>3. \A k \in Keys : [recs |-> disk[k], stamp |-> now + 1] \in Row /\ rows[k] \in Row \cup {NoRow}
  BY DEF TypeInv, Row, Tables
<1>4. rows' \in Tables
  <2> HIDE DEF New
  <2> QED
    BY <1>1, <1>3 DEF Tables
<1>5. ASSUME NEW k \in Keys PROVE RowMoves(k)
  <2>1. CASE ~ New(k)
    BY <1>1, <2>1 DEF RowMoves
  <2>2. CASE New(k)
    <3>1. rows'[k] = [recs |-> disk[k], stamp |-> now + 1]
      BY <1>1, <2>2
    <3>2. rows' # rows
      BY <2>2, <3>1, <1>3, SessionListsAssumption DEF Row
    <3> QED
      BY <1>2, <1>3, <3>1, <3>2 DEF RowMoves, TypeInv
  <2> QED
    BY <2>1, <2>2
<1> QED
  BY <1>2, <1>4, <1>5

\* What a step of the environment leaves, and what it does to rows and clock.
LEMMA EnvironmentIs ==
  ASSUME TypeInv, Environment
  PROVE  /\ UNCHANGED <<pc, pass, probed, read, derived>>
         /\ now' \in {now, now + 1} /\ rows' \in Tables /\ \A k \in Keys : RowMoves(k)
         /\ disk' \in [Keys -> Seq(Records)]
<1>t. now \in Nat /\ disk \in [Keys -> Seq(Records)] /\ rows \in Tables
  BY DEF TypeInv
<1>s. UNCHANGED rows => rows' \in Tables /\ \A k \in Keys : RowMoves(k)
  BY <1>t DEF RowMoves
<1>1. ASSUME NEW p \in Projects, RecordProject(p) \/ LinkLogs(p) \/ ForgetProject(p)
      PROVE  UNCHANGED <<consumer, derived, rows, disk>> /\ now' \in {now, now + 1}
  BY <1>1 DEF RecordProject, LinkLogs, ForgetProject
<1>2. ASSUME NEW r \in Records, AppendRecord(r)
      PROVE  UNCHANGED <<consumer, derived, rows, now>> /\ disk' \in [Keys -> Seq(Records)]
  <2>1. KeyOf[r] \in Keys
    BY SessionListsAssumption
  <2>2. disk' = [disk EXCEPT ![KeyOf[r]] = Append(@, r)]
    BY <1>2 DEF AppendRecord
  <2>3. Append(disk[KeyOf[r]], r) \in Seq(Records)
    BY <1>t, <2>1
  <2> QED
    BY <1>t, <1>2, <2>1, <2>2, <2>3 DEF AppendRecord
<1>3. ASSUME NEW k \in Keys, ExpireSession(k)
      PROVE  /\ UNCHANGED <<consumer, derived, now>> /\ disk' \in [Keys -> Seq(Records)]
             /\ rows' \in Tables /\ \A j \in Keys : RowMoves(j)
  <2>1. rows' = [rows EXCEPT ![k] = NoRow] /\ disk' = [disk EXCEPT ![k] = <<>>]
    BY <1>3 DEF ExpireSession
  <2>2. <<>> \in Seq(Records)
    OBVIOUS
  <2> QED
    BY <1>t, <1>3, <2>1, <2>2 DEF ExpireSession, Tables, RowMoves
<1>4. CASE Midnight \/ SurveyCleanup
  BY <1>4, <1>s, <1>t DEF Midnight, SurveyCleanup, consumer
<1>5. CASE Reindex
  BY <1>5, <1>t, IngestMoves DEF Reindex, consumer, env
<1>6. CASE RunCleanup
  <2>1. /\ disk' = [k \in Keys |-> IF HashOfKey[k] \in scope.hashes THEN <<>> ELSE disk[k]]
        /\ rows' = [k \in Keys |-> IF HashOfKey[k] \in scope.hashes THEN NoRow ELSE rows[k]]
    BY <1>6 DEF RunCleanup
  <2>2. <<>> \in Seq(Records)
    OBVIOUS
  <2>3. disk' \in [Keys -> Seq(Records)]
    BY <1>t, <2>1, <2>2
  <2>4. rows' \in Tables /\ \A j \in Keys : RowMoves(j)
    BY <1>t, <2>1 DEF Tables, RowMoves
  <2> QED
    BY <1>t, <1>6, <2>3, <2>4 DEF RunCleanup, consumer
<1> QED
  BY <1>1, <1>2, <1>3, <1>4, <1>5, <1>6, <1>s, <1>t DEF Environment, consumer

\* What a step may be, as the proofs below split it.
LEMMA StepIs ==
  ASSUME TypeInv, [ViewerNext]_vars
  PROVE  \/ UNCHANGED cacheVars
         \/ Environment
         \/ TakeBatch \/ Heartbeat \/ TakeStop \/ IngestLockHeld \/ StopWatcher
         \/ IngestNow \/ Regroup \/ ProbeRevision \/ ReadSessions \/ SwapLists \/ SwapMarks
         \/ FlushUsage \/ PassFails
<1>1. CASE CacheNext
  BY <1>1 DEF CacheNext, Consumer
<1>2. CASE Tab \/ CloseSession
  BY <1>2 DEF Tab, OpenSession, SeedMarker, TickProbe, TickFetch, CloseSession
<1> QED
  BY <1>1, <1>2 DEF ViewerNext, vars

\* The rows and the clock, in every step.
LEMMA RowsMove ==
  ASSUME TypeInv, [ViewerNext]_vars
  PROVE  /\ now' \in {now, now + 1} /\ rows' \in Tables /\ disk' \in [Keys -> Seq(Records)]
         /\ \A k \in Keys : RowMoves(k)
<1>t. now \in Nat /\ disk \in [Keys -> Seq(Records)] /\ rows \in Tables
  BY DEF TypeInv
<1>s. UNCHANGED rows => rows' \in Tables /\ \A k \in Keys : RowMoves(k)
  BY <1>t DEF RowMoves
<1>1. CASE UNCHANGED cacheVars
  BY <1>t, <1>s, <1>1 DEF cacheVars, env
<1>2. CASE Environment
  BY <1>2, EnvironmentIs
<1>3. CASE TakeBatch \/ Heartbeat \/ TakeStop \/ IngestLockHeld \/ StopWatcher
           \/ Regroup \/ ProbeRevision \/ ReadSessions \/ SwapLists \/ SwapMarks
           \/ FlushUsage \/ PassFails
  BY <1>t, <1>s, <1>3
     DEF TakeBatch, Heartbeat, TakeStop, IngestLockHeld, StopWatcher, Regroup, ProbeRevision,
         ReadSessions, SwapLists, SwapMarks, FlushUsage, PassFails, env
<1>4. CASE IngestNow
  BY <1>t, <1>4, IngestMoves DEF IngestNow, env
<1> QED
  BY <1>1, <1>2, <1>3, <1>4, StepIs

\* The revision of the table bounds its stamps, and the clock bounds the revision.
LEMMA RevisionIs ==
  ASSUME TypeInv
  PROVE  /\ Revision(rows) \in Mark /\ Revision(rows).rev <= now
         /\ \A k \in Keys : rows[k] # NoRow => rows[k].stamp <= Revision(rows).rev
<1> DEFINE K == {k \in Keys : rows[k] # NoRow}
           S == {rows[k].stamp : k \in K}
<1>1. \A k \in K : rows[k].stamp \in 0..now
  BY DEF TypeInv, Tables, Row
<1>2. S \in SUBSET (0..now) /\ now \in Nat
  BY <1>1 DEF TypeInv
<1>3. Largest(S) \in 0..now /\ \A t \in S : t <= Largest(S)
  <2>1. CASE S = {}
    BY <1>2, <2>1 DEF Largest
  <2>2. CASE S # {}
    <3>1. Max(S) \in S /\ \A t \in S : Max(S) >= t
      <4> HIDE DEF S
      <4> QED
        BY <1>2, <2>2, Greatest
    <3> QED
      BY <1>2, <2>2, <3>1 DEF Largest
  <2> QED
    BY <2>1, <2>2
<1>4. Cardinality(K) \in Nat
  BY SessionListsAssumption, FS_Subset, FS_CardinalityType
<1>5. Revision(rows) = [rev |-> Largest(S), count |-> Cardinality(K)]
  BY DEF Revision, Fingerprint
<1>6. \A k \in Keys : rows[k] # NoRow => rows[k].stamp <= Largest(S)
  BY <1>3
<1> HIDE DEF K, S
<1> QED
  BY <1>2, <1>3, <1>4, <1>5, <1>6 DEF Mark

LEMMA TypeStep == ASSUME TypeInv, [ViewerNext]_vars PROVE TypeInv'
<1>t. /\ now \in Nat /\ read \in Tables /\ rows \in Tables
      /\ probed \in Mark \cup {Unknown} /\ gate \in Mark \cup {Unknown}
      /\ \A m \in {probed, gate} : m # Unknown => m.rev <= now
      /\ pc \in {"read", "lists", "marks"} => probed # Unknown
  BY DEF TypeInv
<1>m. /\ now' \in {now, now + 1} /\ rows' \in Tables /\ disk' \in [Keys -> Seq(Records)]
      /\ \A k \in Keys : RowMoves(k)
  BY RowsMove
<1>n. now' \in Nat /\ now <= now'
  BY <1>t, <1>m
<1>r. \A k \in Keys : rows'[k] # NoRow => rows'[k].stamp <= now'
  <2> SUFFICES ASSUME NEW k \in Keys, rows'[k] # NoRow PROVE rows'[k].stamp <= now'
    OBVIOUS
  <2>1. CASE rows'[k] = rows[k]
    BY <1>n, <2>1 DEF TypeInv, Tables, Row
  <2>2. CASE rows'[k].stamp = now'
    BY <1>n, <2>2
  <2> QED
    BY <1>m, <2>1, <2>2 DEF RowMoves
<1>u. ASSUME /\ probed' \in {probed, Unknown} /\ gate' \in {gate, probed, Unknown} /\ read' \in Tables
             /\ pc' \in {"read", "lists", "marks"} => pc \in {"read", "lists", "marks"} /\ probed' = probed
      PROVE  TypeInv'
  <2>1. \A m \in {probed', gate'} : m # Unknown => m.rev <= now'
    <3> SUFFICES ASSUME NEW m \in {probed, gate}, m # Unknown PROVE m.rev <= now'
      BY <1>u
    <3>1. m.rev \in Nat /\ m.rev <= now
      BY <1>t DEF Mark
    <3> QED
      BY <1>t, <1>n, <3>1
  <2>2. /\ probed' \in Mark \cup {Unknown} /\ gate' \in Mark \cup {Unknown}
        /\ pc' \in {"read", "lists", "marks"} => probed' # Unknown
    BY <1>t, <1>u
  <2> QED
    BY <1>m, <1>n, <1>r, <1>u, <2>1, <2>2 DEF TypeInv
<1>1. CASE UNCHANGED cacheVars \/ Environment
  <2>1. UNCHANGED <<pc, probed, gate, read>>
    BY <1>1, EnvironmentIs DEF cacheVars, consumer, derived
  <2> QED
    BY <1>t, <1>u, <2>1
<1>2. CASE TakeBatch \/ Heartbeat \/ TakeStop \/ IngestLockHeld \/ StopWatcher \/ IngestNow
           \/ Regroup \/ FlushUsage \/ PassFails
  <2>1. UNCHANGED read /\ probed' \in {probed, Unknown} /\ gate' \in {gate, Unknown}
    BY <1>2 DEF TakeBatch, Heartbeat, TakeStop, IngestLockHeld, StopWatcher, IngestNow, Regroup,
                FlushUsage, PassFails, derived, consumer
  <2>2. pc' \in {"read", "lists", "marks"} => pc \in {"read", "lists", "marks"} /\ probed' = probed
    BY <1>2 DEF TakeBatch, Heartbeat, TakeStop, IngestLockHeld, StopWatcher, IngestNow, Regroup,
                FlushUsage, PassFails, consumer, AfterIngest
  <2> QED
    BY <1>t, <1>u, <2>1, <2>2
<1>3. CASE ProbeRevision
  <2>1. /\ UNCHANGED <<now, read, gate>> /\ probed' = Revision(rows)
    BY <1>3 DEF ProbeRevision, derived
  <2>2. probed' \in Mark /\ probed'.rev <= now' /\ probed' # Unknown
    BY <2>1, RevisionIs, LogsCacheAssumption DEF Mark
  <2>3. \A m \in {probed', gate'} : m # Unknown => m.rev <= now'
    BY <1>t, <2>1, <2>2
  <2> QED
    BY <1>t, <1>m, <1>n, <1>r, <2>1, <2>2, <2>3 DEF TypeInv
<1>4. CASE ReadSessions
  BY <1>t, <1>u, <1>4 DEF ReadSessions, derived
<1>5. CASE SwapLists
  BY <1>t, <1>u, <1>5 DEF SwapLists
<1>6. CASE SwapMarks
  <2>1. read' \in Tables /\ gate' = probed /\ probed' = Unknown /\ pc' = "usage"
    BY <1>6 DEF SwapMarks, Tables
  <2> QED
    BY <1>u, <2>1
<1> QED
  BY <1>1, <1>2, <1>3, <1>4, <1>5, <1>6, StepIs

LEMMA InitType == ViewerInit => TypeInv
<1> SUFFICES ASSUME ViewerInit PROVE TypeInv
  OBVIOUS
<1>1. /\ now = 1 /\ disk = [k \in Keys |-> <<>>] /\ rows = [k \in Keys |-> NoRow] /\ read = rows
      /\ pc = "ingest" /\ probed = Unknown /\ gate = Unknown
  BY DEF ViewerInit, Init
<1>2. <<>> \in Seq(Records)
  OBVIOUS
<1> QED
  BY <1>1, <1>2 DEF TypeInv, Tables

-----------------------------------------------------------------------------
(* The lists.                                                              *)

\* Table U has every row of T that is stamped up to m.
HasUpTo(T, U, m) == \A k \in Keys : T[k] # NoRow /\ T[k].stamp <= m => U[k] = T[k]

\* The lists are those of a table that had every row the gate has seen; while new
\* ones are being derived, so has the table that was read for them.
SnapshotInv ==
  /\ gate # Unknown /\ ~Publishing
       => \E U \in Tables : lists = Lists(U, groups) /\ HasUpTo(rows, U, gate.rev)
  /\ Publishing => HasUpTo(rows, read, probed.rev)
  /\ pc = "marks" => lists = Lists(read, groups)

\* No step brings back a row that is stamped up to an instant of the past.
LEMMA HasUpToStays ==
  ASSUME TypeInv, [ViewerNext]_vars, NEW U, NEW m \in Nat, m <= now, HasUpTo(rows, U, m)
  PROVE  HasUpTo(rows', U, m)
<1> SUFFICES ASSUME NEW k \in Keys, rows'[k] # NoRow, rows'[k].stamp <= m PROVE U[k] = rows'[k]
  BY DEF HasUpTo
<1>1. RowMoves(k) /\ now \in Nat /\ now' \in {now, now + 1}
  BY RowsMove DEF TypeInv
<1>2. rows'[k] = rows[k]
  BY <1>1 DEF RowMoves
<1> QED
  BY <1>2 DEF HasUpTo

LEMMA SnapshotAside ==
  ASSUME TypeInv, SnapshotInv, [ViewerNext]_vars, UNCHANGED <<lists, groups>>,
         gate' \in {gate, Unknown}, Publishing' <=> Publishing,
         Publishing => UNCHANGED <<pc, probed, read>>
  PROVE  SnapshotInv'
<1>1. ASSUME gate' # Unknown, ~Publishing
      PROVE  \E U \in Tables : lists' = Lists(U, groups') /\ HasUpTo(rows', U, gate'.rev)
  <2>1. gate.rev \in Nat /\ gate.rev <= now /\ gate' = gate
    BY <1>1 DEF TypeInv, Mark
  <2>2. PICK U \in Tables : lists = Lists(U, groups) /\ HasUpTo(rows, U, gate.rev)
    BY <1>1, <2>1 DEF SnapshotInv
  <2>3. HasUpTo(rows', U, gate.rev)
    BY <2>1, <2>2, HasUpToStays
  <2> QED
    BY <2>1, <2>2, <2>3
<1>2. ASSUME Publishing PROVE HasUpTo(rows', read', probed'.rev)
  <2>1. probed.rev \in Nat /\ probed.rev <= now /\ HasUpTo(rows, read, probed.rev)
    BY <1>2 DEF SnapshotInv, TypeInv, Mark, Publishing
  <2>2. HasUpTo(rows', read, probed.rev)
    BY <2>1, HasUpToStays
  <2> QED
    BY <1>2, <2>2
<1>3. pc' = "marks" => lists' = Lists(read', groups')
  BY DEF SnapshotInv, Publishing
<1> QED
  BY <1>1, <1>2, <1>3 DEF SnapshotInv

LEMMA SnapshotStep ==
  ASSUME TypeInv, SnapshotInv, [ViewerNext]_vars PROVE SnapshotInv'
<1>1. CASE UNCHANGED cacheVars \/ Environment
  <2>1. UNCHANGED <<pc, probed, read, lists, groups, gate>>
    BY <1>1, EnvironmentIs DEF cacheVars, consumer, derived
  <2> QED
    BY <2>1, SnapshotAside DEF Publishing
<1>2. CASE TakeBatch \/ Heartbeat \/ TakeStop \/ IngestLockHeld \/ StopWatcher \/ IngestNow
           \/ ProbeRevision \/ FlushUsage \/ PassFails
  <2>1. UNCHANGED <<read, lists, groups, gate>>
    BY <1>2 DEF TakeBatch, Heartbeat, TakeStop, IngestLockHeld, StopWatcher, IngestNow,
                ProbeRevision, FlushUsage, PassFails, derived, consumer
  <2>2. UNCHANGED <<pc, probed>> \/ (~Publishing /\ ~Publishing')
    BY <1>2 DEF TakeBatch, Heartbeat, TakeStop, IngestLockHeld, StopWatcher, IngestNow,
                ProbeRevision, FlushUsage, PassFails, consumer, AfterIngest, Publishing
  <2> QED
    BY <2>1, <2>2, SnapshotAside DEF Publishing
<1>3. CASE Regroup
  <2>1. /\ UNCHANGED <<rows, read, lists, probed>> /\ ~Publishing /\ ~Publishing' /\ pc' = "probe"
        /\ gate' # Unknown => UNCHANGED <<groups, gate>>
    BY <1>3 DEF Regroup, Publishing
  <2> QED
    BY <2>1 DEF SnapshotInv
<1>4. CASE ReadSessions
  <2>1. read' = rows /\ pc' = "lists" /\ UNCHANGED <<rows, probed>>
    BY <1>4 DEF ReadSessions, derived
  <2> QED
    BY <2>1 DEF SnapshotInv, Publishing, HasUpTo
<1>5. CASE SwapLists
  <2>1. /\ pc = "lists" /\ pc' = "marks" /\ lists' = Lists(read, groups)
        /\ UNCHANGED <<rows, probed, read, groups>>
    BY <1>5 DEF SwapLists
  <2> QED
    BY <2>1 DEF SnapshotInv, Publishing
<1>6. CASE SwapMarks
  <2>1. /\ pc = "marks" /\ pc' = "usage" /\ gate' = probed /\ UNCHANGED <<rows, lists, groups>>
    BY <1>6 DEF SwapMarks
  <2>2. read \in Tables /\ lists = Lists(read, groups) /\ HasUpTo(rows, read, probed.rev)
    BY <2>1 DEF SnapshotInv, Publishing, TypeInv
  <2> QED
    BY <2>1, <2>2 DEF SnapshotInv, Publishing
<1> QED
  BY <1>1, <1>2, <1>3, <1>4, <1>5, <1>6, StepIs

\* NothingIndexedIsHidden: whenever the gate would keep a pass from deriving the lists
\* anew, they show every session of a known group with all its records, although
\* revision and rows are read by two statements while other processes ingest and
\* delete (_refresh_from_index).
THEOREM NothingIndexedIsHiddenHolds == Spec => []NothingIndexedIsHidden
<1>1. ViewerInit => SnapshotInv
  BY DEF ViewerInit, Init, SnapshotInv, Publishing
<1>2. TypeInv /\ SnapshotInv /\ [ViewerNext]_vars => (TypeInv /\ SnapshotInv)'
  BY TypeStep, SnapshotStep
<1>3. TypeInv /\ SnapshotInv => NothingIndexedIsHidden
  <2> SUFFICES ASSUME TypeInv, SnapshotInv, gate = Revision(rows), ~Publishing
               PROVE  ListsCover(rows)
    BY DEF NothingIndexedIsHidden
  <2>1. gate \in Mark /\ \A k \in Keys : rows[k] # NoRow => rows[k].stamp <= gate.rev
    BY RevisionIs
  <2>2. PICK U \in Tables : lists = Lists(U, groups) /\ HasUpTo(rows, U, gate.rev)
    BY <2>1, LogsCacheAssumption DEF SnapshotInv, Mark
  <2>3. \A k \in Keys : rows[k] # NoRow => U[k] = rows[k]
    BY <2>1, <2>2 DEF HasUpTo
  <2>4. rows \in Tables
    BY DEF TypeInv
  <2>5. ASSUME NEW i \in DOMAIN groups, NEW s \in DOMAIN MergeSessions(rows, groups[i].hashes)
        PROVE  /\ i \in DOMAIN lists /\ s \in DOMAIN lists[i]
               /\ lists[i][s] >= MergeSessions(rows, groups[i].hashes)[s]
    <3>1. i \in DOMAIN lists /\ lists[i] = MergeSessions(U, groups[i].hashes)
      BY <2>2 DEF Lists
    <3> QED
      BY <2>3, <2>4, <3>1, MoreIsListed
  <2> QED
    BY <2>5 DEF ListsCover
<1> QED
  BY <1>1, <1>2, <1>3, InitType, PTL DEF Spec

-----------------------------------------------------------------------------
(* Sorting a finite set, and concatenating a sequence of sequences.         *)

\* R orders the set S, strictly and totally.
Orders(R, S) ==
  /\ \A i \in S : <<i, i>> \notin R
  /\ \A i, j, k \in S : <<i, j>> \in R /\ <<j, k>> \in R => <<i, k>> \in R
  /\ \A i, j \in S : i = j \/ <<i, j>> \in R \/ <<j, i>> \in R

Before(S, R, i) == {j \in S : <<j, i>> \in R}

LEMMA BeforeIs ==
  ASSUME NEW S, IsFiniteSet(S), NEW R, Orders(R, S), NEW i \in S, NEW j \in S
  PROVE  /\ Cardinality(Before(S, R, i)) \in 0..Cardinality(S) - 1
         /\ <<i, j>> \in R => Cardinality(Before(S, R, i)) < Cardinality(Before(S, R, j))
         /\ Cardinality(Before(S, R, i)) = Cardinality(Before(S, R, j)) => i = j
<1>1. ASSUME NEW k \in S
      PROVE  /\ IsFiniteSet(Before(S, R, k)) /\ Cardinality(Before(S, R, k)) \in Nat
             /\ Cardinality(Before(S, R, k)) < Cardinality(S)
  <2>1. Before(S, R, k) \in SUBSET S /\ k \notin Before(S, R, k)
    BY DEF Before, Orders
  <2>2. /\ IsFiniteSet(Before(S, R, k))
        /\ Cardinality(Before(S, R, k)) <= Cardinality(S)
        /\ Cardinality(S) = Cardinality(Before(S, R, k)) => S = Before(S, R, k)
    BY <2>1, FS_Subset
  <2>3. Cardinality(S) \in Nat /\ Cardinality(Before(S, R, k)) \in Nat
    BY <2>2, FS_CardinalityType
  <2> QED
    BY <2>1, <2>2, <2>3
<1>2. ASSUME NEW k \in S, NEW l \in S, <<k, l>> \in R
      PROVE  Cardinality(Before(S, R, k)) < Cardinality(Before(S, R, l))
  <2>1. Before(S, R, k) \in SUBSET Before(S, R, l)
    BY <1>2 DEF Before, Orders
  <2>2. k \in Before(S, R, l) /\ k \notin Before(S, R, k)
    BY <1>2 DEF Before, Orders
  <2>3. /\ Cardinality(Before(S, R, k)) <= Cardinality(Before(S, R, l))
        /\ Cardinality(Before(S, R, l)) = Cardinality(Before(S, R, k)) => Before(S, R, l) = Before(S, R, k)
    BY <1>1, <2>1, FS_Subset
  <2>4. Cardinality(Before(S, R, k)) \in Nat /\ Cardinality(Before(S, R, l)) \in Nat
    BY <1>1
  <2> QED
    BY <2>2, <2>3, <2>4
<1>3. ASSUME Cardinality(Before(S, R, i)) = Cardinality(Before(S, R, j)) PROVE i = j
  <2>1. i = j \/ <<i, j>> \in R \/ <<j, i>> \in R
    BY DEF Orders
  <2>2. Cardinality(Before(S, R, i)) \in Nat
    BY <1>1
  <2> QED
    BY <1>2, <1>3, <2>1, <2>2
<1>4. Cardinality(S) \in Nat
  BY FS_CardinalityType
<1>5. Cardinality(Before(S, R, i)) \in 0..Cardinality(S) - 1
  BY <1>1, <1>4
<1> QED
  BY <1>2, <1>3, <1>5

\* The set in the order R, as Ranked has it.
InOrder(S, R) ==
  [n \in 1..Cardinality(S) |-> CHOOSE i \in S : Cardinality(Before(S, R, i)) = n - 1]

LEMMA RankIs ==
  ASSUME NEW S, IsFiniteSet(S), NEW R, Orders(R, S)
  PROVE  /\ Cardinality(S) \in Nat
         /\ InOrder(S, R) \in Bijection(1..Cardinality(S), S)
         /\ \A m, n \in 1..Cardinality(S) : m < n => <<InOrder(S, R)[m], InOrder(S, R)[n]>> \in R
<1> DEFINE N == Cardinality(S)
           c == [i \in S |-> Cardinality(Before(S, R, i))]
           f == InOrder(S, R)
<1>0. N \in Nat
  BY FS_CardinalityType
<1>1. c \in [S -> 0..N - 1]
  BY BeforeIs
<1>2. \A i, j \in S : c[i] = c[j] => i = j
  BY BeforeIs
<1>3. \A i, j \in S : <<i, j>> \in R => c[i] < c[j]
  BY BeforeIs
<1>4. \A n \in 1..N : f[n] = CHOOSE i \in S : c[i] = n - 1
  BY DEF InOrder
<1>d. DOMAIN f = 1..N
  BY DEF InOrder
<1> HIDE DEF N, c, f
<1>5. c \in Surjection(S, 0..N - 1)
  <2>1. c \in Injection(S, 0..N - 1)
    BY <1>1, <1>2 DEF Injection, IsInjective
  <2>2. IsFiniteSet(0..N - 1) /\ Cardinality(0..N - 1) = N
    BY <1>0, FS_Interval
  <2> QED
    BY <2>1, <2>2, FS_Injection DEF N
<1>6. ASSUME NEW n \in 1..N PROVE f[n] \in S /\ c[f[n]] = n - 1
  <2>1. n - 1 \in 0..N - 1
    BY <1>0
  <2>2. \E i \in S : c[i] = n - 1
    BY <1>5, <2>1 DEF Surjection
  <2> QED
    BY <1>4, <2>2
<1>7. \A m, n \in 1..N : f[m] = f[n] => m = n
  <2> SUFFICES ASSUME NEW m \in 1..N, NEW n \in 1..N, f[m] = f[n] PROVE m = n
    OBVIOUS
  <2>1. m - 1 = n - 1
    BY <1>6
  <2> QED
    BY <1>0, <2>1
<1>8. ASSUME NEW i \in S PROVE \E n \in 1..N : f[n] = i
  <2>1. c[i] + 1 \in 1..N /\ (c[i] + 1) - 1 = c[i]
    BY <1>0, <1>1
  <2>2. f[c[i] + 1] = i
    BY <1>2, <1>6, <2>1
  <2> QED
    BY <2>1, <2>2
<1>9. ASSUME NEW m \in 1..N, NEW n \in 1..N, m < n PROVE <<f[m], f[n]>> \in R
  <2>1. f[m] \in S /\ f[n] \in S /\ c[f[m]] = m - 1 /\ c[f[n]] = n - 1
    BY <1>6
  <2>2. f[m] # f[n] /\ ~ (c[f[n]] < c[f[m]])
    BY <1>0, <1>9, <2>1
  <2> QED
    BY <1>3, <2>1, <2>2 DEF Orders
<1>a. f = [n \in 1..N |-> f[n]]
  BY <1>d DEF f, InOrder, N
<1>10. f \in [1..N -> S]
  BY <1>6, <1>a
<1>11. f \in Bijection(1..N, S)
  BY <1>7, <1>8, <1>10 DEF Bijection, Injection, Surjection, IsInjective
<1> QED
  BY <1>0, <1>9, <1>11 DEF f, N

\* A set of numbers has a least element.
LEMMA Least ==
  ASSUME NEW S \in SUBSET Nat, S # {}
  PROVE  \E m \in S : \A n \in S : m <= n
<1>1. PICK m \in S : \A n \in S : ~ (<<n, m>> \in OpToRel(<, Nat))
  BY NatLessThanWellFounded, WFMin
<1>2. \A n \in S : ~ (n < m)
  BY <1>1 DEF OpToRel
<1>3. m \in S
  BY <1>1 DEF OpToRel
<1>4. \A n \in S : m <= n
  BY <1>2, <1>3
<1> QED
  BY <1>3, <1>4

\* A set of numbers that has 0 and the successor of each of its members has them all.
LEMMA AllNumbers ==
  ASSUME NEW S, 0 \in S, \A n \in Nat : n \in S => n + 1 \in S
  PROVE  Nat \subseteq S
<1> SUFFICES ASSUME Nat \ S # {} PROVE FALSE
  OBVIOUS
<1>1. PICK m \in Nat \ S : \A n \in Nat \ S : m <= n
  BY Least
<1>3. m # 0 /\ m - 1 \in Nat
  BY <1>1
<1>4. m - 1 \in S
  BY <1>1, <1>3
<1>5. (m - 1) + 1 \in S
  BY <1>3, <1>4
<1> QED
  BY <1>1, <1>5

Joined(s, n) ==
  CHOOSE flatten : flatten = [i \in 1..n |-> IF i = 1 THEN s[i] ELSE flatten[i-1] \o s[i]]

LEMMA JoinedIs ==
  ASSUME NEW S, NEW s, NEW n \in Nat, \A i \in 1..n : s[i] \in Seq(S)
  PROVE  /\ \A i \in 1..n : Joined(s, n)[i] = IF i = 1 THEN s[i] ELSE Joined(s, n)[i-1] \o s[i]
         /\ \A i \in 1..n : Joined(s, n)[i] \in Seq(S)
<1> DEFINE Is(f, m) == f = [i \in 1..m |-> IF i = 1 THEN s[i] ELSE f[i-1] \o s[i]]
           OK == {m \in Nat : \E f : Is(f, m)}
<1>1. 0 \in OK
  <2> DEFINE f == [i \in 1..0 |-> i]
  <2>1. f = [i \in 1..0 |-> IF i = 1 THEN s[i] ELSE f[i-1] \o s[i]]
    OBVIOUS
  <2>2. Is(f, 0)
    BY <2>1
  <2> QED
    BY <2>2
<1>2. ASSUME NEW m \in Nat, m \in OK PROVE m + 1 \in OK
  <2>1. PICK f : Is(f, m)
    BY <1>2
  <2> DEFINE last == IF m = 0 THEN s[1] ELSE f[m] \o s[m+1]
             g == [i \in 1..m+1 |-> IF i = m + 1 THEN last ELSE f[i]]
  <2>2. ASSUME NEW i \in 1..m+1 PROVE g[i] = IF i = 1 THEN s[i] ELSE g[i-1] \o s[i]
    <3>1. CASE i = m + 1 /\ i = 1
      BY <3>1
    <3>2. CASE i = m + 1 /\ i # 1
      <4>1. g[i-1] = f[m] /\ i - 1 = m /\ m # 0
        BY <3>2
      <4> QED
        BY <3>2, <4>1
    <3>3. CASE i # m + 1
      <4>1. i \in 1..m /\ g[i] = f[i]
        BY <3>3
      <4>2. f[i] = IF i = 1 THEN s[i] ELSE f[i-1] \o s[i]
        BY <2>1, <4>1
      <4>3. i # 1 => g[i-1] = f[i-1]
        BY <4>1
      <4> QED
        BY <4>1, <4>2, <4>3
    <3> QED
      BY <3>1, <3>2, <3>3
  <2>3. Is(g, m + 1)
    <3> DEFINE h == [i \in 1..m+1 |-> IF i = 1 THEN s[i] ELSE g[i-1] \o s[i]]
    <3> SUFFICES g = h
      OBVIOUS
    <3>1. \A i \in 1..m+1 : g[i] = h[i]
      <4> HIDE DEF g
      <4> QED BY <2>2
    <3> QED
      BY <3>1
  <2>4. \E e : Is(e, m + 1)
    <3> HIDE DEF g, Is
    <3> QED
      BY <2>3
  <2>5. m + 1 \in Nat
    OBVIOUS
  <2> HIDE DEF Is
  <2> QED
    BY <2>4, <2>5
<1>3. Nat \subseteq OK
  <2> HIDE DEF OK
  <2> QED
    BY <1>1, <1>2, AllNumbers
<1>4. Is(Joined(s, n), n)
  <2>1. PICK f : Is(f, n)
    BY <1>3
  <2> QED
    BY <2>1 DEF Joined
<1> DEFINE J == Joined(s, n)
           T == {i \in Nat : i \in 1..n => J[i] \in Seq(S)}
<1>5. 0 \in T
  OBVIOUS
<1>6. ASSUME NEW i \in Nat, i \in T PROVE i + 1 \in T
  <2> SUFFICES ASSUME i + 1 \in 1..n PROVE J[i+1] \in Seq(S)
    OBVIOUS
  <2> HIDE DEF J
  <2>1. J[i+1] = IF i + 1 = 1 THEN s[i+1] ELSE J[(i+1)-1] \o s[i+1]
    BY <1>4 DEF J
  <2>2. CASE i = 0
    BY <2>1, <2>2
  <2>3. CASE i # 0
    <3>1. i \in 1..n /\ (i+1)-1 = i /\ J[i] \in Seq(S) /\ s[i+1] \in Seq(S)
      BY <1>6, <2>3
    <3> QED
      BY <2>1, <2>3, <3>1
  <2> QED
    BY <2>2, <2>3
<1>7. Nat \subseteq T
  <2> HIDE DEF T
  <2> QED
    BY <1>5, <1>6, AllNumbers
<1>8. \A i \in 1..n : J[i] \in Seq(S)
  BY <1>7
<1>9. \A i \in 1..n : J[i] = IF i = 1 THEN s[i] ELSE J[i-1] \o s[i]
  <2> HIDE DEF J
  <2> QED
    BY <1>4 DEF J
<1> QED
  BY <1>8, <1>9

LEMMA FlattenIs ==
  ASSUME NEW s, Len(s) # 0
  PROVE FlattenSeq(s) = Joined(s, Len(s))[Len(s)]
  BY DEF FlattenSeq, Joined

LEMMA FlattenType ==
  ASSUME NEW S, NEW s \in Seq(Seq(S))
  PROVE  FlattenSeq(s) \in Seq(S)
<1>1. CASE Len(s) = 0
  <2>1. FlattenSeq(s) = s
    BY <1>1, Zenon DEF FlattenSeq
  <2>2. s = <<>>
    BY <1>1
  <2> QED
    BY <2>1, <2>2
<1>2. CASE Len(s) # 0
  <2>1. Len(s) \in Nat /\ Len(s) \in 1..Len(s) /\ \A i \in 1..Len(s) : s[i] \in Seq(S)
    BY <1>2
  <2>2. Joined(s, Len(s))[Len(s)] \in Seq(S)
    BY <2>1, JoinedIs
  <2> QED
    BY <1>2, <2>2, FlattenIs
<1> QED
  BY <1>1, <1>2

\* Where the elements of the first n sequences are.
Places(s, n) == {q \in (1..n) \X Nat : q[2] \in 1..Len(s[q[1]])}

\* g says for each position of the sequence t which element of s is there.
Located(t, s, n, g) ==
  /\ g \in Bijection(1..Len(t), Places(s, n))
  /\ \A p \in 1..Len(t) : t[p] = s[g[p][1]][g[p][2]]

LEMMA PlacesOfFirst ==
  ASSUME NEW X, NEW s \in Seq(Seq(X)), 1 <= Len(s)
  PROVE  \E g : Located(s[1], s, 1, g)
<1> DEFINE t == s[1]
           g == [p \in 1..Len(t) |-> <<1, p>>]
<1>1. t \in Seq(X) /\ Len(t) \in Nat
  <2>1. 1 \in 1..Len(s)
    OBVIOUS
  <2> QED
    BY <2>1
<1>2. \A q : q \in Places(s, 1) <=> q \in {1} \X (1..Len(t))
  <2>1. \A m \in 1..Len(t) : m \in Nat
    BY <1>1
  <2> QED
    BY <2>1 DEF Places
<1>3. g \in Bijection(1..Len(t), Places(s, 1))
  <2>1. \A p \in 1..Len(t) : g[p] = <<1, p>> /\ g[p] \in Places(s, 1)
    BY <1>2
  <2>2. \A q \in Places(s, 1) : q[2] \in 1..Len(t) /\ q = <<1, q[2]>>
    BY <1>2
  <2>3. g \in [1..Len(t) -> Places(s, 1)]
    BY <2>1
  <2>4. \A p, r \in 1..Len(t) : g[p] = g[r] => p = r
    BY <2>1
  <2>5. \A q \in Places(s, 1) : \E p \in 1..Len(t) : g[p] = q
    BY <2>1, <2>2
  <2> HIDE DEF g, t
  <2> QED
    BY <2>3, <2>4, <2>5 DEF Bijection, Injection, Surjection, IsInjective
<1>4. \A p \in 1..Len(t) : t[p] = s[g[p][1]][g[p][2]]
  OBVIOUS
<1> QED
  BY <1>3, <1>4 DEF Located

LEMMA PlacesOfNext ==
  ASSUME NEW X, NEW s \in Seq(Seq(X)), NEW n \in 1..Len(s) - 1, NEW t \in Seq(X),
         NEW g, Located(t, s, n, g)
  PROVE  \E h : Located(t \o s[n + 1], s, n + 1, h)
<1> DEFINE u == s[n + 1]
           L == Len(t)
           M == Len(u)
           h == [p \in 1..L + M |-> IF p <= L THEN g[p] ELSE <<n + 1, p - L>>]
<1>1. n \in Nat /\ n + 1 \in 1..Len(s) /\ u \in Seq(X) /\ L \in Nat /\ M \in Nat
  <2>1. n \in Nat /\ n + 1 \in 1..Len(s)
    OBVIOUS
  <2> QED
    BY <2>1
<1>2. /\ Len(t \o u) = L + M
      /\ \A p \in 1..L + M : (t \o u)[p] = IF p <= L THEN t[p] ELSE u[p - L]
  BY <1>1
<1>3. /\ g \in [1..L -> Places(s, n)]
      /\ \A p, r \in 1..L : g[p] = g[r] => p = r
      /\ \A q \in Places(s, n) : \E p \in 1..L : g[p] = q
      /\ \A p \in 1..L : t[p] = s[g[p][1]][g[p][2]]
  BY DEF Located, Bijection, Injection, Surjection, IsInjective
<1>4. \A q : q \in Places(s, n + 1) <=> q \in Places(s, n) \/ q \in {n + 1} \X (1..M)
  <2> SUFFICES ASSUME NEW q PROVE q \in Places(s, n + 1) <=> q \in Places(s, n) \/ q \in {n + 1} \X (1..M)
    OBVIOUS
  <2>1. \A m \in 1..M : m \in Nat
    BY <1>1
  <2>2. \A m : m \in 1..n + 1 <=> m \in 1..n \/ m = n + 1
    BY <1>1
  <2> QED
    BY <2>1, <2>2 DEF Places
<1>5. \A q \in Places(s, n) : q[1] # n + 1
  BY <1>1 DEF Places
<1>6. \A p \in 1..L + M : p <= L => p \in 1..L /\ h[p] = g[p]
  BY <1>1
<1>7. \A p \in 1..L + M : ~ (p <= L) => p - L \in 1..M /\ h[p] = <<n + 1, p - L>>
  BY <1>1
<1>8. \A m \in 1..M : m + L \in 1..L + M /\ ~ (m + L <= L) /\ (m + L) - L = m
  BY <1>1
<1>d. h = [p \in 1..L + M |-> h[p]]
  OBVIOUS
<1> HIDE DEF h, L, M, u
<1>s. \A p \in 1..L + M : p <= L => h[p] \in Places(s, n) /\ h[p][1] # n + 1
  <2>1. \A p \in 1..L : g[p] \in Places(s, n)
    BY <1>3
  <2> QED
    BY <1>5, <1>6, <2>1
<1>t. \A p \in 1..L + M : ~ (p <= L) => h[p] \in {n + 1} \X (1..M) /\ h[p][1] = n + 1
  <2> SUFFICES ASSUME NEW p \in 1..L + M, ~ (p <= L)
               PROVE  h[p] \in {n + 1} \X (1..M) /\ h[p][1] = n + 1
    OBVIOUS
  <2>1. p - L \in 1..M /\ h[p] = <<n + 1, p - L>>
    BY <1>7
  <2> DEFINE m == p - L
  <2> HIDE DEF m
  <2>2. m \in 1..M /\ h[p] = <<n + 1, m>>
    BY <2>1 DEF m
  <2> QED
    BY <2>2
<1>9. \A p \in 1..L + M : h[p] \in Places(s, n + 1)
  BY <1>4, <1>s, <1>t
<1>10. h \in [1..L + M -> Places(s, n + 1)]
  BY <1>9, <1>d
<1>11. ASSUME NEW p \in 1..L + M, NEW r \in 1..L + M, h[p] = h[r] PROVE p = r
  <2>1. p \in Int /\ r \in Int /\ L \in Int
    BY <1>1
  <2>2. CASE p <= L /\ r <= L
    BY <1>3, <1>6, <1>11, <2>2
  <2>3. CASE ~ (p <= L) /\ ~ (r <= L)
    <3>1. p - L = r - L
      BY <1>7, <1>11, <2>3
    <3> QED
      BY <2>1, <3>1
  <2>4. CASE p <= L /\ ~ (r <= L)
    BY <1>s, <1>t, <1>11, <2>4
  <2>5. CASE ~ (p <= L) /\ r <= L
    BY <1>s, <1>t, <1>11, <2>5
  <2> QED
    BY <2>2, <2>3, <2>4, <2>5
<1>12. ASSUME NEW q \in Places(s, n + 1) PROVE \E p \in 1..L + M : h[p] = q
  <2>1. CASE q \in Places(s, n)
    <3>1. PICK p \in 1..L : g[p] = q
      BY <1>3, <2>1
    <3>2. p \in 1..L + M /\ p <= L
      BY <1>1
    <3> QED
      BY <1>6, <3>1, <3>2
  <2>2. CASE q \in {n + 1} \X (1..M)
    <3>1. q[2] \in 1..M /\ q = <<n + 1, q[2]>>
      BY <2>2
    <3>2. h[q[2] + L] = q
      BY <1>7, <1>8, <3>1
    <3> QED
      BY <1>8, <3>1, <3>2
  <2> QED
    BY <1>4, <2>1, <2>2
<1>13. h \in Bijection(1..L + M, Places(s, n + 1))
  BY <1>10, <1>11, <1>12 DEF Bijection, Injection, Surjection, IsInjective
<1>14. \A p \in 1..L + M : (t \o u)[p] = s[h[p][1]][h[p][2]]
  <2> SUFFICES ASSUME NEW p \in 1..L + M PROVE (t \o u)[p] = s[h[p][1]][h[p][2]]
    OBVIOUS
  <2>1. CASE p <= L
    BY <1>2, <1>3, <1>6, <2>1
  <2>2. CASE ~ (p <= L)
    <3>1. h[p][1] = n + 1 /\ h[p][2] = p - L
      BY <1>7, <2>2
    <3> QED
      BY <1>2, <2>2, <3>1 DEF u
  <2> QED
    BY <2>1, <2>2
<1> QED
  BY <1>2, <1>13, <1>14 DEF Located, u

\* Every element of the sequences is at one position of their concatenation.
LEMMA FlattenLocates ==
  ASSUME NEW X, NEW s \in Seq(Seq(X))
  PROVE  \E g : Located(FlattenSeq(s), s, Len(s), g)
<1> DEFINE N == Len(s)
           J == Joined(s, N)
<1>1. N \in Nat /\ \A i \in 1..N : s[i] \in Seq(X)
  OBVIOUS
<1>2. CASE N = 0
  <2>1. FlattenSeq(s) = s
    BY <1>2, Zenon DEF FlattenSeq
  <2>2. Len(FlattenSeq(s)) = 0 /\ 1..0 = {} /\ Places(s, N) = {}
    BY <1>2, <2>1 DEF Places
  <2> DEFINE g == [p \in 1..0 |-> p]
  <2>3. g \in Bijection(1..0, {})
    BY DEF Bijection, Injection, Surjection, IsInjective
  <2>4. Located(FlattenSeq(s), s, N, g)
    BY <2>2, <2>3 DEF Located
  <2> QED
    BY <2>4
<1>3. CASE N # 0
  <2>1. /\ \A i \in 1..N : J[i] = IF i = 1 THEN s[i] ELSE J[i-1] \o s[i]
        /\ \A i \in 1..N : J[i] \in Seq(X)
    BY <1>1, JoinedIs
  <2> DEFINE T == {i \in Nat : i \in 1..N => \E g : Located(J[i], s, i, g)}
  <2>j. FlattenSeq(s) = J[N]
    BY <1>3, FlattenIs
  <2> HIDE DEF J, N
  <2>2. 0 \in T
    OBVIOUS
  <2>3. ASSUME NEW i \in Nat, i \in T PROVE i + 1 \in T
    <3> SUFFICES ASSUME i + 1 \in 1..N PROVE \E g : Located(J[i + 1], s, i + 1, g)
      OBVIOUS
    <3>1. J[i + 1] = IF i + 1 = 1 THEN s[i + 1] ELSE J[(i + 1) - 1] \o s[i + 1]
      BY <2>1
    <3>2. CASE i = 0
      <4>1. \E g : Located(s[1], s, 1, g)
        BY <1>1, <3>2, PlacesOfFirst DEF N
      <4>2. J[i + 1] = s[1] /\ i + 1 = 1
        BY <3>1, <3>2
      <4> QED
        BY <4>1, <4>2
    <3>3. CASE i # 0
      <4>1. i \in 1..N /\ i \in 1..Len(s) - 1 /\ (i + 1) - 1 = i /\ i + 1 # 1
        BY <1>1, <3>3 DEF N
      <4>2. J[i] \in Seq(X) /\ J[i + 1] = J[i] \o s[i + 1]
        BY <2>1, <3>1, <4>1
      <4>3. PICK g : Located(J[i], s, i, g)
        BY <2>3, <4>1
      <4>4. \E h : Located(J[i] \o s[i + 1], s, i + 1, h)
        BY <4>1, <4>2, <4>3, PlacesOfNext
      <4> QED
        BY <4>2, <4>4
    <3> QED
      BY <3>2, <3>3
  <2>4. Nat \subseteq T
    <3> HIDE DEF T
    <3> QED
      BY <2>2, <2>3, AllNumbers
  <2>5. \E g : Located(J[N], s, N, g)
    BY <1>1, <1>3, <2>4
  <2> QED
    BY <2>j, <2>5 DEF N
<1> QED
  BY <1>2, <1>3

-----------------------------------------------------------------------------
(* The order a session is served in.                                       *)

Instant == [rec : Records, at : Nat]

LEMMA InstantsIs ==
  ASSUME NEW recs \in Seq(Records)
  PROVE  /\ Instants(recs) \in Seq(Instant) /\ Len(Instants(recs)) = Len(recs)
         /\ \A i \in 1..Len(recs) : Instants(recs)[i].rec = recs[i]
<1> DEFINE known(i) == {j \in 1..i : Start[recs[j]] # 0}
           at(i)    == IF known(i) = {} THEN 0 ELSE Start[recs[Max(known(i))]]
<1>1. Instants(recs) = [i \in 1..Len(recs) |-> [rec |-> recs[i], at |-> at(i)]]
  BY DEF Instants
<1>2. ASSUME NEW i \in 1..Len(recs) PROVE at(i) \in Nat
  <2>1. CASE known(i) = {}
    BY <2>1
  <2>2. CASE known(i) # {}
    <3>1. known(i) \in SUBSET (0..i) /\ i \in Nat
      OBVIOUS
    <3>2. Max(known(i)) \in known(i)
      <4> HIDE DEF known
      <4> QED
        BY <2>2, <3>1, Greatest
    <3>3. Max(known(i)) \in 1..i
      BY <3>2
    <3>4. recs[Max(known(i))] \in Records
      BY <3>3
    <3>5. Start[recs[Max(known(i))]] \in Nat
      BY <3>4, SessionListsAssumption
    <3> HIDE DEF known
    <3> QED
      BY <2>2, <3>5
  <2> HIDE DEF known
  <2> QED
    BY <2>1, <2>2
<1> HIDE DEF at
<1>3. \A i \in 1..Len(recs) : [rec |-> recs[i], at |-> at(i)] \in Instant
  BY <1>2 DEF Instant
<1>4. Len(recs) \in Nat
  OBVIOUS
<1> QED
  BY <1>1, <1>3, <1>4

\* The directories of a session, in the order of their keys.
DirsOf(table, hashes, sid) == {k \in RowsOf(table, hashes) : Sid[k] = sid}

LEMMA SessionsForIs ==
  ASSUME NEW table \in Tables, NEW hashes, NEW sid
  PROVE  LET S == DirsOf(table, hashes, sid)
         IN  /\ Cardinality(S) \in Nat
             /\ SessionsFor(table, hashes, sid) \in Bijection(1..Cardinality(S), S)
             /\ \A k \in S : k \in Keys /\ table[k].recs \in Seq(Records)
<1> DEFINE S == DirsOf(table, hashes, sid)
           R == {p \in S \X S : Rank[p[1]] < Rank[p[2]]}
<1>1. S \in SUBSET Keys /\ \A k \in S : table[k] \in Row
  BY DEF DirsOf, RowsOf, Tables
<1>2. IsFiniteSet(S)
  BY <1>1, SessionListsAssumption, FS_Subset
<1>3. \A i, j \in S : <<i, j>> \in R <=> Rank[i] < Rank[j]
  OBVIOUS
<1>r. \A i \in S : Rank[i] \in Nat
  BY <1>1, SessionListsAssumption
<1>i. \A i, j \in S : Rank[i] = Rank[j] => i = j
  BY <1>1, SessionListsAssumption
<1>5. SessionsFor(table, hashes, sid)
        = [n \in 1..Cardinality(S) |->
             CHOOSE i \in S : Cardinality({j \in S : Rank[j] < Rank[i]}) = n - 1]
  BY DEF SessionsFor, Ranked, DirsOf
<1> HIDE DEF S, R
<1>4. Orders(R, S)
  BY <1>3, <1>r, <1>i DEF Orders
<1>6. \A i \in S : Before(S, R, i) = {j \in S : Rank[j] < Rank[i]}
  BY <1>3 DEF Before
<1>7. SessionsFor(table, hashes, sid) = InOrder(S, R)
  BY <1>5, <1>6 DEF InOrder
<1>8. Cardinality(S) \in Nat /\ SessionsFor(table, hashes, sid) \in Bijection(1..Cardinality(S), S)
  BY <1>2, <1>4, <1>7, RankIs
<1> QED
  BY <1>1, <1>8 DEF S, Row

\* The sequences of instants of its directories, and their concatenation.
InstantsOf(table, hashes, sid) ==
  LET mine == SessionsFor(table, hashes, sid)
  IN  [i \in DOMAIN mine |-> Instants(table[mine[i]].recs)]

\* The sequence of records a sequence of instants is for.
TimesOf(t, recs) == Len(t) = Len(recs) /\ \A j \in 1..Len(t) : t[j].rec = recs[j]

LEMMA InstantsOfIs ==
  ASSUME NEW table \in Tables, NEW hashes, NEW sid
  PROVE  LET s    == InstantsOf(table, hashes, sid)
             mine == SessionsFor(table, hashes, sid)
         IN  /\ s \in Seq(Seq(Instant))
             /\ Len(s) = Cardinality(DirsOf(table, hashes, sid))
             /\ \A i \in 1..Len(s) :
                  /\ mine[i] \in DirsOf(table, hashes, sid)
                  /\ s[i] = Instants(table[mine[i]].recs)
                  /\ TimesOf(s[i], table[mine[i]].recs)
<1> DEFINE s == InstantsOf(table, hashes, sid)
           mine == SessionsFor(table, hashes, sid)
           S == DirsOf(table, hashes, sid)
           N == Cardinality(S)
<1>1. /\ N \in Nat /\ mine \in [1..N -> S]
      /\ \A k \in S : k \in Keys /\ table[k].recs \in Seq(Records)
  BY SessionsForIs DEF Bijection, Injection, Surjection
<1>2. s = [i \in 1..N |-> Instants(table[mine[i]].recs)]
  BY <1>1 DEF InstantsOf
<1> HIDE DEF s, mine, S, N
<1>3. ASSUME NEW i \in 1..N
      PROVE  /\ mine[i] \in S
             /\ s[i] \in Seq(Instant) /\ s[i] = Instants(table[mine[i]].recs)
             /\ TimesOf(s[i], table[mine[i]].recs)
  <2>1. mine[i] \in S /\ table[mine[i]].recs \in Seq(Records)
    BY <1>1
  <2>2. s[i] = Instants(table[mine[i]].recs)
    BY <1>2
  <2> QED
    BY <2>1, <2>2, InstantsIs DEF TimesOf
<1>4. s \in [1..N -> Seq(Instant)]
  BY <1>2, <1>3
<1>5. s \in Seq(Seq(Instant)) /\ Len(s) = N
  BY <1>1, <1>4
<1> QED
  BY <1>3, <1>5 DEF s, mine, S, N

AllOf(table, hashes, sid) == FlattenSeq(InstantsOf(table, hashes, sid))

\* What Order sorts the positions by.
Sooner(all, D) ==
  {p \in D \X D :
     all[p[1]].at < all[p[2]].at \/ (all[p[1]].at = all[p[2]].at /\ p[1] < p[2])}

LEMMA SoonerIs ==
  ASSUME NEW all, NEW D, NEW i \in D, NEW j \in D
  PROVE  <<i, j>> \in Sooner(all, D) <=> all[i].at < all[j].at \/ (all[i].at = all[j].at /\ i < j)
<1> DEFINE p == <<i, j>>
<1>1. p \in D \X D /\ p[1] = i /\ p[2] = j
  OBVIOUS
<1> HIDE DEF p
<1>2. p \in Sooner(all, D) <=> all[p[1]].at < all[p[2]].at \/ (all[p[1]].at = all[p[2]].at /\ p[1] < p[2])
  BY <1>1 DEF Sooner
<1> QED
  BY <1>1, <1>2 DEF p

\* The order is a sequence of records: those of the directories, by their instants.
LEMMA OrderIs ==
  ASSUME NEW table \in Tables, NEW hashes, NEW sid
  PROVE  LET all == AllOf(table, hashes, sid)
         IN  /\ all \in Seq(Instant)
             /\ Order(table, hashes, sid) \in Seq(Records)
             /\ Len(Order(table, hashes, sid)) = Len(all)
             /\ \E f \in Bijection(1..Len(all), 1..Len(all)) :
                  /\ \A n \in 1..Len(all) : Order(table, hashes, sid)[n] = all[f[n]].rec
                  /\ \A m, n \in 1..Len(all) : m < n => <<f[m], f[n]>> \in Sooner(all, DOMAIN all)
<1> DEFINE all == AllOf(table, hashes, sid)
           D == DOMAIN all
           R == Sooner(all, D)
           f == InOrder(D, R)
<1>1. all \in Seq(Instant)
  BY InstantsOfIs, FlattenType DEF AllOf
<1>2. D = 1..Len(all) /\ Len(all) \in Nat /\ IsFiniteSet(D) /\ Cardinality(D) = Len(all)
  <2>1. D = 1..Len(all) /\ Len(all) \in Nat
    BY <1>1
  <2> HIDE DEF D
  <2> QED
    BY <2>1, FS_Interval
<1>3. Order(table, hashes, sid)
        = LET sorted == Ranked(D, LAMBDA i, j :
                          all[i].at < all[j].at \/ (all[i].at = all[j].at /\ i < j))
          IN  [i \in DOMAIN sorted |-> all[sorted[i]].rec]
  BY DEF Order, AllOf, InstantsOf
<1>4. Ranked(D, LAMBDA i, j : all[i].at < all[j].at \/ (all[i].at = all[j].at /\ i < j))
        = [n \in 1..Cardinality(D) |->
             CHOOSE i \in D :
               Cardinality({j \in D : all[j].at < all[i].at \/ (all[j].at = all[i].at /\ j < i)}) = n - 1]
  BY DEF Ranked
<1>5. \A i, j \in D : <<i, j>> \in R <=> all[i].at < all[j].at \/ (all[i].at = all[j].at /\ i < j)
  <2> SUFFICES ASSUME NEW i \in D, NEW j \in D
               PROVE  <<i, j>> \in R <=> all[i].at < all[j].at \/ (all[i].at = all[j].at /\ i < j)
    OBVIOUS
  <2> QED
    BY SoonerIs
<1>6. \A i \in D : Before(D, R, i)
        = {j \in D : all[j].at < all[i].at \/ (all[j].at = all[i].at /\ j < i)}
  BY <1>5 DEF Before
<1>7. \A i \in D : i \in Nat /\ all[i].at \in Nat /\ all[i].rec \in Records
  <2> HIDE DEF all, D
  <2>1. \A i \in D : all[i] \in Instant
    BY <1>1, <1>2
  <2> QED
    BY <1>2, <2>1 DEF Instant
<1> HIDE DEF D, R, all
<1>8. Ranked(D, LAMBDA i, j : all[i].at < all[j].at \/ (all[i].at = all[j].at /\ i < j)) = f
  BY <1>4, <1>6 DEF InOrder
<1>9. Orders(R, D)
  BY <1>5, <1>7 DEF Orders
<1>10. /\ f \in Bijection(1..Len(all), D)
       /\ \A m, n \in 1..Len(all) : m < n => <<f[m], f[n]>> \in R
  BY <1>2, <1>9, RankIs
<1>11. DOMAIN f = 1..Len(all) /\ \A n \in 1..Len(all) : f[n] \in D
  BY <1>10 DEF Bijection, Injection
<1>12. Order(table, hashes, sid) = [n \in 1..Len(all) |-> all[f[n]].rec]
  BY <1>3, <1>8, <1>11
<1>13. \A n \in 1..Len(all) : all[f[n]].rec \in Records
  BY <1>7, <1>11
<1>14. /\ Order(table, hashes, sid) \in Seq(Records)
       /\ Len(Order(table, hashes, sid)) = Len(all)
       /\ \A n \in 1..Len(all) : Order(table, hashes, sid)[n] = all[f[n]].rec
  <2> HIDE DEF f
  <2> QED
    BY <1>2, <1>12, <1>13
<1> HIDE DEF f
<1> QED
  BY <1>1, <1>2, <1>10, <1>14 DEF all, R

LEMMA HeldIs ==
  ASSUME NEW table \in Tables, NEW hashes, NEW sid, NEW z
  PROVE  z \in Held(table, hashes, sid)
           <=> /\ z \in DirsOf(table, hashes, sid) \X Nat
               /\ z[2] \in 1..Len(table[z[1]].recs)
<1> DEFINE S == DirsOf(table, hashes, sid)
           K == {j \in Listed(table, hashes) : Sid[j] = sid}
<1>1. \A k \in S : table[k].recs \in Seq(Records)
  BY SessionsForIs
<1>2. \A k \in S : DOMAIN table[k].recs = 1..Len(table[k].recs) /\ Len(table[k].recs) \in Nat
  BY <1>1
<1>3. \A k : k \in K <=> k \in S /\ table[k].recs # <<>>
  BY DEF DirsOf, Listed
<1>4. z \in Held(table, hashes, sid) <=> \E k \in K : z \in {k} \X DOMAIN table[k].recs
  BY DEF Held
<1> HIDE DEF S, K
<1>5. ASSUME NEW k \in K, z \in {k} \X DOMAIN table[k].recs
      PROVE  z \in S \X Nat /\ z[2] \in 1..Len(table[z[1]].recs)
  <2>1. k \in S /\ DOMAIN table[k].recs = 1..Len(table[k].recs)
    BY <1>2, <1>3
  <2>2. z[1] = k /\ z[2] \in 1..Len(table[k].recs) /\ z = <<k, z[2]>>
    BY <1>5, <2>1
  <2>3. z[2] \in Nat
    BY <1>2, <2>1, <2>2
  <2> QED
    BY <2>1, <2>2, <2>3
<1>6. ASSUME z \in S \X Nat, z[2] \in 1..Len(table[z[1]].recs)
      PROVE  \E k \in K : z \in {k} \X DOMAIN table[k].recs
  <2>1. z[1] \in S /\ z = <<z[1], z[2]>>
    BY <1>6
  <2>2. z[2] \in DOMAIN table[z[1]].recs /\ z[2] \in 1..Len(table[z[1]].recs)
    BY <1>2, <1>6, <2>1
  <2>3. table[z[1]].recs # <<>>
    BY <2>2
  <2>4. z[1] \in K
    BY <1>3, <2>1, <2>3
  <2> QED
    BY <2>1, <2>2, <2>4
<1> QED
  BY <1>4, <1>5, <1>6 DEF S

\* The positions of the concatenation are the records of the session.
LEMMA AllIsHeld ==
  ASSUME NEW table \in Tables, NEW hashes, NEW sid
  PROVE  LET all == AllOf(table, hashes, sid)
         IN  \E d \in Bijection(1..Len(all), Held(table, hashes, sid)) :
               \A p \in 1..Len(all) :
                 /\ all[p] = Instants(table[d[p][1]].recs)[d[p][2]]
                 /\ all[p].rec = table[d[p][1]].recs[d[p][2]]
<1> DEFINE s == InstantsOf(table, hashes, sid)
           mine == SessionsFor(table, hashes, sid)
           S == DirsOf(table, hashes, sid)
           all == AllOf(table, hashes, sid)
           L == Len(all)
           H == Held(table, hashes, sid)
<1>1. /\ s \in Seq(Seq(Instant)) /\ Len(s) = Cardinality(S)
      /\ \A i \in 1..Len(s) : /\ mine[i] \in S /\ s[i] = Instants(table[mine[i]].recs)
                              /\ Len(s[i]) = Len(table[mine[i]].recs)
                              /\ \A j \in 1..Len(s[i]) : s[i][j].rec = table[mine[i]].recs[j]
  <2>1. /\ s \in Seq(Seq(Instant)) /\ Len(s) = Cardinality(S)
        /\ \A i \in 1..Len(s) : mine[i] \in S /\ s[i] = Instants(table[mine[i]].recs)
                                /\ TimesOf(s[i], table[mine[i]].recs)
    BY InstantsOfIs
  <2> HIDE DEF s, mine, S
  <2> QED
    BY <2>1 DEF TimesOf
<1>2. mine \in Bijection(1..Len(s), S)
  BY <1>1, SessionsForIs
<1>3. PICK g : Located(all, s, Len(s), g)
  BY <1>1, FlattenLocates DEF AllOf
<1> DEFINE P == Places(s, Len(s))
           d == [p \in 1..L |-> <<mine[g[p][1]], g[p][2]>>]
<1>4. \A q \in P : /\ q[1] \in 1..Len(s) /\ q[2] \in Nat /\ q[2] \in 1..Len(s[q[1]])
                   /\ q = <<q[1], q[2]>>
  BY DEF Places
<1>p. \A b \in 1..Len(s) : \A j \in Nat : j \in 1..Len(s[b]) => <<b, j>> \in P
  BY DEF Places
<1>5. /\ g \in [1..L -> P]
      /\ \A p, r \in 1..L : g[p] = g[r] => p = r
      /\ \A q \in P : \E p \in 1..L : g[p] = q
      /\ \A p \in 1..L : all[p] = s[g[p][1]][g[p][2]]
  BY <1>3 DEF Located, Bijection, Injection, Surjection, IsInjective
<1>6. /\ \A b, c \in 1..Len(s) : mine[b] = mine[c] => b = c
      /\ \A k \in S : \E b \in 1..Len(s) : mine[b] = k
  BY <1>2 DEF Bijection, Injection, Surjection, IsInjective
<1>7. \A z : z \in H <=> z \in S \X Nat /\ z[2] \in 1..Len(table[z[1]].recs)
  BY HeldIs
<1>8. \A p \in 1..L : d[p] = <<mine[g[p][1]], g[p][2]>>
  OBVIOUS
<1>f. d = [p \in 1..L |-> d[p]]
  OBVIOUS
<1> HIDE DEF s, mine, S, all, L, H, P, d
<1>9. ASSUME NEW p \in 1..L
      PROVE  /\ d[p] \in H /\ d[p][1] = mine[g[p][1]] /\ d[p][2] = g[p][2]
             /\ all[p] = Instants(table[d[p][1]].recs)[d[p][2]]
             /\ all[p].rec = table[d[p][1]].recs[d[p][2]]
  <2> DEFINE q == g[p]
  <2>1. q \in P
    BY <1>5
  <2> HIDE DEF q
  <2>2. q[1] \in 1..Len(s) /\ q[2] \in Nat /\ q[2] \in 1..Len(s[q[1]]) /\ mine[q[1]] \in S
    BY <1>1, <1>4, <2>1
  <2>3. d[p] = <<mine[q[1]], q[2]>>
    BY <1>8 DEF q
  <2>4. d[p][1] = mine[q[1]] /\ d[p][2] = q[2] /\ d[p] \in S \X Nat
    BY <2>2, <2>3
  <2>5. d[p][2] \in 1..Len(table[d[p][1]].recs)
    BY <1>1, <2>2, <2>4
  <2>6. all[p] = s[q[1]][q[2]]
    BY <1>5 DEF q
  <2>7. /\ all[p].rec = table[mine[q[1]]].recs[q[2]]
        /\ all[p] = Instants(table[mine[q[1]]].recs)[q[2]]
    BY <1>1, <2>2, <2>6
  <2> QED
    BY <1>7, <2>4, <2>5, <2>7 DEF q
<1>10. ASSUME NEW p \in 1..L, NEW r \in 1..L, d[p] = d[r] PROVE p = r
  <2>1. g[p] \in P /\ g[r] \in P
    BY <1>5
  <2>2. mine[g[p][1]] = mine[g[r][1]] /\ g[p][2] = g[r][2]
    BY <1>9, <1>10
  <2>3. g[p][1] = g[r][1]
    BY <1>4, <1>6, <2>1, <2>2
  <2>4. g[p] = g[r]
    BY <1>4, <2>1, <2>2, <2>3
  <2> QED
    BY <1>5, <2>4
<1>11. ASSUME NEW z \in H PROVE \E p \in 1..L : d[p] = z
  <2>1. z[1] \in S /\ z[2] \in Nat /\ z = <<z[1], z[2]>> /\ z[2] \in 1..Len(table[z[1]].recs)
    BY <1>7
  <2>2. PICK b \in 1..Len(s) : mine[b] = z[1]
    BY <1>6, <2>1
  <2>3. <<b, z[2]>> \in P
    BY <1>1, <1>p, <2>1, <2>2
  <2>4. PICK p \in 1..L : g[p] = <<b, z[2]>>
    BY <1>5, <2>3
  <2>5. d[p] = <<mine[b], z[2]>>
    BY <1>8, <2>4
  <2> QED
    BY <2>1, <2>2, <2>5
<1>12. d \in [1..L -> H]
  BY <1>9, <1>f
<1>13. d \in Bijection(1..L, H)
  BY <1>10, <1>11, <1>12 DEF Bijection, Injection, Surjection, IsInjective
<1> QED
  BY <1>9, <1>13 DEF all, L, H

\* When a record of a table counts as started, as the stream orders them.
InstantAt(table, z) == Instants(table[z[1]].recs)[z[2]].at

\* What a session is served as is every record of its directories, each in one place, by
\* their instants; and they are as many as the list says (SessionStream._order,
\* merge_sessions), for every table the index can be.
THEOREM OrderIsSession ==
  ASSUME NEW table \in Tables, NEW hashes, NEW sid
  PROVE  LET order == Order(table, hashes, sid)
         IN  /\ order \in Seq(Records)
             /\ \E h \in Bijection(1..Len(order), Held(table, hashes, sid)) :
                  /\ \A n \in 1..Len(order) : order[n] = table[h[n][1]].recs[h[n][2]]
                  /\ \A m, n \in 1..Len(order) :
                       m < n => InstantAt(table, h[m]) <= InstantAt(table, h[n])
             /\ sid \in DOMAIN MergeSessions(table, hashes)
                  => MergeSessions(table, hashes)[sid] = Len(order)
<1> DEFINE order == Order(table, hashes, sid)
           all == AllOf(table, hashes, sid)
           L == Len(all)
           H == Held(table, hashes, sid)
<1>1. all \in Seq(Instant) /\ order \in Seq(Records) /\ Len(order) = L
  BY OrderIs
<1>2. PICK f \in Bijection(1..L, 1..L) :
        /\ \A n \in 1..L : order[n] = all[f[n]].rec
        /\ \A m, n \in 1..L : m < n => <<f[m], f[n]>> \in Sooner(all, DOMAIN all)
  BY OrderIs
<1>3. PICK d \in Bijection(1..L, H) :
        \A p \in 1..L : /\ all[p] = Instants(table[d[p][1]].recs)[d[p][2]]
                        /\ all[p].rec = table[d[p][1]].recs[d[p][2]]
  BY AllIsHeld
<1> DEFINE h == [n \in 1..L |-> d[f[n]]]
<1> HIDE DEF order, all, L, H
<1>4. /\ f \in [1..L -> 1..L] /\ \A m, n \in 1..L : f[m] = f[n] => m = n
      /\ \A p \in 1..L : \E n \in 1..L : f[n] = p
  BY <1>2 DEF Bijection, Injection, Surjection, IsInjective
<1>5. /\ d \in [1..L -> H] /\ \A m, n \in 1..L : d[m] = d[n] => m = n
      /\ \A z \in H : \E p \in 1..L : d[p] = z
  BY <1>3 DEF Bijection, Injection, Surjection, IsInjective
<1>6. h \in Bijection(1..L, H)
  <2>1. h \in [1..L -> H]
    BY <1>4, <1>5
  <2>2. \A m, n \in 1..L : h[m] = h[n] => m = n
    BY <1>4, <1>5
  <2>3. \A z \in H : \E n \in 1..L : h[n] = z
    BY <1>4, <1>5
  <2> HIDE DEF h
  <2> QED
    BY <2>1, <2>2, <2>3 DEF Bijection, Injection, Surjection, IsInjective
<1>7. ASSUME NEW n \in 1..L
      PROVE  /\ order[n] = table[h[n][1]].recs[h[n][2]]
             /\ f[n] \in 1..L /\ all[f[n]].at = InstantAt(table, h[n])
  BY <1>2, <1>3, <1>4 DEF InstantAt
<1>8. ASSUME NEW m \in 1..L, NEW n \in 1..L, m < n
      PROVE  InstantAt(table, h[m]) <= InstantAt(table, h[n])
  <2>1. f[m] \in DOMAIN all /\ f[n] \in DOMAIN all
    BY <1>1, <1>7 DEF L
  <2> DEFINE i == f[m]
             j == f[n]
  <2>s. <<i, j>> \in Sooner(all, DOMAIN all)
    BY <1>2, <1>8
  <2>t. i \in 1..Len(all) /\ j \in 1..Len(all)
    BY <1>7 DEF L
  <2> HIDE DEF i, j
  <2>u. all[i] \in Instant /\ all[j] \in Instant
    BY <1>1, <2>t
  <2>2. all[f[m]].at \in Nat /\ all[f[n]].at \in Nat
    BY <2>u DEF Instant, i, j
  <2>3. all[f[m]].at < all[f[n]].at \/ all[f[m]].at = all[f[n]].at
    <3>1. i \in DOMAIN all /\ j \in DOMAIN all
      BY <2>1 DEF i, j
    <3>2. all[i].at < all[j].at \/ (all[i].at = all[j].at /\ i < j)
      BY <2>s, <3>1, SoonerIs
    <3> QED
      BY <3>2 DEF i, j
  <2> QED
    BY <1>7, <2>2, <2>3
<1>9. sid \in DOMAIN MergeSessions(table, hashes) => MergeSessions(table, hashes)[sid] = L
  <2>1. L \in Nat
    BY <1>1 DEF L
  <2>2. IsFiniteSet(1..L) /\ Cardinality(1..L) = L
    BY <2>1, FS_Interval
  <2>3. ExistsBijection(1..L, H)
    BY <1>6 DEF ExistsBijection
  <2>4. Cardinality(H) = L
    BY <2>2, <2>3, FS_Bijection
  <2> QED
    BY <2>4, MergeIs DEF H
<1> HIDE DEF h
<1>10. /\ \A n \in 1..L : order[n] = table[h[n][1]].recs[h[n][2]]
       /\ \A m, n \in 1..L : m < n => InstantAt(table, h[m]) <= InstantAt(table, h[n])
  BY <1>7, <1>8
<1> QED
  BY <1>1, <1>6, <1>9, <1>10 DEF order, H

-----------------------------------------------------------------------------
(* The stream of a session, in batches.                                    *)

\* Division by the size of a batch.
LEMMA Divided ==
  ASSUME NEW n \in Nat
  PROVE  n \div Batch \in Nat /\ (n \div Batch) * Batch <= n /\ n < (n \div Batch) * Batch + Batch
<1>0. Batch \in Nat /\ Batch > 0
  BY SessionListsAssumption
<1>1. n \div Batch \in Int /\ (n \div Batch) * Batch <= n /\ n < (n \div Batch) * Batch + Batch
  BY <1>0
<1>2. n \div Batch >= 0
  BY <1>0
<1> QED
  BY <1>1, <1>2

LEMMA Scaled ==
  ASSUME NEW a \in Nat, NEW b \in Nat
  PROVE  /\ a * Batch \in Nat /\ b * Batch \in Nat
         /\ a <= b => a * Batch <= b * Batch
         /\ (a + 1) * Batch = a * Batch + Batch
<1>0. Batch \in Nat /\ Batch > 0
  BY SessionListsAssumption
<1> QED
  BY <1>0

\* Division rounds up to enough batches.
LEMMA EnoughBatches ==
  ASSUME NEW total \in Nat, NEW b \in Nat \ {0}, (b - 1) * Batch < total
  PROVE  b <= (total + Batch - 1) \div Batch
<1> DEFINE D == (total + Batch - 1) \div Batch
<1>0. Batch \in Nat /\ Batch > 0
  BY SessionListsAssumption
<1>1. D \in Int /\ total + Batch - 1 < D * Batch + Batch
  BY <1>0
<1> HIDE DEF D
<1>2. SUFFICES ASSUME D < b PROVE FALSE
  BY <1>1 DEF D
<1>3. D <= b - 1
  BY <1>1, <1>2
<1>4. D * Batch <= (b - 1) * Batch
  BY <1>0, <1>1, <1>3
<1> QED
  BY <1>0, <1>1, <1>4

LEMMA MinOf ==
  ASSUME NEW a \in Int, NEW b \in Int
  PROVE  Min({a, b}) = IF a <= b THEN a ELSE b
<1> DEFINE m == IF a <= b THEN a ELSE b
<1>1. m \in {a, b} /\ \A t \in {a, b} : m <= t
  OBVIOUS
<1>2. \A k \in {a, b} : (\A t \in {a, b} : k <= t) => k = m
  OBVIOUS
<1> HIDE DEF m
<1> QED
  BY <1>1, <1>2 DEF Min

\* Where batch b of a stream from position `from` on ends.
EndOf(order, from, b) == Min({from + b * Batch, Len(order)})

LEMMA EndOfIs ==
  ASSUME NEW X, NEW order \in Seq(X), NEW from \in 0..Len(order), NEW b \in Nat
  PROVE  /\ EndOf(order, from, b) \in from..Len(order)
         /\ EndOf(order, from, b) <= from + b * Batch
         /\ EndOf(order, from, 0) = from
         /\ from + b * Batch <= Len(order) => EndOf(order, from, b) = from + b * Batch
         /\ from + b * Batch >= Len(order) => EndOf(order, from, b) = Len(order)
<1>1. Batch \in Nat /\ b * Batch \in Nat /\ 0 * Batch = 0
  BY SessionListsAssumption
<1>2. Len(order) \in Nat /\ from \in Nat /\ from <= Len(order)
  OBVIOUS
<1>3. EndOf(order, from, b) = IF from + b * Batch <= Len(order) THEN from + b * Batch ELSE Len(order)
  <2>1. from + b * Batch \in Int /\ Len(order) \in Int
    BY <1>1, <1>2
  <2> QED
    BY <2>1, MinOf DEF EndOf
<1>4. EndOf(order, from, 0) = from
  <2>1. from + 0 * Batch = from /\ from \in Int /\ Len(order) \in Int
    BY <1>1, <1>2
  <2>2. Min({from, Len(order)}) = from
    BY <1>2, <2>1, MinOf
  <2> QED
    BY <2>1, <2>2 DEF EndOf
<1> QED
  BY <1>1, <1>2, <1>3, <1>4

\* A stream of D batches reaches the end of the order and no batch starts behind it.
Batches(order, from, D) ==
  /\ DOMAIN Stream(order, from) = 1..D
  /\ D = 0 => from = Len(order)
  /\ EndOf(order, from, D) = Len(order)
  /\ \A b \in Nat : b * Batch < Len(order) - from => b + 1 <= D
  /\ \A b \in 1..D :
       /\ from + (b - 1) * Batch < Len(order)
       /\ Stream(order, from)[b].records
            = SubSeq(order, from + (b - 1) * Batch + 1, EndOf(order, from, b))
       /\ Stream(order, from)[b].blobs
            = Referenced(order, from + (b - 1) * Batch + 1, EndOf(order, from, b))
              \ (AlreadySent(order, from) \cup Referenced(order, from + 1, from + (b - 1) * Batch))

LEMMA StreamIs ==
  ASSUME NEW X, NEW order \in Seq(X), NEW from \in 0..Len(order)
  PROVE  \E D \in Nat : Batches(order, from, D)
<1> DEFINE total == IF from < Len(order) THEN Len(order) - from ELSE 0
           D == (total + Batch - 1) \div Batch
<1>0. Batch \in Nat /\ Batch > 0
  BY SessionListsAssumption
<1>1. Len(order) \in Nat /\ from \in Nat /\ from <= Len(order) /\ total = Len(order) - from /\ total \in Nat
  OBVIOUS
<1>2. D \in Nat /\ D * Batch <= total + Batch - 1 /\ total + Batch - 1 < D * Batch + Batch
  <2>1. total + Batch - 1 \in Nat
    BY <1>0, <1>1
  <2> HIDE DEF total
  <2> QED
    BY <2>1, Divided
<1>3. DOMAIN Stream(order, from) = 1..D
  BY DEF Stream
<1>4. ASSUME NEW b \in 1..D
      PROVE  /\ Stream(order, from)[b].records
                  = SubSeq(order, from + (b - 1) * Batch + 1, EndOf(order, from, b))
             /\ Stream(order, from)[b].blobs
                  = Referenced(order, from + (b - 1) * Batch + 1, EndOf(order, from, b))
                    \ (AlreadySent(order, from)
                       \cup Referenced(order, from + 1, (from + (b - 1) * Batch + 1) - 1))
  BY <1>4 DEF Stream, EndOf
<1> HIDE DEF total, D
<1>5. ASSUME NEW b \in 1..D PROVE (b - 1) * Batch < total /\ (b - 1) * Batch \in Nat
  <2>1. b - 1 \in Nat /\ b \in Nat /\ b <= D /\ (b - 1) + 1 = b
    BY <1>2
  <2>2. (b - 1) * Batch + Batch = b * Batch /\ (b - 1) * Batch \in Nat /\ b * Batch <= D * Batch
    BY <1>2, <2>1, Scaled
  <2>3. D * Batch \in Nat
    BY <1>2, Scaled
  <2> QED
    BY <1>0, <1>1, <1>2, <2>1, <2>2, <2>3
<1>6. ASSUME NEW b \in Nat, b * Batch < total PROVE b + 1 <= D
  <2>1. b + 1 \in Nat \ {0} /\ (b + 1) - 1 = b
    OBVIOUS
  <2> QED
    BY <1>1, <1>6, <2>1, EnoughBatches DEF D
<1>7. D * Batch >= total /\ (D = 0 => total = 0)
  <2>1. D * Batch \in Nat /\ 0 * Batch = 0
    BY <1>0, <1>2, Scaled
  <2> QED
    BY <1>0, <1>1, <1>2, <2>1
<1>9. EndOf(order, from, D) = Len(order)
  <2>1. D * Batch \in Nat
    BY <1>0, <1>2
  <2>2. from + D * Batch >= Len(order)
    BY <1>1, <1>7, <2>1
  <2> QED
    BY <1>2, <2>2, EndOfIs
<1>10. ASSUME NEW b \in 1..D
       PROVE  from + (b - 1) * Batch < Len(order) /\ (from + (b - 1) * Batch + 1) - 1 = from + (b - 1) * Batch
  BY <1>1, <1>5
<1>11. D \in Nat /\ (D = 0 => from = Len(order))
  BY <1>1, <1>2, <1>7
<1>12. \A b \in Nat : b * Batch < Len(order) - from => b + 1 <= D
  BY <1>1, <1>6
<1>13. \A b \in 1..D :
         /\ from + (b - 1) * Batch < Len(order)
         /\ Stream(order, from)[b].records
              = SubSeq(order, from + (b - 1) * Batch + 1, EndOf(order, from, b))
         /\ Stream(order, from)[b].blobs
              = Referenced(order, from + (b - 1) * Batch + 1, EndOf(order, from, b))
                \ (AlreadySent(order, from) \cup Referenced(order, from + 1, from + (b - 1) * Batch))
  <2> TAKE b \in 1..D
  <2> QED
    BY <1>4, <1>10
<1> QED
  BY <1>3, <1>9, <1>11, <1>12, <1>13, Zenon DEF Batches

\* The batches put together are the rest of the order.
LEMMA AnswerIsRest ==
  ASSUME NEW X, NEW order \in Seq(X), NEW from \in 0..Len(order)
  PROVE  Answer(order, from).records = SubSeq(order, from + 1, Len(order))
<1> DEFINE s == [b \in DOMAIN Stream(order, from) |-> Stream(order, from)[b].records]
           N == Len(order)
<1>1. PICK D \in Nat : Batches(order, from, D)
  BY StreamIs
<1>2. N \in Nat /\ from \in Nat /\ from <= N
  OBVIOUS
<1>3. /\ Answer(order, from).records = FlattenSeq(s)
      /\ DOMAIN s = 1..D
      /\ \A b \in 1..D : s[b] = SubSeq(order, from + (b - 1) * Batch + 1, EndOf(order, from, b))
  BY <1>1 DEF Answer, Batches
<1>s. s \in Seq({s[b] : b \in 1..D}) /\ Len(s) = D
  <2>1. s = [b \in 1..D |-> s[b]]
    BY <1>1 DEF Batches
  <2>2. \A b \in 1..D : s[b] \in {s[c] : c \in 1..D}
    OBVIOUS
  <2> DEFINE Y == {s[b] : b \in 1..D}
  <2> HIDE DEF s
  <2>3. s \in [1..D -> Y]
    BY <2>1, <2>2
  <2>4. D \in Nat
    BY <1>1
  <2> HIDE DEF Y
  <2>5. s \in Seq(Y) /\ Len(s) = D
    BY <2>3, <2>4
  <2> QED
    BY <2>5 DEF Y
<1>d. D \in Nat /\ EndOf(order, from, D) = N /\ (D = 0 => from = N)
  BY <1>1 DEF Batches
<1> HIDE DEF s, N
<1>4. ASSUME NEW b \in 1..D
      PROVE  /\ b \in Nat /\ b - 1 \in Nat /\ (b - 1) * Batch \in Nat /\ b * Batch = (b - 1) * Batch + Batch
             /\ EndOf(order, from, b) \in from..N
             /\ EndOf(order, from, b - 1) = from + (b - 1) * Batch
             /\ from + (b - 1) * Batch + 1 \in 1..N
             /\ EndOf(order, from, b - 1) <= EndOf(order, from, b)
  <2>1. b \in Nat /\ b - 1 \in Nat /\ (b - 1) + 1 = b
    BY <1>d
  <2>2. (b - 1) * Batch \in Nat /\ b * Batch = (b - 1) * Batch + Batch /\ b * Batch \in Nat
    BY <2>1, Scaled
  <2>3. from + (b - 1) * Batch < N
    BY <1>1 DEF Batches, N
  <2>4. EndOf(order, from, b - 1) = from + (b - 1) * Batch
    BY <1>2, <2>1, <2>2, <2>3, EndOfIs DEF N
  <2>5. /\ EndOf(order, from, b) \in from..N
        /\ from + b * Batch <= N => EndOf(order, from, b) = from + b * Batch
        /\ from + b * Batch >= N => EndOf(order, from, b) = N
    <3>1. EndOf(order, from, b) \in from..Len(order)
      BY <2>1, EndOfIs
    <3>2. from + b * Batch <= Len(order) => EndOf(order, from, b) = from + b * Batch
      BY <2>1, EndOfIs
    <3>3. from + b * Batch >= Len(order) => EndOf(order, from, b) = Len(order)
      BY <2>1, EndOfIs
    <3> QED
      BY <3>1, <3>2, <3>3 DEF N
  <2>6. Batch \in Nat
    BY SessionListsAssumption
  <2>7. EndOf(order, from, b - 1) <= EndOf(order, from, b)
    BY <1>2, <2>2, <2>3, <2>4, <2>5, <2>6
  <2>8. from + (b - 1) * Batch + 1 \in 1..N
    BY <1>2, <2>2, <2>3
  <2> QED
    BY <2>1, <2>2, <2>4, <2>5, <2>7, <2>8
<1>5. ASSUME NEW b \in 1..D PROVE s[b] \in Seq(X)
  <2>1. s[b] = SubSeq(order, from + (b - 1) * Batch + 1, EndOf(order, from, b))
    BY <1>3
  <2>2. \A i \in from + (b - 1) * Batch + 1..EndOf(order, from, b) : i \in 1..Len(order) /\ order[i] \in X
    BY <1>2, <1>4 DEF N
  <2>3. from + (b - 1) * Batch + 1 \in Int /\ EndOf(order, from, b) \in Int
    BY <1>2, <1>4
  <2> QED
    BY <2>1, <2>2, <2>3, SubSeqProperties
<1>6. CASE D = 0
  <2>1. Len(s) = 0
    BY <1>s, <1>6
  <2>2. FlattenSeq(s) = s
    BY <2>1, Zenon DEF FlattenSeq
  <2>3. s = <<>>
    BY <1>s, <2>1
  <2>4. SubSeq(order, from + 1, N) = <<>>
    BY <1>2, <1>d, <1>6, SubSeqEmpty
  <2> QED
    BY <1>3, <2>2, <2>3, <2>4 DEF N
<1>7. CASE D # 0
  <2> DEFINE J == Joined(s, D)
             T == {i \in Nat : i \in 1..D => J[i] = SubSeq(order, from + 1, EndOf(order, from, i))}
  <2>1. \A i \in 1..D : J[i] = IF i = 1 THEN s[i] ELSE J[i-1] \o s[i]
    <3>1. \A b \in 1..D : s[b] \in Seq(X)
      BY <1>5
    <3>2. D \in Nat
      BY <1>d
    <3> QED
      BY <3>1, <3>2, JoinedIs
  <2> HIDE DEF J
  <2>2. 0 \in T
    OBVIOUS
  <2>3. ASSUME NEW i \in Nat, i \in T PROVE i + 1 \in T
    <3> SUFFICES ASSUME i + 1 \in 1..D
                 PROVE  J[i + 1] = SubSeq(order, from + 1, EndOf(order, from, i + 1))
      OBVIOUS
    <3>0. (i + 1) - 1 = i
      OBVIOUS
    <3>1. J[i + 1] = IF i + 1 = 1 THEN s[i + 1] ELSE J[i] \o s[i + 1]
      <4>1. J[i + 1] = IF i + 1 = 1 THEN s[i + 1] ELSE J[(i + 1) - 1] \o s[i + 1]
        BY <2>1
      <4> QED
        BY <3>0, <4>1
    <3>2. s[i + 1] = SubSeq(order, from + i * Batch + 1, EndOf(order, from, i + 1))
      BY <1>3, <3>0
    <3>3. /\ EndOf(order, from, i) = from + i * Batch /\ from + i * Batch \in Nat
          /\ from + i * Batch + 1 \in 1..N
          /\ EndOf(order, from, i + 1) \in from..N
          /\ EndOf(order, from, i) <= EndOf(order, from, i + 1)
          /\ i * Batch \in Nat
      <4> DEFINE c == i + 1
      <4>1. c \in 1..D /\ c - 1 = i
        BY <3>0
      <4> HIDE DEF c
      <4>2. /\ (c - 1) * Batch \in Nat
            /\ EndOf(order, from, c) \in from..N
            /\ EndOf(order, from, c - 1) = from + (c - 1) * Batch
            /\ from + (c - 1) * Batch + 1 \in 1..N
            /\ EndOf(order, from, c - 1) <= EndOf(order, from, c)
        BY <1>4, <4>1
      <4>3. /\ i * Batch \in Nat
            /\ EndOf(order, from, i) = from + i * Batch
            /\ from + i * Batch + 1 \in 1..N
            /\ EndOf(order, from, i) <= EndOf(order, from, c)
        BY <4>1, <4>2
      <4>4. from + i * Batch \in Nat
        BY <1>2, <4>3
      <4> QED
        BY <4>2, <4>3, <4>4 DEF c
    <3>4. CASE i = 0
      <4>1. from + 0 * Batch = from
        BY <1>2, SessionListsAssumption
      <4>2. J[i + 1] = s[i + 1] /\ i * Batch = 0 * Batch
        BY <3>1, <3>4
      <4> QED
        BY <3>2, <4>1, <4>2
    <3>5. CASE i # 0
      <4>1. i \in 1..D
        BY <3>5
      <4>2. J[i] = SubSeq(order, from + 1, from + i * Batch)
        BY <2>3, <3>3, <4>1
      <4>3. from + 1 \in 1..N + 1 /\ from + i * Batch \in (from + 1) - 1..N
            /\ EndOf(order, from, i + 1) \in from + i * Batch..N
        <5>1. from + i * Batch >= from
          BY <1>2, <3>3
        <5> QED
          BY <1>2, <3>3, <5>1
      <4>4. SubSeq(order, from + 1, from + i * Batch) \o s[i + 1]
              = SubSeq(order, from + 1, EndOf(order, from, i + 1))
        BY <3>2, <4>3, ConcatAdjacentSubSeq DEF N
      <4>5. J[i + 1] = J[i] \o s[i + 1]
        <5>1. i + 1 # 1
          BY <3>5
        <5> QED
          BY <3>1, <5>1
      <4> QED
        BY <4>2, <4>4, <4>5
    <3> QED
      BY <3>4, <3>5
  <2>4. Nat \subseteq T
    <3> HIDE DEF T
    <3> QED
      BY <2>2, <2>3, AllNumbers
  <2>5. J[D] = SubSeq(order, from + 1, EndOf(order, from, D))
    BY <1>7, <1>d, <2>4
  <2>6. FlattenSeq(s) = J[D]
    BY <1>s, <1>7, FlattenIs DEF J
  <2> QED
    BY <1>3, <1>d, <2>5, <2>6 DEF N
<1> QED
  BY <1>6, <1>7

\* Every blob of the rest is in the answer, or was sent with the record before it.
LEMMA AnswerHasBlobs ==
  ASSUME NEW X, NEW order \in Seq(X), NEW from \in 0..Len(order),
         NEW j \in from + 1..Len(order)
  PROVE  Refs[order[j]] \subseteq AlreadySent(order, from) \cup Answer(order, from).blobs
<1> DEFINE N == Len(order)
<1> SUFFICES ASSUME NEW x \in Refs[order[j]], x \notin AlreadySent(order, from)
             PROVE  x \in Answer(order, from).blobs
  OBVIOUS
<1>1. PICK D \in Nat : Batches(order, from, D)
  BY StreamIs
<1>2. N \in Nat /\ from \in Nat /\ from <= N
  OBVIOUS
<1>3. PICK i \in from + 1..N : /\ x \in Refs[order[i]]
                               /\ \A k \in from + 1..N : x \in Refs[order[k]] => i <= k
  <2> DEFINE I == {k \in from + 1..N : x \in Refs[order[k]]}
  <2>1. I \in SUBSET Nat /\ j \in I
    BY <1>2
  <2> HIDE DEF I
  <2>2. PICK m \in I : \A n \in I : m <= n
    BY <2>1, Least
  <2> QED
    BY <2>2 DEF I
<1>4. PICK b \in Nat : from + b * Batch >= i /\ \A c \in Nat : from + c * Batch >= i => b <= c
  <2> DEFINE B == {c \in Nat : from + c * Batch >= i}
  <2>1. i \in Nat /\ i * Batch >= i
    <3>1. Batch \in Nat /\ Batch > 0
      BY SessionListsAssumption
    <3> QED
      BY <1>2, <3>1
  <2>2. B \in SUBSET Nat /\ i \in B
    <3>1. i * Batch \in Nat
      BY <2>1, Scaled
    <3> QED
      BY <1>2, <2>1, <3>1
  <2> HIDE DEF B
  <2>3. PICK m \in B : \A n \in B : m <= n
    BY <2>2, Least
  <2> QED
    BY <2>3 DEF B
<1> HIDE DEF N
<1>5. b - 1 \in Nat /\ (b - 1) + 1 = b /\ from + (b - 1) * Batch < i /\ (b - 1) * Batch \in Nat
  <2>1. b # 0
    <3>1. 0 * Batch = 0
      BY SessionListsAssumption
    <3> QED
      BY <1>2, <1>3, <1>4, <3>1
  <2>2. b - 1 \in Nat /\ ~ (b <= b - 1) /\ (b - 1) + 1 = b
    BY <1>4, <2>1
  <2>3. (b - 1) * Batch \in Nat
    BY <2>2, Scaled
  <2>4. ~ (from + (b - 1) * Batch >= i)
    BY <1>4, <2>2
  <2> QED
    BY <1>2, <1>3, <2>2, <2>3, <2>4
<1>6. b \in 1..D
  <2>1. (b - 1) * Batch < N - from
    BY <1>2, <1>3, <1>5
  <2>2. (b - 1) + 1 <= D
    BY <1>1, <1>5, <2>1 DEF Batches, N
  <2> QED
    BY <1>1, <1>4, <1>5, <2>2
<1>7. i \in from + (b - 1) * Batch + 1..EndOf(order, from, b)
  <2>1. b * Batch \in Nat
    BY <1>4, Scaled
  <2>2. EndOf(order, from, b) \in from..N
    BY <1>4, EndOfIs DEF N
  <2>3. from + b * Batch <= N => EndOf(order, from, b) = from + b * Batch
    BY <1>4, EndOfIs DEF N
  <2>4. from + b * Batch >= N => EndOf(order, from, b) = N
    BY <1>4, EndOfIs DEF N
  <2>5. i <= EndOf(order, from, b)
    BY <1>2, <1>3, <1>4, <2>1, <2>2, <2>3, <2>4
  <2> QED
    BY <1>2, <1>3, <1>5, <2>2, <2>5
<1>8. x \in Stream(order, from)[b].blobs
  <2> DEFINE mine == Referenced(order, from + (b - 1) * Batch + 1, EndOf(order, from, b))
             past == Referenced(order, from + 1, from + (b - 1) * Batch)
  <2>1. Stream(order, from)[b].blobs = mine \ (AlreadySent(order, from) \cup past)
    BY <1>1, <1>6 DEF Batches
  <2>2. \A k \in from + 1..from + (b - 1) * Batch : k \in from + 1..N /\ ~ (i <= k)
    BY <1>2, <1>3, <1>5
  <2>3. x \notin past
    BY <1>3, <2>2 DEF Referenced
  <2>4. x \in mine
    BY <1>3, <1>7 DEF Referenced
  <2> HIDE DEF mine, past
  <2> QED
    BY <2>1, <2>3, <2>4
<1>9. b \in DOMAIN Stream(order, from)
  BY <1>1, <1>6 DEF Batches
<1> QED
  BY <1>8, <1>9 DEF Answer

-----------------------------------------------------------------------------
(* The tab.                                                                *)

\* A request behind the end of the order is answered with no record.
LEMMA AnswerBeyond ==
  ASSUME NEW X, NEW order \in Seq(X), NEW from \in Nat, from > Len(order)
  PROVE  Answer(order, from).records = <<>>
<1> DEFINE s == [b \in DOMAIN Stream(order, from) |-> Stream(order, from)[b].records]
<1>1. Batch \in Nat /\ Batch > 0 /\ Len(order) \in Nat
  BY SessionListsAssumption
<1>2. (0 + Batch - 1) \div Batch = 0
  BY <1>1
<1>3. DOMAIN Stream(order, from) = 1..0
  <2>1. ~ (from < Len(order))
    BY <1>1
  <2>2. DOMAIN Stream(order, from)
          = 1..(((IF from < Len(order) THEN Len(order) - from ELSE 0) + Batch - 1) \div Batch)
    BY DEF Stream
  <2> QED
    BY <1>2, <2>1, <2>2
<1>4. s = <<>> /\ Answer(order, from).records = FlattenSeq(s)
  BY <1>3 DEF Answer
<1> HIDE DEF s
<1>5. Len(s) = 0
  BY <1>4
<1>6. FlattenSeq(s) = s
  BY <1>5, Zenon DEF FlattenSeq
<1> QED
  BY <1>4, <1>6

\* What an answer from position `from` on leaves a client with, which has the records
\* before it and their blobs.
LEMMA AnswerCompletes ==
  ASSUME NEW order \in Seq(Records), NEW have \in Seq(Records), NEW blobs,
         Len(have) <= Len(order), have = SubSeq(order, 1, Len(have)),
         \A i \in DOMAIN have : Refs[have[i]] \subseteq blobs
  PROVE  LET answer == Answer(order, Len(have))
         IN  /\ answer.records \in Seq(Records)
             /\ have \o answer.records = order
             /\ \A i \in DOMAIN order : Refs[order[i]] \subseteq blobs \cup answer.blobs
<1> DEFINE n == Len(have)
           N == Len(order)
           rest == SubSeq(order, n + 1, N)
           new == Answer(order, n).blobs
<1>1. n \in Nat /\ N \in Nat /\ n <= N /\ n \in 0..Len(order)
  OBVIOUS
<1>2. Answer(order, n).records = rest
  BY <1>1, AnswerIsRest
<1>3. have \o rest = order
  <2>1. 1 \in 1..Len(order) + 1 /\ n \in 1 - 1..Len(order) /\ N \in n..Len(order)
    BY <1>1
  <2>2. SubSeq(order, 1, n) \o SubSeq(order, n + 1, N) = SubSeq(order, 1, N)
    BY <2>1, ConcatAdjacentSubSeq
  <2>3. SubSeq(order, 1, N) = order
    BY SubSeqFull
  <2> QED
    BY <2>2, <2>3
<1>4. rest \in Seq(Records)
  <2>1. \A i \in n + 1..N : order[i] \in Records
    BY <1>1
  <2> QED
    BY <1>1, <2>1, SubSeqProperties
<1>5. \A i \in 1..n : i \in DOMAIN have /\ have[i] = order[i]
  <2>1. \A i \in 1..n : SubSeq(order, 1, n)[i] = order[i]
    BY <1>1
  <2> QED
    BY <1>1, <2>1
<1>6. AlreadySent(order, n) \subseteq blobs
  <2>1. CASE 0 < n
    <3>1. n \in 1..n
      BY <1>1, <2>1
    <3>2. AlreadySent(order, n) = Refs[order[n]]
      BY <1>1, <2>1 DEF AlreadySent
    <3> QED
      BY <1>5, <3>1, <3>2
  <2>2. CASE ~ (0 < n)
    BY <2>2 DEF AlreadySent
  <2> QED
    BY <2>1, <2>2
<1>7. ASSUME NEW i \in 1..N PROVE Refs[order[i]] \subseteq blobs \cup new
  <2>1. CASE i <= n
    <3>1. i \in 1..n
      BY <1>1, <2>1
    <3> QED
      BY <1>5, <3>1
  <2>2. CASE ~ (i <= n)
    <3>1. i \in n + 1..Len(order)
      BY <1>1, <2>2
    <3>2. Refs[order[i]] \subseteq AlreadySent(order, n) \cup new
      BY <1>1, <3>1, AnswerHasBlobs
    <3> QED
      BY <1>6, <3>2
  <2> QED
    BY <2>1, <2>2
<1>8. DOMAIN order = 1..N
  OBVIOUS
<1> HIDE DEF n, N, rest, new
<1>9. \A i \in DOMAIN order : Refs[order[i]] \subseteq blobs \cup new
  BY <1>7, <1>8
<1> QED
  BY <1>2, <1>3, <1>4, <1>9 DEF n, new

\* A tab shows a sequence of records.
TabInv ==
  /\ tab = [at |-> tab.at, pid |-> tab.pid, sid |-> tab.sid, reqs |-> tab.reqs,
            blobs |-> tab.blobs, fp |-> tab.fp, next |-> tab.next]
  /\ tab.reqs \in Seq(Records)

\* What an answer that completes the tab leaves it with.
Completed(order) ==
  tab'.reqs = order /\ \A i \in DOMAIN order : Refs[order[i]] \subseteq tab'.blobs

\* A whole session is its order, with every blob.
LEMMA WholeIs ==
  ASSUME NEW order \in Seq(Records)
  PROVE  /\ Answer(order, 0).records = order
         /\ \A i \in DOMAIN order : Refs[order[i]] \subseteq Answer(order, 0).blobs
<1>1. <<>> \in Seq(Records) /\ Len(<<>>) = 0 /\ 0 <= Len(order) /\ <<>> = SubSeq(order, 1, 0)
  OBVIOUS
<1>2. \A i \in DOMAIN <<>> : Refs[<<>>[i]] \subseteq {}
  OBVIOUS
<1>3. /\ <<>> \o Answer(order, 0).records = order /\ Answer(order, 0).records \in Seq(Records)
      /\ \A i \in DOMAIN order : Refs[order[i]] \subseteq {} \cup Answer(order, 0).blobs
  BY <1>1, <1>2, AnswerCompletes
<1> QED
  BY <1>3

\* Any answer is a sequence of records.
LEMMA AnswerType ==
  ASSUME NEW order \in Seq(Records), NEW from \in Nat
  PROVE  Answer(order, from).records \in Seq(Records)
<1>1. CASE from > Len(order)
  <2>1. Answer(order, from).records = <<>>
    BY <1>1, AnswerBeyond
  <2> QED
    BY <2>1
<1>2. CASE ~ (from > Len(order))
  <2>1. from \in 0..Len(order)
    BY <1>2
  <2>2. Answer(order, from).records = SubSeq(order, from + 1, Len(order))
    BY <2>1, AnswerIsRest
  <2>3. \A i \in from + 1..Len(order) : order[i] \in Records
    BY <2>1
  <2>4. from + 1 \in Int /\ Len(order) \in Int
    BY <2>1
  <2> QED
    BY <2>2, <2>3, <2>4, SubSeqProperties
<1> QED
  BY <1>1, <1>2

LEMMA OpenStep ==
  ASSUME TypeInv, TabInv, NEW pid, NEW sid, OpenSession(pid, sid)
  PROVE  /\ TabInv'
         /\ tab'.pid = pid /\ tab'.sid = sid /\ Completed(OrderNow(pid, sid))
<1> DEFINE order == OrderNow(pid, sid)
           answer == Answer(order, 0)
<1>1. order \in Seq(Records)
  BY OrderIsSession DEF OrderNow, TypeInv
<1>2. answer.records = order /\ \A i \in DOMAIN order : Refs[order[i]] \subseteq answer.blobs
  BY <1>1, WholeIs
<1>3. tab' = [tab EXCEPT !.at = "seed", !.pid = pid, !.sid = sid,
                         !.reqs = answer.records, !.blobs = answer.blobs]
  BY DEF OpenSession
<1> HIDE DEF order, answer
<1>4. tab' = [at |-> "seed", pid |-> pid, sid |-> sid, reqs |-> answer.records,
              blobs |-> answer.blobs, fp |-> tab.fp, next |-> tab.next]
  BY <1>3 DEF TabInv
<1> QED
  BY <1>1, <1>2, <1>4 DEF TabInv, Completed, order

\* The three outcomes of a fetch that is answered, by what is in the tab then.
LEMMA FetchIs ==
  ASSUME TypeInv, TabInv, TickFetch, Known(tab.pid)
  PROVE  LET order == OrderNow(tab.pid, tab.sid)
             fresh == Answer(order, Len(tab.reqs))
             whole == Answer(order, 0)
         IN  /\ tab' = [at |-> "open", pid |-> tab.pid, sid |-> tab.sid, reqs |-> tab'.reqs,
                        blobs |-> tab'.blobs, fp |-> tab.next, next |-> Unknown]
             /\ \/ fresh.records = <<>> /\ tab'.reqs = tab.reqs /\ tab'.blobs = tab.blobs
                \/ tab'.reqs = whole.records /\ tab'.blobs = tab.blobs \cup whole.blobs
                \/ tab'.reqs = tab.reqs \o fresh.records /\ tab'.blobs = tab.blobs \cup fresh.blobs
<1> DEFINE order == OrderNow(tab.pid, tab.sid)
           fresh == Answer(order, Len(tab.reqs))
           whole == Answer(order, 0)
           done == [tab EXCEPT !.at = "open", !.fp = tab.next, !.next = Unknown]
<1>1. \/ fresh.records = <<>> /\ tab' = done
      \/ tab' = [done EXCEPT !.reqs = whole.records, !.blobs = @ \cup whole.blobs]
      \/ tab' = [done EXCEPT !.reqs = @ \o fresh.records, !.blobs = @ \cup fresh.blobs]
  BY DEF TickFetch
<1> HIDE DEF fresh, whole, order
<1> HIDE DEF done
<1>2. done = [at |-> "open", pid |-> tab.pid, sid |-> tab.sid, reqs |-> tab.reqs,
              blobs |-> tab.blobs, fp |-> tab.next, next |-> Unknown]
  <2>1. ASSUME NEW d, d = [tab EXCEPT !.at = "open", !.fp = tab.next, !.next = Unknown]
        PROVE  d = [at |-> "open", pid |-> tab.pid, sid |-> tab.sid, reqs |-> tab.reqs,
                    blobs |-> tab.blobs, fp |-> tab.next, next |-> Unknown]
    BY <2>1 DEF TabInv
  <2> QED
    BY <2>1 DEF done
<1>3. CASE fresh.records = <<>> /\ tab' = done
  BY <1>2, <1>3 DEF fresh, whole, order
<1>4. CASE tab' = [done EXCEPT !.reqs = whole.records, !.blobs = @ \cup whole.blobs]
  <2>1. tab' = [at |-> "open", pid |-> tab.pid, sid |-> tab.sid, reqs |-> whole.records,
                blobs |-> tab.blobs \cup whole.blobs, fp |-> tab.next, next |-> Unknown]
    BY <1>2, <1>4
  <2> QED
    BY <2>1 DEF fresh, whole, order
<1>5. CASE tab' = [done EXCEPT !.reqs = @ \o fresh.records, !.blobs = @ \cup fresh.blobs]
  <2>1. tab' = [at |-> "open", pid |-> tab.pid, sid |-> tab.sid, reqs |-> tab.reqs \o fresh.records,
                blobs |-> tab.blobs \cup fresh.blobs, fp |-> tab.next, next |-> Unknown]
    BY <1>2, <1>5
  <2> QED
    BY <2>1 DEF fresh, whole, order
<1> QED
  BY <1>1, <1>3, <1>4, <1>5

LEMMA FetchStep ==
  ASSUME TypeInv, TabInv, TickFetch
  PROVE  /\ TabInv'
         /\ tab'.pid = tab.pid /\ tab'.sid = tab.sid
         /\ Known(tab.pid) /\ HoldsWhatItShows /\ IsPrefix(tab.reqs, OrderNow(tab.pid, tab.sid))
              => Completed(OrderNow(tab.pid, tab.sid))
<1>1. CASE ~ Known(tab.pid)
  <2>1. tab' = [tab EXCEPT !.at = "open", !.next = Unknown]
    BY <1>1 DEF TickFetch
  <2>2. tab' = [at |-> "open", pid |-> tab.pid, sid |-> tab.sid, reqs |-> tab.reqs,
                blobs |-> tab.blobs, fp |-> tab.fp, next |-> Unknown]
    BY <2>1 DEF TabInv
  <2> QED
    BY <1>1, <2>2 DEF TabInv
<1>2. CASE Known(tab.pid)
  <2> DEFINE order == OrderNow(tab.pid, tab.sid)
             fresh == Answer(order, Len(tab.reqs))
             whole == Answer(order, 0)
  <2>1. order \in Seq(Records)
    BY OrderIsSession DEF OrderNow, TypeInv
  <2>2. /\ tab' = [at |-> "open", pid |-> tab.pid, sid |-> tab.sid, reqs |-> tab'.reqs,
                   blobs |-> tab'.blobs, fp |-> tab.next, next |-> Unknown]
        /\ \/ fresh.records = <<>> /\ tab'.reqs = tab.reqs /\ tab'.blobs = tab.blobs
           \/ tab'.reqs = whole.records /\ tab'.blobs = tab.blobs \cup whole.blobs
           \/ tab'.reqs = tab.reqs \o fresh.records /\ tab'.blobs = tab.blobs \cup fresh.blobs
    BY <1>2, FetchIs
  <2>3. tab.reqs \in Seq(Records) /\ Len(tab.reqs) \in Nat
    BY DEF TabInv
  <2>4. whole.records = order /\ \A i \in DOMAIN order : Refs[order[i]] \subseteq whole.blobs
    BY <2>1, WholeIs
  <2>5. fresh.records \in Seq(Records)
    BY <2>1, <2>3, AnswerType
  <2> HIDE DEF fresh, whole
  <2>6. tab'.reqs \in Seq(Records)
    <3> HIDE DEF order
    <3>1. CASE tab'.reqs = tab.reqs
      BY <2>3, <3>1
    <3>2. CASE tab'.reqs = whole.records
      BY <2>1, <2>4, <3>2
    <3>3. CASE tab'.reqs = tab.reqs \o fresh.records
      BY <2>3, <2>5, <3>3
    <3> QED
      BY <2>2, <3>1, <3>2, <3>3
  <2>7. TabInv' /\ tab'.pid = tab.pid /\ tab'.sid = tab.sid
    <3> HIDE DEF order
    <3> DEFINE reqs == tab'.reqs
               blobs == tab'.blobs
    <3>1. tab' = [at |-> "open", pid |-> tab.pid, sid |-> tab.sid, reqs |-> reqs,
                  blobs |-> blobs, fp |-> tab.next, next |-> Unknown]
      BY <2>2
    <3> HIDE DEF reqs, blobs
    <3> QED
      BY <2>6, <3>1 DEF TabInv
  <2>8. ASSUME HoldsWhatItShows, IsPrefix(tab.reqs, order) PROVE Completed(order)
    <3>1. Len(tab.reqs) <= Len(order) /\ tab.reqs = SubSeq(order, 1, Len(tab.reqs))
      BY <2>3, <2>8, SubSeqFull DEF IsPrefix
    <3>2. \A i \in DOMAIN tab.reqs : Refs[tab.reqs[i]] \subseteq tab.blobs
      BY <2>8 DEF HoldsWhatItShows
    <3>3. /\ tab.reqs \o fresh.records = order
          /\ \A i \in DOMAIN order : Refs[order[i]] \subseteq tab.blobs \cup fresh.blobs
      BY <2>1, <2>3, <3>1, <3>2, AnswerCompletes DEF fresh
    <3>4. CASE fresh.records = <<>> /\ tab'.reqs = tab.reqs /\ tab'.blobs = tab.blobs
      <4>1. tab.reqs = order
        BY <2>3, <3>3, <3>4
      <4> QED
        BY <3>2, <3>4, <4>1 DEF Completed
    <3>5. CASE tab'.reqs = whole.records /\ tab'.blobs = tab.blobs \cup whole.blobs
      BY <2>4, <3>5 DEF Completed
    <3>6. CASE tab'.reqs = tab.reqs \o fresh.records /\ tab'.blobs = tab.blobs \cup fresh.blobs
      BY <3>3, <3>6 DEF Completed
    <3> QED
      BY <2>2, <3>4, <3>5, <3>6
  <2> QED
    BY <2>7, <2>8
<1> QED
  BY <1>1, <1>2

\* The other steps leave what the tab shows, or close it.
LEMMA TabAside ==
  ASSUME TabInv,
         SeedMarker \/ TickProbe \/ CloseSession \/ UNCHANGED tab
  PROVE  TabInv' /\ ~ (tab.at \in {"closed", "fetch"} /\ tab'.at \in {"seed", "open"})
<1>1. CASE SeedMarker
  <2>1. tab' = [at |-> "open", pid |-> tab.pid, sid |-> tab.sid, reqs |-> tab.reqs,
                blobs |-> tab.blobs, fp |-> tab'.fp, next |-> tab.next] /\ tab.at = "seed"
    BY <1>1 DEF SeedMarker, TabInv
  <2> QED
    BY <2>1 DEF TabInv
<1>2. CASE TickProbe
  <2>1. tab' = [at |-> "fetch", pid |-> tab.pid, sid |-> tab.sid, reqs |-> tab.reqs,
                blobs |-> tab.blobs, fp |-> tab.fp, next |-> tab'.next] /\ tab.at = "open"
    BY <1>2 DEF TickProbe, TabInv
  <2> QED
    BY <2>1 DEF TabInv
<1>3. CASE CloseSession
  BY <1>3 DEF CloseSession, Closed, TabInv
<1>4. CASE UNCHANGED tab
  BY <1>4 DEF TabInv
<1> QED
  BY <1>1, <1>2, <1>3, <1>4

\* What FollowsTheSession says of one step.
Follows ==
  Answered /\ HoldsWhatItShows /\ IsPrefix(tab.reqs, OrderNow(tab'.pid, tab'.sid))
    => tab'.reqs = OrderNow(tab'.pid, tab'.sid) /\ HoldsWhatItShows'

LEMMA CompletedFollows ==
  ASSUME Completed(OrderNow(tab'.pid, tab'.sid))
  PROVE  Follows
BY DEF Completed, Follows, HoldsWhatItShows

LEMMA TabStep ==
  ASSUME TypeInv, TabInv, [ViewerNext]_vars
  PROVE  TabInv' /\ Follows
<1>1. ASSUME NEW pid, NEW sid, OpenSession(pid, sid)
      PROVE  TabInv' /\ Follows
  <2>1. TabInv' /\ tab'.pid = pid /\ tab'.sid = sid /\ Completed(OrderNow(pid, sid))
    BY <1>1, OpenStep
  <2> QED
    BY <2>1, CompletedFollows
<1>2. CASE TickFetch
  <2>1. /\ TabInv'
        /\ tab'.pid = tab.pid /\ tab'.sid = tab.sid
        /\ Known(tab.pid) /\ HoldsWhatItShows /\ IsPrefix(tab.reqs, OrderNow(tab.pid, tab.sid))
             => Completed(OrderNow(tab.pid, tab.sid))
    BY <1>2, FetchStep
  <2>2. ASSUME Answered, HoldsWhatItShows, IsPrefix(tab.reqs, OrderNow(tab'.pid, tab'.sid))
        PROVE  Follows
    BY <2>1, <2>2, CompletedFollows DEF Answered
  <2> QED
    BY <2>1, <2>2 DEF Follows
<1>3. CASE SeedMarker \/ TickProbe \/ CloseSession \/ UNCHANGED tab
  <2>1. TabInv' /\ ~ (tab.at \in {"closed", "fetch"} /\ tab'.at \in {"seed", "open"})
    BY <1>3, TabAside
  <2> QED
    BY <2>1 DEF Answered, Follows
<1> QED
  BY <1>1, <1>2, <1>3 DEF ViewerNext, Tab, vars

\* However the order a tab polls grows, is regrouped or loses records, and whenever the
\* handlers answer, a tab that misses nothing of the beginning it shows is brought to the
\* whole order of its session and to every blob of it by each answer, in batches that
\* send no blob twice (tick, selectSession, SessionStream.lines).
THEOREM FollowsTheSessionHolds == Spec => FollowsTheSession
<1>1. ViewerInit => TypeInv /\ TabInv
  <2>1. ViewerInit => TabInv
    BY DEF ViewerInit, Closed, TabInv
  <2> QED
    BY <2>1, InitType
<1>2. TypeInv /\ TabInv /\ [ViewerNext]_vars => (TypeInv /\ TabInv)'
  BY TypeStep, TabStep
<1>3. TypeInv /\ TabInv /\ [ViewerNext]_vars => [Follows]_vars
  BY TabStep
<1>4. [Follows]_vars <=>
      [Answered /\ HoldsWhatItShows /\ IsPrefix(tab.reqs, OrderNow(tab'.pid, tab'.sid))
         => tab'.reqs = OrderNow(tab'.pid, tab'.sid) /\ HoldsWhatItShows']_vars
  BY DEF Follows
<1> QED
  BY <1>1, <1>2, <1>3, <1>4, PTL DEF Spec, FollowsTheSession
=============================================================================
