---------------------------- MODULE SessionLists ----------------------------
(***************************************************************************)
(* What the viewer derives from the index and from the project registry:   *)
(* the groups of projects (domain/logs/io.py), the merged session lists    *)
(* and the markers a browser polls (domain/logs/listing.py), and the order *)
(* and the content of the stream an open session is served as              *)
(* (domain/logs/stream.py).  Operators only; the state is LogsCache's and  *)
(* LogsViewer's.                                                           *)
(***************************************************************************)
EXTENDS Naturals, FiniteSets, Sequences, SequencesExt, FiniteSetsExt

CONSTANTS
  Projects,     \* the directories projects may be registered from
  Root,         \* Root[p]: the rank of the root of p's group among all roots
  Hashes,       \* the directories of the central log tree, one per project
  HashOf,       \* HashOf[p]: the hash p's logs dir resolves to
  Keys,         \* the session directories <hash>/<provider>/<session id>
  HashOfKey,    \* HashOfKey[k]: its project hash
  Sid,          \* Sid[k]: its session id
  Rank,         \* Rank[k]: its place in the order of SessionKeys
  Records,      \* the requests that may be logged
  KeyOf,        \* KeyOf[r]: the session directory r is logged in
  Start,        \* Start[r]: its start instant, 0 for none
  Refs,         \* Refs[r]: the blobs it references
  Batch,        \* SESSION_WIRE_BATCH
  NoRow,        \* a session directory the index has no row for
  Orphaned      \* the root of the synthetic group, ORPHANED_LABEL

ASSUME SessionListsAssumption ==
  /\ Root \in [Projects -> Nat]
  /\ HashOf \in [Projects -> Hashes]
  /\ HashOfKey \in [Keys -> Hashes]
  /\ Rank \in [Keys -> Nat] /\ \A j, k \in Keys : Rank[j] = Rank[k] => j = k
  /\ KeyOf \in [Records -> Keys]
  /\ Start \in [Records -> Nat]
  /\ Batch \in Nat \ {0}
  /\ Orphaned \notin Nat
  /\ IsFiniteSet(Keys) /\ NoRow \notin [recs : Seq(Records), stamp : Nat]

Largest(S) == IF S = {} THEN 0 ELSE Max(S)

\* S in the order of a comparison: the n-th has n - 1 others before it.
Ranked(S, before(_, _)) ==
  [n \in 1..Cardinality(S) |->
     CHOOSE i \in S : Cardinality({j \in S : before(j, i)}) = n - 1]

-----------------------------------------------------------------------------
(* Groups.  A project id is a position in this sequence.                   *)

\* The hashes some registered project's logs dir resolves to.
Claimed(reg, linked) == {HashOf[p] : p \in reg \cap linked}

Orphans(reg, linked, dirs) == dirs \ Claimed(reg, linked)

ListGroups(reg, linked, dirs) ==
  LET roots  == {Root[p] : p \in reg \cap linked}
      group(g) == [root |-> g,
                   hashes |-> {HashOf[p] : p \in {q \in reg \cap linked : Root[q] = g}}]
      sorted == Ranked(roots, <)
      lost   == Orphans(reg, linked, dirs)
  IN IF reg = {} THEN <<>>
     ELSE [i \in DOMAIN sorted |-> group(sorted[i])]
          \o (IF lost = {} THEN <<>> ELSE <<[root |-> Orphaned, hashes |-> lost]>>)

\* The project id whose group owns hash h, if any does.
Owners(groups, h) == {i \in DOMAIN groups : h \in groups[i].hashes}

-----------------------------------------------------------------------------
(* The lists.  rows[k] is the sessions row of directory k, or NoRow.       *)

RowsOf(rows, hashes) == {k \in Keys : rows[k] # NoRow /\ HashOfKey[k] \in hashes}

\* One entry per session id, with the number of its records; a directory
\* without a record does not count.
MergeSessions(rows, hashes) ==
  LET listed == {k \in RowsOf(rows, hashes) : rows[k].recs # <<>>}
      held(s) == UNION {{k} \X DOMAIN rows[k].recs : k \in {j \in listed : Sid[j] = s}}
  IN [s \in {Sid[k] : k \in listed} |-> Cardinality(held(s))]

Fingerprint(rows, keys) ==
  [rev |-> Largest({rows[k].stamp : k \in keys}), count |-> Cardinality(keys)]

\* The two columns the gate compares, of one statement.
Revision(rows) == Fingerprint(rows, {k \in Keys : rows[k] # NoRow})

Lists(rows, groups) == [i \in DOMAIN groups |-> MergeSessions(rows, groups[i].hashes)]

Markers(rows, groups) ==
  [i \in DOMAIN groups |->
     LET mine == RowsOf(rows, groups[i].hashes)
     IN [all |-> Fingerprint(rows, mine),
         one |-> [s \in DOMAIN MergeSessions(rows, groups[i].hashes) |->
                    Fingerprint(rows, {k \in mine : Sid[k] = s})]]]

\* The entries of the projects list: the groups with a session, by id.
ListedProjects(lists, groups) == {i \in DOMAIN groups : DOMAIN lists[i] # {}}

-----------------------------------------------------------------------------
(* The stream of one session.  rows[k].recs are the records of directory k *)
(* in the order they were appended.                                        *)

SessionsFor(rows, hashes, sid) ==
  Ranked({k \in RowsOf(rows, hashes) : Sid[k] = sid}, LAMBDA j, k : Rank[j] < Rank[k])

\* A record without a start instant takes the last one before it.
Instants(recs) ==
  LET known(i) == {j \in 1..i : Start[recs[j]] # 0}
      at(i)    == IF known(i) = {} THEN 0 ELSE Start[recs[Max(known(i))]]
  IN [i \in DOMAIN recs |-> [rec |-> recs[i], at |-> at(i)]]

\* Chronological over the directories, stable in the order of their keys.
Order(rows, hashes, sid) ==
  LET dirs   == SessionsFor(rows, hashes, sid)
      all    == FlattenSeq([i \in DOMAIN dirs |-> Instants(rows[dirs[i]].recs)])
      sorted == Ranked(DOMAIN all, LAMBDA i, j :
                  all[i].at < all[j].at \/ (all[i].at = all[j].at /\ i < j))
  IN [i \in DOMAIN sorted |-> all[sorted[i]].rec]

\* Mutant of AlreadySent: the record after the cut.
AlreadySentNext(order, from) ==
  IF 0 < from /\ from < Len(order) THEN Refs[order[from + 1]] ELSE {}

\* What the client is taken to hold: the blobs of the record before the cut.
AlreadySent(order, from) ==
  IF 0 < from /\ from <= Len(order) THEN Refs[order[from]] ELSE {}

\* The blobs of the records from position `first` to `last`.
Referenced(order, first, last) == UNION {Refs[order[j]] : j \in first..last}

\* What a request for a session in this order from position `from` on is
\* answered with: batches of records, each behind the blobs not sent before.
Stream(order, from) ==
  LET total    == IF from < Len(order) THEN Len(order) - from ELSE 0
      first(b) == from + (b - 1) * Batch + 1
      last(b)  == Min({from + b * Batch, Len(order)})
      upTo(i)  == AlreadySent(order, from) \cup Referenced(order, from + 1, i)
  IN [b \in 1..((total + Batch - 1) \div Batch) |->
        [blobs   |-> Referenced(order, first(b), last(b)) \ upTo(first(b) - 1),
         records |-> SubSeq(order, first(b), last(b))]]
=============================================================================
