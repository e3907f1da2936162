---------------------------- MODULE RequestIndex ----------------------------
(***************************************************************************)
(* What the request log promises of the index, with the lines, offsets,    *)
(* chunks, passes and locks left out: the rows of a session follow the     *)
(* records of its file.  A row, once there, stays where it is until the    *)
(* session is deleted, and that happens to a session whose rows are all    *)
(* there, its file first.                                                  *)
(***************************************************************************)
EXTENDS SequencesExt

CONSTANTS Sessions, Records

VARIABLES log, rows, used

\* log[s]: the records in the file;  rows[s]: those in the index;  used: the
\* sessions that were used while they were being deleted, promised nothing.
IdxInit ==
  /\ log = [s \in Sessions |-> <<>>]
  /\ rows = [s \in Sessions |-> <<>>]
  /\ used = {}

\* A request ends.
Logged(s) ==
  /\ \E r \in Records : log'[s] = Append(log[s], r)
  /\ rows'[s] = rows[s]

\* More of the file is taken into the index.
Taken(s) ==
  /\ IsPrefix(rows[s], rows'[s]) /\ IsPrefix(rows'[s], log[s])
  /\ log'[s] = log[s]

\* Retention deletes the file, and only then the rows.
Deleted(s) ==
  /\ rows[s] = log[s]
  /\ log'[s] = <<>>
  /\ rows'[s] = rows[s]

Forgotten(s) ==
  /\ log[s] = <<>> /\ log'[s] = <<>>
  /\ rows'[s] = <<>>

Still(s) == log'[s] = log[s] /\ rows'[s] = rows[s]

\* One transaction may forget several sessions.
IdxNext ==
  /\ used \subseteq used'
  /\ \A s \in Sessions \ used' :
       Still(s) \/ Logged(s) \/ Taken(s) \/ Deleted(s) \/ Forgotten(s)

IdxSpec == IdxInit /\ [][IdxNext]_<<log, rows, used>>
=============================================================================
