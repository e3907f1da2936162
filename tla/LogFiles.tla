------------------------------ MODULE LogFiles ------------------------------
(***************************************************************************)
(* The request log on disk: per session directory two append-only files of *)
(* lines, messages.jsonl and strings.jsonl.  The sidecar's callback writes *)
(* them, the ingester reads them, retention deletes them, each a process   *)
(* of its own.                                                             *)
(*                                                                         *)
(* A file is the sequence of its lines and an absent file the empty one.   *)
(* An offset is a number of lines.  A line that does not parse is Bad; an  *)
(* append that was cut short leaves Torn, a last line without its newline, *)
(* and the next append continues that line.                                *)
(***************************************************************************)
EXTENDS Naturals, Sequences, FiniteSets, Functions

CONSTANTS
  Sessions,   \* the session directories <project>/<provider>/<session id>
  Records,    \* the request records, each handled once by the proxy
  Contents,   \* the values a record holds (messages, system prompt, reply)
  Strings,    \* the strings long enough to be replaced by a pointer
  Dir,        \* Dir[r]: the session directory record r belongs to
  Holds,      \* Holds[r]: the contents of record r
  Quotes,     \* Quotes[c]: the strings content c points to
  Bad,        \* a complete line that does not parse
  Torn,       \* a last line without its newline
  Events,     \* what may happen in a run besides the ordinary, see EventKinds
  MaxMishaps  \* bound: failures, crashes and kills in one behaviour

EventKinds ==
  { "ioerror",  \* a file cannot be opened, or one session cannot be ingested
    "nodir",    \* a directory cannot be made, but not for its permissions
    "full",     \* the disk is full when the strings file is closed
    "kill",     \* the sidecar stops with requests in flight
    "torn",     \* the same in the middle of an append
    "crash",    \* the process that ingests or reclaims dies
    "reclaim",  \* `agent cleanup`, or `agent reindex --prune`
    "late" }    \* a session is used while it is being deleted

ASSUME LogFilesAssumption ==
  /\ Dir \in [Records -> Sessions]
  /\ Holds \in [Records -> SUBSET Contents]
  /\ Quotes \in [Contents -> SUBSET Strings]
  /\ Contents \cap Strings = {} /\ IsFiniteSet(Strings)
  /\ {Bad, Torn} \cap (Records \cup Strings) = {} /\ Bad # Torn
  /\ Events \subseteq EventKinds
  /\ MaxMishaps \in Nat

VARIABLES
  msgs,    \* msgs[s]: the lines of messages.jsonl
  strs,    \* strs[s]: the lines of strings.jsonl, as the strings they define
  mishaps  \* how many failures there were

files == <<msgs, strs>>

MsgLines == Records \cup {Bad, Torn}
StrLines == Strings \cup {Bad, Torn}

\* The strings whose pointers record r contains.
Uses(r) == UNION {Quotes[c] : c \in Holds[r]}

IsTorn(f) == f # <<>> /\ f[Len(f)] = Torn

\* The number of lines a reader that stops at a missing newline gets through.
Complete(f) == IF IsTorn(f) THEN Len(f) - 1 ELSE Len(f)

\* Appending complete lines: the first one continues a torn line, which then
\* has its newline and does not parse.
Appended(f, lines) ==
  IF IsTorn(f) /\ lines # <<>>
  THEN [f EXCEPT ![Len(f)] = Bad] \o Tail(lines)
  ELSE f \o lines

\* An append that is cut short before its newline.
AppendedTorn(f) == IF IsTorn(f) THEN f ELSE Append(f, Torn)

FilesInit ==
  /\ msgs = [s \in Sessions |-> <<>>]
  /\ strs = [s \in Sessions |-> <<>>]
  /\ mishaps = 0

Mishap(e) ==
  /\ e \in Events
  /\ mishaps < MaxMishaps
  /\ mishaps' = mishaps + 1

FilesTypeOK ==
  /\ msgs \in [Sessions -> Seq(MsgLines)]
  /\ strs \in [Sessions -> Seq(StrLines)]
  /\ mishaps \in 0..MaxMishaps
=============================================================================
