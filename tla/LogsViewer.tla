----------------------------- MODULE LogsViewer -----------------------------
(***************************************************************************)
(* The logs viewer as its user sees it: the handlers of                    *)
(* domain/logs/server.py over the cache and the index, and one browser tab *)
(* (logs_page/app.js) that opened a session and polls it.  A handler reads *)
(* the cache without a lock; one answer is one step.  What is on the wire  *)
(* is the tab's records and the blobs they reference.                      *)
(***************************************************************************)
EXTENDS LogsCache

VARIABLE tab
  \* at: where the tab's script is; pid, sid: what it has open; reqs: the
  \* records it shows; blobs: what it holds; fp: the marker it compares;
  \* next: the marker it fetched

vars == <<cacheVars, tab>>

Closed == [at |-> "closed", pid |-> 0, sid |-> Unknown, reqs |-> <<>>, blobs |-> {},
           fp |-> Unknown, next |-> Unknown]

ViewerInit == Init /\ tab = Closed

Serving == pc # "stopped" /\ pass # "rebuild"

\* _handle_session_stat
SessionStat(pid, sid) ==
  IF pid \in DOMAIN marks /\ sid \in DOMAIN marks[pid].one
  THEN marks[pid].one[sid] ELSE Fingerprint(rows, {})

\* The request is answered with 400 if the project id is not one.
Known(pid) == pid \in DOMAIN groups

\* _handle_session: the header comes from the cached list, the rest from the
\* index.
HeaderCount(pid, sid) ==
  IF pid \in DOMAIN lists /\ sid \in DOMAIN lists[pid] THEN lists[pid][sid] ELSE 0

OrderNow(pid, sid) == Order(rows, groups[pid].hashes, sid)

Answer(order, from) ==
  LET batches == Stream(order, from)
  IN [records |-> FlattenSeq([b \in DOMAIN batches |-> batches[b].records]),
      blobs |-> UNION {batches[b].blobs : b \in DOMAIN batches}]

\* selectSession: the whole session, then the marker to compare with.
OpenSession(pid, sid) ==
  /\ Serving /\ tab.at = "closed"
  /\ Known(pid) /\ pid \in DOMAIN lists /\ sid \in DOMAIN lists[pid]
  /\ \E order \in {OrderNow(pid, sid)} : \E answer \in {Answer(order, 0)} :
       tab' = [tab EXCEPT !.at = "seed", !.pid = pid, !.sid = sid,
                          !.reqs = answer.records, !.blobs = answer.blobs]
  /\ UNCHANGED cacheVars

SeedMarker ==
  /\ Serving /\ tab.at = "seed"
  /\ tab' = [tab EXCEPT !.at = "open", !.fp = SessionStat(tab.pid, tab.sid)]
  /\ UNCHANGED cacheVars

\* tick: nothing is fetched unless the marker moved.
TickProbe ==
  /\ Serving /\ tab.at = "open"
  /\ Known(tab.pid)
  /\ SessionStat(tab.pid, tab.sid) # tab.fp
  /\ tab' = [tab EXCEPT !.at = "fetch", !.next = SessionStat(tab.pid, tab.sid)]
  /\ UNCHANGED cacheVars

\* What tick does with the answer to its request: an error, nothing new, a
\* rebuild of the whole session, or an append.
TickFetch ==
  /\ Serving /\ tab.at = "fetch"
  /\ LET held == Len(tab.reqs)
         done == [tab EXCEPT !.at = "open", !.fp = tab.next, !.next = Unknown]
     IN \/ /\ ~Known(tab.pid)
           /\ tab' = [tab EXCEPT !.at = "open", !.next = Unknown]
        \/ /\ Known(tab.pid)
           /\ \E order \in {OrderNow(tab.pid, tab.sid)} :
              \E fresh \in {Answer(order, held)} :
                \/ /\ fresh.records = <<>>
                   /\ tab' = done
                \/ /\ fresh.records # <<>>
                   /\ HeaderCount(tab.pid, tab.sid) < held
                   /\ \E whole \in {Answer(order, 0)} :
                        tab' = [done EXCEPT !.reqs = whole.records,
                                            !.blobs = @ \cup whole.blobs]
                \/ /\ fresh.records # <<>>
                   /\ HeaderCount(tab.pid, tab.sid) >= held
                   /\ tab' = [done EXCEPT !.reqs = @ \o fresh.records,
                                          !.blobs = @ \cup fresh.blobs]
  /\ UNCHANGED cacheVars

CloseSession ==
  /\ tab.at = "open"
  /\ tab' = Closed
  /\ UNCHANGED cacheVars

Tab ==
  \/ \E pid \in DOMAIN lists : \E sid \in DOMAIN lists[pid] : OpenSession(pid, sid)
  \/ SeedMarker \/ TickProbe \/ TickFetch

ViewerNext ==
  \/ CacheNext /\ UNCHANGED tab
  \/ Tab
  \/ CloseSession

Spec == ViewerInit /\ [][ViewerNext]_vars

\* The consumer thread runs and its heartbeat comes on a quiet queue.
FairSpec == Spec /\ WF_vars(Consumer /\ UNCHANGED tab)

-----------------------------------------------------------------------------
(* Properties.                                                             *)

Publishing == pc \in {"lists", "marks"}

\* Every session of a known group is listed with at least the records the
\* rows of the table have.
ListsCover(table) ==
  \A i \in DOMAIN groups :
    LET due == MergeSessions(table, groups[i].hashes)
    IN \A s \in DOMAIN due :
         i \in DOMAIN lists /\ s \in DOMAIN lists[i] /\ lists[i][s] >= due[s]

\* What the index holds is listed whenever the gate would keep a pass from
\* refreshing (_refresh_from_index, _regroup).
NothingIndexedIsHidden == gate = Revision(rows) /\ ~Publishing => ListsCover(rows)

\* Whatever is on disk is listed in the end, under the groups of the registry
\* (LogsCache.reconcile), and usage.json has today's total (UsageTracker).
EventuallyListed == <>[](pc = "stopped" \/ (groups = GroupsNow /\ ListsCover(Ingested)))

EventuallyToday == <>[](pc = "stopped" \/ usage.file = DayTotal(rows, day))

\* The tab holds the blobs of every record it shows (stream.py: the exclusion
\* "cannot exclude something the client is missing").
HoldsWhatItShows == \A i \in DOMAIN tab.reqs : Refs[tab.reqs[i]] \subseteq tab.blobs

\* The tab's script asks for records and is answered.
Answered ==
  /\ tab.at \in {"closed", "fetch"} /\ tab'.at \in {"seed", "open"}
  /\ Known(tab'.pid)

\* An answer to a tab that misses nothing and whose records are where the order of the
\* session begins leaves it with the whole order and with every blob of it, by a stream
\* in batches that sends none twice (tick, SessionStream.lines).  The condition is false
\* once a record was ordered before one the tab has, or records were deleted.
FollowsTheSession ==
  [][ Answered /\ HoldsWhatItShows /\ IsPrefix(tab.reqs, OrderNow(tab'.pid, tab'.sid))
      => tab'.reqs = OrderNow(tab'.pid, tab'.sid) /\ HoldsWhatItShows' ]_vars
=============================================================================
