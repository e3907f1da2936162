------------------------------ MODULE Reports -------------------------------
(***************************************************************************)
(* The reports of `agent stats` and of usage.json (domain/stats, the usage *)
(* query, lib/daytime.py): the index's requests are summed into cells,     *)
(* folded by project hash, day, hour and model, priced by the hour, then   *)
(* collapsed and attributed to the registered projects or, what none of    *)
(* them owns, to the orphaned row.                                         *)
(***************************************************************************)
EXTENDS Pricing

CONSTANTS
  DayStart,       \* DAY_START_HOURS
  MinDay, MaxDay, \* date.min and date.max
  DefaultDays,
  Open,           \* None: no bound
  NoModel,        \* the empty model
  Markers,        \* the directories with an .agent_stats_leaf, as sequences of parts
  PathOf          \* PathOf[path]: its parts

ASSUME DayAssumption == DayStart \in Int /\ MinDay \in Int /\ MaxDay \in Int

\* Hours count from the epoch, a Thursday; get_day shifts them by the day's start.
GetDay(h) == (h - DayStart) \div 24
Weekday(h) == (h \div 24 + 3) % 7
HourOfDay(h) == h % 24
DayKey(h) == IF h = Unknown THEN Unknown ELSE GetDay(h)

HourBounds(w) ==
  <<IF w[1] = Open THEN Open ELSE w[1] * 24 + DayStart,
    IF w[2] = Open THEN Open ELSE w[2] * 24 + DayStart + 24 - 1>>

\* A request without a time belongs to no day but to all of time.
DayInRange(day, w) ==
  IF day = Unknown THEN w = <<Open, Open>>
  ELSE (w[1] = Open \/ day >= w[1]) /\ (w[2] = Open \/ day <= w[2])

\* resolve_window: days is Open when not given, 0 for no limit.
Shift(day, span) ==
  CASE day + span > MaxDay -> MaxDay
    [] day + span < MinDay -> MinDay
    [] OTHER -> day + span
Endless == MaxDay - MinDay + 1
Span(days) ==
  CASE days = Open -> DefaultDays - 1 [] days = 0 -> Endless [] OTHER -> days - 1
CombineBounds(from, until, days, today) ==
  CASE from # Open /\ until # Open -> <<from, until>>
    [] from # Open /\ until = Open ->
         <<from, IF days = Open THEN today ELSE Shift(from, Span(days))>>
    [] from = Open /\ until # Open -> <<Shift(until, -Span(days)), until>>
    [] OTHER -> <<Shift(today, -Span(days)), today>>
WindowError == <<>>
ResolveWindow(from, until, days, today) ==
  LET b  == CombineBounds(from, until, days, today)
      lo == IF b[1] = MinDay THEN Open ELSE b[1]
      hi == IF b[2] = MaxDay THEN Open ELSE b[2]
  IN  IF Open \notin {from, until, days} \/ (Open \notin {lo, hi} /\ lo > hi)
      THEN WindowError ELSE <<lo, hi>>

\* USAGE_CELLS: successful requests with a model, grouped; a request without a
\* time fails every bound.
InHours(h, b) ==
  /\ b[1] = Open \/ (h # Unknown /\ h >= b[1])
  /\ b[2] = Open \/ (h # Unknown /\ h <= b[2])
Counted(rows) == {r \in rows : r.ok /\ r.model # NoModel}
CellKey(r) == [hour |-> r.hour, session |-> r.session, model |-> r.model, source |-> r.source]
UsageCells(rows, bounds) ==
  LET in == {r \in Counted(rows) : InHours(r.hour, bounds)} IN
  {[key |-> k, requests |-> {r \in in : CellKey(r) = k}] : k \in {CellKey(r) : r \in in}}

\* usage_from_cell: the sums of the counts, without the breakdown of the writes.
AsCounted(u) == [u EXCEPT !.cw5m = 0, !.cw1h = 0]
CellBucket(c) ==
  LET n == Cardinality(c.requests)
      u == MapThenFoldSet(PlusUsage, NoTokens, LAMBDA r : AsCounted(r.usage),
                          LAMBDA T : CHOOSE x \in T : TRUE, c.requests)
  IN  BucketOf(u, n, IF c.key.source = "unrecoverable" THEN n ELSE 0)

DisplayModel(k) == [provider |-> k.session.provider, model |-> Canonical[k.model]]
HourKey(h) == IF h = Unknown THEN <<Unknown, Unknown>> ELSE <<Weekday(h), HourOfDay(h)>>

\* price_buckets: each bucket at its own weekday and hour, then collapsed.
PricedAt(b, d, hk, tables) ==
  Priced(b, ComputeCost(tables, d.provider, d.model, b.usage, hk[1], hk[2]))

\* Mutant of PriceBuckets: the day is summed first and priced at one of its hours.
PriceBucketsSummed(cells, tables) ==
  LET c == CHOOSE c \in cells : TRUE IN
  PricedAt(Merged(cells, CellBucket), DisplayModel(c.key), HourKey(c.key.hour), tables)

PriceBuckets(cells, tables) ==
  Merged({HourKey(c.key.hour) : c \in cells},
         LAMBDA hk : PricedAt(Merged({c \in cells : HourKey(c.key.hour) = hk}, CellBucket),
                              DisplayModel((CHOOSE c \in cells : TRUE).key), hk, tables))

\* fold_cells: per hash its sessions and its priced buckets by day and model.
FoldCells(cells, w, tables) ==
  LET in      == {c \in cells : DayInRange(DayKey(c.key.hour), w)}
      Of(h)   == {c \in in : c.key.session.hash = h}
      Addr(c) == <<DayKey(c.key.hour), DisplayModel(c.key)>>
  IN  [h \in {c.key.session.hash : c \in in} |->
         [sessions |-> Cardinality({c.key.session : c \in Of(h)}),
          byDay |-> [a \in {Addr(c) : c \in Of(h)} |->
                       PriceBuckets({c \in Of(h) : Addr(c) = a}, tables)]]]

UsageCache(rows, w, tables) == FoldCells(UsageCells(rows, HourBounds(w)), w, tables)

\* resolve_group: the nearest marker up the path as it is spelled, else itself.
ResolveGroup(p) ==
  LET up == {n \in 0..Len(PathOf[p]) : SubSeq(PathOf[p], 1, n) \in Markers} IN
  IF up = {} THEN PathOf[p] ELSE SubSeq(PathOf[p], 1, Max(up))

NoUsage == [sessions |-> 0, byDay |-> <<>>]

\* aggregate_projects: owners maps the projects that own a log directory to its
\* hash.  A bucket per path, day and model.
UsageOf(cache, h) == IF h \in DOMAIN cache THEN cache[h] ELSE NoUsage
OwnedUsage(p, cache, owners) ==
  IF p \in DOMAIN owners THEN UsageOf(cache, owners[p]) ELSE NoUsage
SharesOf(x, usage) == {<<x, a, usage.byDay[a]>> : a \in DOMAIN usage.byDay}
Shares(projects, cache, owners) ==
  UNION {SharesOf(p, OwnedUsage(p, cache, owners)) : p \in projects}
Total(S) == Merged(S, LAMBDA s : s[3])
ProjectRow(root, of, cache, owners) ==
  [path |-> root, exists |-> of \cap DOMAIN owners # {},
   sessions |-> MapThenSumSet(LAMBDA p : OwnedUsage(p, cache, owners).sessions, of),
   total |-> Total(Shares(of, cache, owners))]
ProjectRows(projects, cache, owners) ==
  {r \in {ProjectRow(g, {p \in projects : ResolveGroup(p) = g}, cache, owners) :
             g \in {ResolveGroup(p) : p \in projects}} : r.sessions > 0}

\* aggregate_orphaned: what no registered project owns, hidden ones included.
OrphanedShares(cache, owners) ==
  UNION {SharesOf(h, cache[h]) : h \in DOMAIN cache \ Range(owners)}

\* build_report: shown are the projects that the pattern selects.
Report(lines, shares, orphan) ==
  LET all == shares \cup orphan IN
  [rows |-> lines, orphaned |-> Total(orphan),
   byModel |-> [m \in {s[2][2] : s \in all} |-> Total({s \in all : s[2][2] = m})],
   byDay |-> [d \in {s[2][1] : s \in all} |-> Total({s \in all : s[2][1] = d})]]
ReportOf(cache, shown, owners, showOrphaned) ==
  Report(ProjectRows(shown, cache, owners), Shares(shown, cache, owners),
         IF showOrphaned THEN OrphanedShares(cache, owners) ELSE {})
BuildReport(rows, shown, owners, w, showOrphaned, tables) ==
  ReportOf(UsageCache(rows, w, tables), shown, owners, showOrphaned)

\* day_totals: what usage.json says of one day.
DayTotals(rows, day, tables) ==
  Total(OrphanedShares(UsageCache(rows, <<day, day>>, tables), <<>>))
=============================================================================
