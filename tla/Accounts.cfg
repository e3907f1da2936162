SPECIFICATION FairSpec
CONSTANTS
  w = w  x = x  y = y  s = s  l = l  k = k  q1 = q1  q2 = q2  q3 = q3  q4 = q4  q5 = q5  q6 = q6
  Launches = {l, k}
  Requests = {q1, q2, q3, q4, q5, q6}
  Dirs = {w, x, y}
  Aliases = {s}
  Info <- MCInfo
  Target <- MCTarget
  Plans <- MCPlans
  Tables <- MCTables
  Windows <- MCWindows
  MaxEvents = 1
  NoPath = NoPath
  Canonical <- MCCanonical
  LongSuffix = 0
  Peak <- MCPeak
  PeakDays = {0, 1, 2, 3, 4}
  Threshold = 1
  Unknown = Unknown
  DayStart = 3
  MinDay = 0
  MaxDay = 9
  DefaultDays = 2
  Open = Open
  NoModel = NoModel
  Markers <- MCMarkers
  PathOf <- MCPathOf
  CellLen <- MCCellLen
  NoRow = NoRow
  Self = "."
INVARIANTS ClaimedOnce DeletedIsForgotten ReportAddsUp TreeShowsAll
PROPERTIES CleanupSpares SweepSparesUsed EventuallyCounted
CHECK_DEADLOCK FALSE
