SPECIFICATION Spec
CONSTANTS
  s1 = s1  s2 = s2  r1 = r1  r2 = r2  r3 = r3  r4 = r4
  c1 = c1  c2 = c2  c3 = c3  x = x  y = y
  Sessions = {s1, s2}
  Records = {r1, r2, r4}
  Contents = {c1, c2}
  Strings = {x, y}
  Dir <- Dirs
  Holds <- Talk
  Quotes <- TalkStrings
  Ids = {s1, s2}
  IdOf <- OwnId
  Bad = Bad  Torn = Torn  NoRecord = NoRecord  NoSession = NoSession
  Events = {"ioerror", "nodir", "full", "kill", "torn", "crash", "reclaim", "late"}
  MaxMishaps = 2
  Old = {r1, r2}
  ChunkRecords = 1
INVARIANTS
  ContentIsStored
PROPERTIES
  SweepSparesReachable
  IdleNotDeletedUnread
  ImplementsRequestIndex
