SPECIFICATION FairSpec
CONSTANTS
  s1 = s1  s2 = s2  r1 = r1  r2 = r2  r3 = r3  r4 = r4
  c1 = c1  c2 = c2  c3 = c3  x = x  y = y
  Sessions = {s1}
  Records = {r1, r2, r3}
  Contents = {c1, c2, c3}
  Strings = {x, y}
  Dir <- Dirs
  Holds <- Talk
  Quotes <- TalkStrings
  Ids = {s1}
  IdOf <- OwnId
  Bad = Bad  Torn = Torn  NoRecord = NoRecord  NoSession = NoSession
  Events = {"ioerror", "nodir", "crash"}
  MaxMishaps = 2
  Old = {}
  ChunkRecords = 2
INVARIANTS
  IndexedInOrder
  NoStringLost
PROPERTIES
  EventuallyIndexed
  EventuallyResolved
