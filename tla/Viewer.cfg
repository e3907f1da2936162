SPECIFICATION FairSpec
CONSTANTS
  c1 = c1  c2 = c2  c3 = c3
  Commands = {c1, c2, c3}
  Kind <- Mixed
  Before = v0
  Found = {"serving", "dead"}
  MaxPort = 2  Foreign = {1}
  Events = {"crash", "kill", "fail"}
  MaxMishaps = 1
  NoCommand = NoCommand  NoState = NoState  Torn = Torn  Garbled = Garbled
INVARIANTS
  SpawnUnderLock
  OneViewerUnlessSlipped
  ToldTheTruth
PROPERTIES
  EveryCommandEnds
