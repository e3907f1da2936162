SPECIFICATION FairSpec
CONSTANTS
  p1 = p1  p2 = p2  h1 = h1  h2 = h2  k1 = k1  k2 = k2  k3 = k3  s1 = s1  s2 = s2
  r1 = r1  r2 = r2  r3 = r3  b1 = b1  b2 = b2
  Projects = {p1, p2}
  Hashes = {h1, h2}
  Keys = {k1, k2}
  Records = {r1, r2}
  Root <- Roots
  HashOf <- Owned
  HashOfKey <- Under
  Sid <- Ids
  Rank <- Ranks
  KeyOf <- Spread
  Start <- InTurn
  Refs <- Growing
  Batch = 1
  NoRow = NoRow  Orphaned = Orphaned  Stop = Stop  Unknown = Unknown
  AtStart = {p1}
  Events = {"project", "forget", "reindex", "expire", "cleanup", "midnight", "fail", "stop"}
  MaxEvents = 2
INVARIANTS
  NothingIndexedIsHidden
PROPERTIES
  FollowsTheSession
  EventuallyListed
  EventuallyToday
CHECK_DEADLOCK FALSE
