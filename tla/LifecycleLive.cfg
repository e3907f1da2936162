SPECIFICATION FairSpec
CONSTANTS
  l1 = l1  l2 = l2  l3 = l3  p1 = p1  p2 = p2
  Launches = {l1, l2}
  LiteLLM = {p1}
  Telegram = tg
  Provider <- OneProvider
  WithTelegram = {l2}
  Headless = {}
  Legacy = {}
  Faults = {"fail", "stopfail", "slow", "timeout", "kill", "death"}
  Waiters = waiters
  NoLaunch = NoLaunch  NoKey = NoKey  OldKey = OldKey
PROPERTIES
  StartIsDecided
  TeardownEnds
