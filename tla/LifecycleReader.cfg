SPECIFICATION Spec
CONSTANTS
  l1 = l1  l2 = l2  l3 = l3  p1 = p1  p2 = p2
  Launches = {l1, l2}
  LiteLLM = {p1}
  Telegram = tg
  Provider <- OneProvider
  WithTelegram = {}
  Headless = {}
  Legacy = {}
  Faults = {"reader"}
  Waiters = waiters
  NoLaunch = NoLaunch  NoKey = NoKey  OldKey = OldKey
PROPERTIES
  NoStopUnderAgent
