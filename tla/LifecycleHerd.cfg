SPECIFICATION Spec
CONSTANTS
  l1 = l1  l2 = l2  l3 = l3  p1 = p1  p2 = p2
  Launches = {l1, l2, l3}
  LiteLLM = {p1, p2}
  Telegram = tg
  Provider <- TwoProviders
  WithTelegram = {l2, l3}
  Headless = {l3}
  Legacy = {}
  Faults = {"slow", "timeout"}
  Waiters = waiters
  NoLaunch = NoLaunch  NoKey = NoKey  OldKey = OldKey
INVARIANTS
  AgentIsRegistered
  AgentKeyWorks
  ApprovedIsRunning
  LastLightOut
PROPERTIES
  NoStopUnderAgent
