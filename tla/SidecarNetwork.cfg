SPECIFICATION Spec
CONSTANTS
  a = a  b = b  d = d  p = p  q = q
  Launches = {a, b, d}
  LiteLLM = {p, q}
  Telegram = tg
  Plans <- MCPlans
  PortLimit = 2
  Faults = {"fail", "slow", "kill", "death", "foreign", "network", "lost", "impatient",
            "deaf"}
  MaxFaults = 1
  Nobody = Nobody  NoFile = NoFile  Refused = Refused
INVARIANTS
  ReachesItsSidecars
  SessionsAreOfAgents
  StoppedScriptIsGone
