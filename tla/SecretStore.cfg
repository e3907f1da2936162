SPECIFICATION Spec
CONSTANTS
  r = r  s = s  d = d  u = u  k = k  key = key  token = token  chat = chat  old = old
  Commands = {r, s, d, u, k}
  Kind <- MCKind
  Sidecar <- MCSidecar
  Crews <- MCCrews
  Keys = {key, token, chat, old}
  Prefix <- MCPrefix
  Required <- MCRequired
  Hosts <- MCHosts
  Events = {"kill", "lostkey", "unread", "nomachine"}
  Found = Found  NoKey = NoKey  Unfilled = Unfilled  Bare = Bare  NoValue = NoValue
INVARIANT SecretsKept
