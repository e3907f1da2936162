SPECIFICATION Spec
CONSTANTS
  a = a  b = b  f = f  u = u  x = x  p = p  q = q  d1 = d1  d2 = d2  d3 = d3
  Commands = {a, b, f, u, x}
  Crews <- MCCrews
  Kind <- MCKind
  MaxVersion = 3
  Published = {2}
  OnMaster = FALSE
  Tagged = {}
  Default <- MCDefault
  Custom = Custom
  Absent = Absent
  NoVersion = NoVersion
  Events = {"docker", "build", "git", "database", "kill", "commit", "edit"}
  MaxMishaps = 1
  Scripts <- MCScripts
  Projects = {p, q}
  Base = Base
  Untagged = Untagged
  Target <- MCTarget
  AtStart = {}
  Iteration <- MCIteration
  FoundImages <- MCFound
  MaxImages = 5
  NoCommand = NoCommand
  NoImage = NoImage
  NoLabel = NoLabel
  Blank = Blank
INVARIANTS DatabaseConverges ReadyUnlessSlipped
PROPERTY BuildsAreDue
CHECK_DEADLOCK FALSE
