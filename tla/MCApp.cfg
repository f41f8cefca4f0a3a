SPECIFICATION Spec
CONSTANTS
  c1 = c1
  c2 = c2
  a1 = a1
  s1 = s1
  s2 = s2
  s3 = s3
  w1 = w1
  Conns = {c1, c2}
  Agents = {a1}
  AgentOf <- MCAgentOf
  Says <- MCSays
  MaxTabs = 1
  MaxRequests <- MCRequests
  MaxStops = 1
  MaxConnections = 2
  Nobody = Nobody
  Panes = {w1}
  Sites = {s1, s2, s3}
  Preloaded = {s2}
  ApplePinned = {s3}
  PartsOf <- MCParts
  DirectKept = 2
  MaxPages = 2
  Blank = Blank
  Typing = Typing
  Nothing = Nothing
  MaxOpen = 3
  KeptClosed = 1
  MaxRuns = 2
  SessionWindows = 2
  SessionTabs = 2
  MaxSteps = 3
  Mine = Mine
  Theirs = Theirs
  Own = Own
  q0 = q0
  q1 = q1
  q2 = q2
  u1 = u1
  u2 = u2
  Askers = {q0, q1, q2}
  Starter = q0
  AskCapacity = 1
  Urls = {u1, u2}
  MaxLoads = 2
  MaxWork = 2
  Empty = Empty
  NoUrl = NoUrl
  Shells = {sh1, sh2}
  MaxVersion = 2
  NoListener = NoListener
INVARIANTS
  StopIsFinal
  ControlledWhileHeld
  LoadedAgainOnce
  BarHonest
  KeptIsPersons
  WindowHonest
  OneRelease
PROPERTIES
  TypingKept
  LaunchLosesNone
CHECK_DEADLOCK FALSE
