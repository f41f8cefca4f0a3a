SPECIFICATION Spec
CONSTANTS
  Conns = {c1, c2}
  Sites = {s1, s2}
  Own = own
  Alias = alias
  Stats = stats
  None = None
  Keys = {1, 2, 3}
  Stale = {old}
  Starts <- MCLoneCert
  LeafHosts = {s1, s2}
  Tunnels = {t1, t2}
  LeafCapacity = 1
  Nothing = Nothing
  MaxAsked = 2
  BrowserHosts = {s1, s2}
  RefusedKept = 1
  RefusalsSaid = 1
  MaxBody = 3
  WholeLimit = 2
  Seeders = {r1, r2}
  ToolNames = {w1, w2}
  unsaid = unsaid
  absent = absent
  unreadable = unreadable
  newline = newline
  Unsaid = unsaid
  Absent = absent
  Unreadable = unreadable
  Newline = newline
  Reps <- MCReps
  Length <- MCLength
  Tag <- MCTag
  Modified <- MCModified
  RangeHeaders <- MCRangeHeaders
  Word = 8
  NoControl <- MCNoControl
  Responses <- MCResponses
  Demands <- MCDemands
  MaxTime = 3
  Skews = {0, 2}
  Divisor = 2
  MaxHeuristic = 2
  Pages <- MCPages
  Budgets = {0, 1, 2, 3, 5, 7, 9, 12, 40}
  Walks = {0, 2}
  Lines <- MCLines
  Sent = 3
  MaxRequest = 2
INVARIANT
  InterruptionLeavesKey
CHECK_DEADLOCK FALSE
