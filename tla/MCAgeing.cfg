SPECIFICATION SequentialSpec
CONSTANTS
  unsaid = unsaid
  absent = absent
  unreadable = unreadable
  newline = newline
  Unsaid = unsaid
  Absent = absent
  Unreadable = unreadable
  Newline = newline
  Reps <- MCReps
  Length <- MCLength
  Tag <- MCTag
  Modified <- MCModified
  RangeHeaders <- MCRangeHeaders
  Word = 8
  NoControl <- MCNoControl
  Responses <- MCResponses
  Demands <- MCDemands
  MaxTime = 3
  Skews = {0, 2}
  Divisor = 2
  MaxHeuristic = 2
  Pages <- MCPages
  Budgets = {0, 1, 2, 3, 5, 7, 9, 12, 40}
  Walks = {0, 2}
  Lines <- MCLines
  Sent = 3
  MaxRequest = 2
INVARIANT
  FreshIsYoung
CHECK_DEADLOCK FALSE
