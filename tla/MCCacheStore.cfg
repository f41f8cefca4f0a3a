SPECIFICATION FairSpec
CONSTANTS
  t1 = t1
  t2 = t2
  v1 = v1
  v2 = v2
  a1 = a1
  a2 = a2
  nothing = nothing
  none = none
  NoEntry = none
  Threads = {t1, t2}
  Ops = {"store", "lookup", "invalidate", "discard", "clear", "grant", "serve"}
  Methods = {"GET"}
  Urls = {"u"}
  Varies = {"x", "y"}
  Contents = {v1, v2, nothing}
  Bodies = {v1, v2}
  Empty = nothing
  Slices <- NoSlices
  Hashes = {"sha384"}
  Corruptible = {}
  Unwritable = {v2}
  MaxHits = 0
  MaxRefs = 2
  Capacity = 1
  Target = 1
INVARIANTS
  RowsHaveFiles
  EligibleHasRow
  QuietIsClean
PROPERTIES
  ClearErases
  CallsReturn
