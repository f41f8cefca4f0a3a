SPECIFICATION Spec
CONSTANTS
  t1 = t1
  t2 = t2
  v1 = v1
  v2 = v2
  a1 = a1
  a2 = a2
  nothing = nothing
  none = none
  NoEntry = none
  Threads = {t1}
  Ops = {"store", "partial", "lookup", "revalidate", "invalidate", "discard", "clear", "collect", "grant", "serve"}
  Methods = {"GET", "HEAD"}
  Urls = {"u"}
  Varies = {"x"}
  Contents = {v1, v2, a1, a2, nothing}
  Bodies = {v1, v2}
  Empty = nothing
  Slices <- TwoSlices
  Hashes = {"sha384"}
  Corruptible = {v1}
  Unwritable = {a1}
  MaxHits = 0
  MaxRefs = 2
  Capacity = 2
  Target = 1
INVARIANTS
  TagNamesBody
