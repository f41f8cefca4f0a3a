CONSTANTS
  p1 = p1
  p2 = p2
  f1 = f1
  f2 = f2
  k1 = k1
  r1 = r1
  r2 = r2
  w1 = w1
  u1 = u1
  s1 = s1
  b1 = b1
  none = none
  elsewhere = elsewhere
  Peers = {p1, p2}
  Fetches = {f1, f2}
  Keys = {k1}
  Discovery = TRUE
  Serve = TRUE
  Announces = TRUE
  OpeningCredit = 1
  MaxLinks = 2
  MaxServed = 2
SPECIFICATION FairBoth
INVARIANTS
  WaitsForSomething
  TakesWithinCredit
PROPERTIES
  KeepsPromise
  SettlesEventually
CHECK_DEADLOCK FALSE
