SPECIFICATION Spec
CONSTANTS
  t1 = t1
  t2 = t2
  c1 = c1
  c2 = c2
  h1 = h1
  h2 = h2
  s1 = s1
  s2 = s2
  s3 = s3
  s4 = s4
  n1 = n1
  n2 = n2
  None = None
  Tokens = {c1}
  Ttl = 1
  Skew = 0
  Outstanding = 1
  Homes = {h1, h2}
  Served = h1
  Seals = {s1, s2, s3}
  Enrollers = {n1}
  IdleTimeout = 1
  SleepSlack = 0
  MaxMono = 1
  MaxWall = 2
  ScreenTold = TRUE
  Conversations = {t1}
INVARIANTS
  SealedHasKey
PROPERTIES
  AcceptedOnce
  NoneSlipsIn
