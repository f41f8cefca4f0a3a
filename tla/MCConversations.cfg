SPECIFICATION FairSpec
CONSTANTS
  t1 = t1
  t2 = t2
  c1 = c1
  c2 = c2
  h1 = h1
  h2 = h2
  s1 = s1
  s2 = s2
  s3 = s3
  s4 = s4
  n1 = n1
  n2 = n2
  None = None
  Tokens = {c1, c2}
  Ttl = 1
  Skew = 0
  Outstanding = 1
  Homes = {h1}
  Served = h1
  Seals = {s1}
  Enrollers = {}
  IdleTimeout = 1
  SleepSlack = 0
  MaxMono = 1
  MaxWall = 2
  ScreenTold = FALSE
  Conversations = {t1, t2}
PROPERTIES
  LapsedIsForgotten
  WaitsOnlyForPeople
