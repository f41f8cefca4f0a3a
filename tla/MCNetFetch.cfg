CONSTANTS
  r1 = r1
  w1 = w1
  u1 = u1
  u2 = u2
  u3 = u3
  s1 = s1
  s2 = s2
  s3 = s3
  b1 = b1
  b2 = b2
  None = None
  Elsewhere = Elsewhere
  Requests = {r1}
  Writes = {w1}
  Urls = {u1, u2, u3}
  Sites = {s1, s2, s3}
  Site <- MCSite
  Bodies = {b1, b2}
  Asks <- MCAsks
  Answers <- MCAnswers
  Speaks = {s3}
  PublicOnly = TRUE
  MaxRedirects = 1
  MaxClears = 1
  Lifetime = 1
  Cooldown = 1
  MaxTime = 1
  Quic = TRUE
SPECIFICATION Fetching
INVARIANTS
  NothingFromBefore
  DeclaredIsWhatArrives
PROPERTIES
  CredentialsStayHome
