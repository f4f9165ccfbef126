CONSTANTS
  t1 = t1
  c1 = c1
  c2 = c2
  c3 = c3
  p1 = p1
  p2 = p2
  Token = {t1}
  Client = {c1, c2, c3}
  Process = {p1, p2}
  Proc <- TwoAndOne
  NoToken = NoToken
  MaxFaults = 2
  MaxStalls = 0
  MaxWipes = 0
SPECIFICATION SemFairSpec
CHECK_DEADLOCK FALSE
PROPERTIES
  NoStarvation
