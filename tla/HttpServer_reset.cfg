SPECIFICATION HttpSpec
CONSTANTS
  Workers = {w1, w2}
  Contexts = {c1, c2}
  Socks = {s1, s2}
  AcceptIos = {a1}
  MaxConn = 1
  MaxBytes = 1
  Faults = {}
  None = None
  MaxDecodes = 1
PROPERTIES
  ResetPendingZero
