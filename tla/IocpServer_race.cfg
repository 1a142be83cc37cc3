SPECIFICATION Spec
CONSTANTS
  Workers = {w1, w2, w3}
  Contexts = {c1, c2, c3}
  Socks = {s1, s2, s3}
  AcceptIos = {a1, a2}
  MaxConn = 1
  MaxBytes = 0
  Faults = {"associate", "accept", "recv", "cancel"}
  None = None
SYMMETRY Symmetry
INVARIANTS
  AcceptBound
