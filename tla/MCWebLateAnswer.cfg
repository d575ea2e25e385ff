SPECIFICATION Spec
CONSTANTS
  Path = {p1, p2}
  Content = {c1}
  None = None
  Closed = Closed
  Tab = {t1}
  Conn = {k1, k2}
  Patient = {}
  Ok = Ok
  Unknown = Unknown
  MaxFails = 0
SYMMETRY Symmetry
INVARIANTS
  EveryEdit
