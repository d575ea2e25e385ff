SPECIFICATION Spec
CONSTANTS
  Path = {p1, p2}
  Content = {c1}
  None = None
  Closed = Closed
  Tab = {t1}
  Conn = {k1, k2}
  Patient = {t1}
  Ok = Ok
  Unknown = Unknown
  MaxFails = 1
SYMMETRY Symmetry
INVARIANTS
  TypeOK
  OkIsDurable
  PatientEdits
