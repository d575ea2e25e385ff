SPECIFICATION Spec
CONSTANTS
  Path = {p1, p2}
  Content = {c1, c2}
  None = None
  Closed = Closed
  LogBound = 4
  ReopenErrors = TRUE
INVARIANTS
  TypeOK
  RefcountsExact
  NothingDangles
PROPERTIES
  CompactIsTight
  ImplementsFileMap
