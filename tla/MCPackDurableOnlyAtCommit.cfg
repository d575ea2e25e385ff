SPECIFICATION Spec
CONSTANTS
  Path = {p1}
  Content = {c1, c2}
  None = None
  Closed = Closed
  LogBound = 4
  ReopenErrors = TRUE
PROPERTIES
  DurableOnlyAtCommit
