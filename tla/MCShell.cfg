SPECIFICATION Spec
CONSTANTS
  Path = {p1, p2}
  Content = {c1, c2}
  None = None
  Closed = Closed
  Text = {c1}
  Password = {empty, pw}
  Empty = empty
  Unknown = Unknown
  MaxFails = 2
  TempErrors = FALSE
SYMMETRY Symmetry
INVARIANTS
  TypeOK
  SuccessIsDurable
  EditKeepsText
  SessionOpens
  NoneMistyped
