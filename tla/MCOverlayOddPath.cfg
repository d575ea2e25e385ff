SPECIFICATION Spec
CONSTANTS
  Path = {p1}
  Content = {c1, c2}
  None = None
  Closed = Closed
  NoPack = NoPack
  OddPath = {p1}
  ReadBack <- LineReadBack
PROPERTIES
  DiffThenMerge
