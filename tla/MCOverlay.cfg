SPECIFICATION Spec
CONSTANTS
  Path = {p1, p2}
  Content = {c1, c2}
  None = None
  Closed = Closed
  NoPack = NoPack
  OddPath = {}
  ReadBack <- LineReadBack
SYMMETRY Symmetry
INVARIANTS
  TypeOK
  UpdateIsWhole
  MergeIsAtomic
PROPERTIES
  DiffThenMerge
