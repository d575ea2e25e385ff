SPECIFICATION Spec
CONSTANTS
  Record = {r1, r2}
  Torn = Torn
  Absent = Absent
  NoHandle = NoHandle
  LastBlock = 5
  FailedSyncDropsPages = FALSE
  ReadErrors = FALSE
INVARIANTS
  TypeOK
  AlwaysRecoverable
  RootsAreBacked
  HandleIsCurrent
PROPERTIES
  CommittedBytesFrozen
  ImplementsAtomicRoot
