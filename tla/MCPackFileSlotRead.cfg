SPECIFICATION Spec
CONSTANTS
  Inode = {i1, i2, i3}
  Password = {pw1, pw2}
  LastKeySlot = 1
  LastVersion = 2
  NoFile = NoFile
  NoHandle = NoHandle
  Empty = Empty
  Torn = Torn
  TornSlots = FALSE
  SlotReadErrors = TRUE
  DirSyncErrors = FALSE
  SyncSavesEntries = TRUE
SYMMETRY Symmetry
INVARIANTS
  PasswordOpens
