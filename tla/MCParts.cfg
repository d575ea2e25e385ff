SPECIFICATION Spec
CONSTANTS
  Slash = "/"
  Dot = "."
  Newline = "nl"
  Blank = " "
  Hash = "#"
  Other = {"a"}
  MaxLen = 5
  MaxName = 3
  MaxNames = 2
  ByHand = ByHand
  SizeMax = 31
  Indexes <- SmallIndexes
  Nothing = Nothing
  MaxBytes = 4
  MaxOffset = 6
  WordSize = 4
  MaxChunk = 2
  MaxInterrupts = 1
  Uint32Size = 16
  SizeTSize = 16
  kMaxKdfLanes = 3
  kMaxKdfBlocks = 8
  BlocksPerLane = 2
  BlockBytes = 2
  Thread = {t1, t2}
  SpHandle = {h1, h2}
  Client = {c1, c2}
  Password = {pw1, pw2, Empty}
  NoPassword = Empty
INVARIANTS
  NormalName
  DelsAreTheEntries
  PlainNamesSurvive
  RoundTrip
  TruncationFails
  InBounds
  ExactlyMoved
  OnlyTheCeilingWraps
  EntriesLive
  OkOpens
PROPERTIES
  Ends
  ChangedByWhoKnows
CHECK_DEADLOCK FALSE
