SPECIFICATION LSpec
CONSTANTS
  Names = {n1}
  Ids = {i1}
  Types = {t1}
  Revs = {r1}
  Values = {a, b}
  Handlers = {p1}
  Boot = boot
  Torn = FALSE
  StoreFails = FALSE
  MaxWrites = 3
  MaxEpochs = 3
  MaxHolders = 3
  MaxEdits = 0
  MaxCrashes = 0
  MaxServes = 1
  None = None
INVARIANTS
  AckedInMemory
CHECK_DEADLOCK FALSE
