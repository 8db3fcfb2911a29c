SPECIFICATION LSpec
CONSTANTS
  Names = {n1}
  Ids = {i1, i2}
  Types = {t1, t2}
  Revs = {r1}
  Values = {a, b}
  Handlers = {p1}
  Boot = boot
  Torn = FALSE
  StoreFails = TRUE
  MaxWrites = 3
  MaxEpochs = 4
  MaxHolders = 3
  MaxEdits = 1
  MaxCrashes = 2
  MaxServes = 0
  None = None
INVARIANTS
  AckedInMemory
  AckedInStore
CHECK_DEADLOCK FALSE
