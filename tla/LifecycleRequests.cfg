SPECIFICATION LFairSpec
CONSTANTS
  Names = {n1, n2}
  Ids = {i1}
  Types = {t1}
  Revs = {r1}
  Values = {a}
  Handlers = {p1, p2}
  Boot = boot
  Torn = FALSE
  StoreFails = TRUE
  MaxWrites = 0
  MaxEpochs = 5
  MaxHolders = 5
  MaxEdits = 2
  MaxCrashes = 0
  MaxServes = 2
  None = None
INVARIANTS
  StoppedOnce
  OneNamePerId
  NoLeak
PROPERTIES
  RequestsEnd
CHECK_DEADLOCK FALSE
