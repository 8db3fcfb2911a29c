SPECIFICATION PFairSpec
CONSTANTS
  a = a
  b = b
  solo = solo
  origin = origin
  Values = {a, b}
  Exps = {0, 1}
  Writers = {w1, w2}
  WhyOf <- PairWhy
  Boot = boot
  Whys = {origin, boot}
  LoadedExps = {0}
  Scripts <- MixedScripts
  Limit = 1
  BatchMax = 2
  QueueMax = 2
  Depth = 1
  FlightMax = 3
  MaxDeltas = 3
  MaxBatches = 2
  MaxAborts = 1
  MaxNow = 0
  Coalesce = FALSE
  Deadlines = TRUE
  Torn = TRUE
  MayStop = TRUE
  Absent = Absent
  Unplanned = Unplanned
INVARIANTS
  QueueAccounted
PROPERTIES
  AddAckedIsStored
  EveryWriteAnswered
CHECK_DEADLOCK FALSE
