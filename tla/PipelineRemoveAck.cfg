SPECIFICATION PSpec
CONSTANTS
  a = a
  b = b
  solo = solo
  origin = origin
  Values = {a, b}
  Exps = {0, 1}
  Writers = {w1, w2, solo}
  WhyOf <- PairWhy
  Boot = boot
  Whys = {origin, solo, boot}
  LoadedExps = {0}
  Scripts <- MixedScripts
  Limit = 0
  BatchMax = 2
  QueueMax = 3
  Depth = 1
  FlightMax = 3
  MaxDeltas = 3
  MaxBatches = 3
  MaxAborts = 1
  MaxNow = 0
  Coalesce = FALSE
  Deadlines = FALSE
  Torn = FALSE
  MayStop = FALSE
  Absent = Absent
  Unplanned = Unplanned
SYMMETRY WriterSymmetry
INVARIANTS
  AckedIsStored
