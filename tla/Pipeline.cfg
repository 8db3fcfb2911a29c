SPECIFICATION PSpec
CONSTANTS
  a = a
  b = b
  solo = solo
  origin = origin
  Values = {a, b}
  Exps = {0, 1, 2}
  Writers = {w1, solo}
  WhyOf <- PairWhy
  Boot = boot
  Whys = {origin, solo, boot}
  LoadedExps = {1}
  Scripts <- MixedScripts
  Limit = 1
  BatchMax = 2
  QueueMax = 2
  Depth = 1
  FlightMax = 3
  MaxDeltas = 3
  MaxBatches = 2
  MaxAborts = 1
  MaxNow = 1
  Coalesce = TRUE
  Deadlines = FALSE
  Torn = TRUE
  MayStop = FALSE
  Absent = Absent
  Unplanned = Unplanned
INVARIANTS
  RefusedLeavesNoTrace
  NoJobLost
  MemoryMatchesStore
PROPERTIES
  AnsweredOnce
  Spec
