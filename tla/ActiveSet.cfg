SPECIFICATION FairSpec
CONSTANTS
  Values = {a, b}
  Exps = {0, 1, 2}
  Whys = {w}
  Limit = 1
  BatchMax = 1
  FlightMax = 3
  MaxDeltas = 2
  MaxBatches = 2
  MaxAborts = 1
  MaxNow = 1
  Absent = Absent
  Unplanned = Unplanned
INVARIANTS
  TypeOK
  SetInv
  CommittedMatchesPlan
  HashIsContent
  PendingCoherent
  LimitRespected
  ExpiryTracked
  SweepTakesExpired
PROPERTIES
  SeqConsecutive
  ExpiredLeaves
