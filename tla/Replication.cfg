SPECIFICATION RSpec
CONSTANTS
  ipA = ipA
  ipB = ipB
  Values = {ipA, ipB}
  Exps = {1, 2}
  Mirrors = {m1}
  Changes <- AllChanges
  Small <- SmallOnes
  Settings <- ZeroTTLs
  DefaultTTL = 2
  SnapMargin = 2
  CallLag = 1
  ReplyLag = 1
  Prompt = FALSE
  MaxSeq = 3
  MaxEpochs = 2
  MaxFaults = 1
  MaxCrashes = 1
INVARIANTS
  MirrorTruth
  NumberNamesState
  ReferenceAlive
  BridgeOutlives
  BridgeStands
PROPERTIES
  ImplementsFeed
