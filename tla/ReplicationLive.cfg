SPECIFICATION RFairSpec
CONSTANTS
  ipA = ipA
  ipB = ipB
  Values = {ipA, ipB}
  Exps = {1, 2}
  Mirrors = {m1}
  Changes <- AllChanges
  Small <- SmallOnes
  Settings <- ZeroTTLs
  DefaultTTL = 1
  SnapMargin = 1
  CallLag = 0
  ReplyLag = 0
  Prompt = TRUE
  MaxSeq = 3
  MaxEpochs = 2
  MaxFaults = 1
  MaxCrashes = 1
PROPERTIES
  CatchesUp
