SPECIFICATION MCSpec
CONSTANTS
  c1 = c1
  c2 = c2
  Contracts = {c1, c2}
  InitialWatch = {c1}
  BlockContents <- MCBlockContents
  MaxBlocks = 3
  MaxLag = 1
  Confirmations = 1
  BatchSize = 2
  MaxEvents = 10
  MinEvents = 1
  MaxManual = 1
  Faults = {"rpc", "db", "minio", "crash", "revert"}
  MaxFaults = 1
  MaxSize = 6
  f1 = f1
  f2 = f2
  f3 = f3
  f4 = f4
  Deployer = Deployer
  Flows <- MCFlows
  MaxCustodyFaults = 1
  Tanks <- RefineryTanks
  Refinery <- RefineryFlows
  InitialLiters = 900
  Names = {n1}
  MaxVersion = 2
  Addrs = {x1, x2}
  ZeroAddress = ZeroAddress
  MaxRegistrarCalls = 4
INVARIANTS
  EventsComplete
  CursorCovered
  RowHasBlob
  ServedProofsVerify
  ProofsBind
  SuccessIsDelivery
  GraphIsTheLedger
  NothingLeftBehind
PROPERTIES
  EventuallyCovered
  ResolutionMovesBySwitch
CHECK_DEADLOCK FALSE
