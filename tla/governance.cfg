SPECIFICATION MCSpec
CONSTANTS
  g1 = g1
  g2 = g2
  g3 = g3
  i1 = i1
  ctl = ctl
  k1 = k1
  k2 = k2
  Accounts = {g1, g2, g3}
  InitialGovernors = {g1, g2, g3}
  InitialThreshold = 2
  Thresholds = {2, 3}
  Calls <- MCCalls
  NoCall <- MCNoCall
  MaxProposals = 2
  Issuers = {i1}
  Controllers = {ctl}
  Keys = {k1, k2}
  Nobody = Nobody
  Contract = Contract
  Registrars = {Contract, ctl}
  tenant = tenant
  events = events
  ra = ra
  rb = rb
  TreeHead <- MCTreeHead
  AttestedIn <- MCLogs
  AttestedLogs <- MCLogs
  EvidencedIn <- NoLogs
  Submissions <- MCSubmissions
  ZeroRoot = ZeroRoot
  MaxUint64 = 3
  MaxInt64 = 2
  HeadStores = {"memory", "postgres"}
  MaxHeadCalls = 3
  MaxHeadResends = 1
  MaxHeadFaults = 1
SYMMETRY Symmetry
INVARIANTS Quorum AddedOnce HeadsAreAuditable LargestCheckpointShown
PROPERTIES ProposedIsFixed RevokedIsFinal ChangesBacked
CHECK_DEADLOCK FALSE
