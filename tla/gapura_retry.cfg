SPECIFICATION MCSpec
CONSTANTS
  Focus = {"gateway"}
  c1 = c1
  c2 = c2
  p1 = p1
  p2 = p2
  Clients = {c1}
  Flavor <- MCFlavor
  Digests = {d1}
  Bodies <- MCBodies
  Keys = {k1, k2}
  Stores = {"memory", "postgres"}
  MaxRetries = 2
  MaxRequests = 3
  MaxRunning = 1
  MaxFaults = 1
  Tenants = {m1, m2}
  Hashes = {e1}
  Untils = {1, 2}
  Retentions <- MCRetentions
  EvidenceStores = {"memory", "postgres"}
  Zone = "utc"
  MaxDay = 1
  MaxCalls = 3
  MaxResends = 1
  w1 = w1
  w2 = w2
  Wallets = {w1, w2}
  Sdk <- MCSdk
  Replicas = {r1}
  MaxSends = 2
  MaxCalling = 3
  MaxRpcFaults = 1
  Users = {u1, u2, u3}
  FirstOwner = u1
  MaxAdmins = 1
  MaxSignIns = 1
  MaxConsoleCalls = 6
  Callers = {q1, q2}
  Lifetimes = {1, 4}
  Skew = 1
  MinLease = 2
  MaxDelay = 1
  MaxTime = 5
  MaxLogins = 3
  j1 = j1
  j2 = j2
  h1 = h1
  h2 = h2
  Jobs = {j1, j2}
  HostOf <- MCHostOf
  Interval <- MCInterval
  Listed = {j1}
  Grace = 1
  Missing = Missing
  MaxClock = 6
  MaxTroubles = 2
  MaxKeys = 2
  MaxLives = 3
  MaxAnchors = 3
  MaxKeyFaults = 1
INVARIANT OneAnchorPerDigest
CHECK_DEADLOCK FALSE
