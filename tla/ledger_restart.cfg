SPECIFICATION Spec
CONSTANTS
  r1 = r1
  r2 = r2
  r3 = r3
  None = None
  Boot = Boot
  Requests = {r1, r2, r3}
  Contents = {"c0", "c1"}
  BootContent = "c0"
  Kinds = {"attest", "revoke", "supersede", "get", "consistency"}
  Stores = {"postgres"}
  WriteModes = {TRUE, FALSE}
  Loaded = FALSE
  MaxInFlight = 1
  Faults = {"crash", "chain"}
  MaxFaults = 2
SYMMETRY Symmetry
INVARIANT RebuildKeepsHeads
CHECK_DEADLOCK FALSE
