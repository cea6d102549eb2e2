SPECIFICATION Spec
CONSTANTS
  r1 = r1
  r2 = r2
  r3 = r3
  None = None
  Boot = Boot
  Requests = {r1, r2}
  Contents = {"c0", "c1"}
  BootContent = "c0"
  Kinds = {"attest"}
  Stores = {"postgres"}
  WriteModes = {TRUE}
  Loaded = FALSE
  MaxInFlight = 2
  Faults = {}
  MaxFaults = 0
SYMMETRY Symmetry
INVARIANT HeadsConsistent
CHECK_DEADLOCK FALSE
