SPECIFICATION Spec
CONSTANTS
  r1 = r1
  r2 = r2
  r3 = r3
  None = None
  Boot = Boot
  Requests = {r1, r2, r3}
  Contents = {"c0", "c1"}
  BootContent = "c0"
  Kinds = {"attest", "revoke", "supersede", "status", "proof"}
  Stores = {"postgres", "memory"}
  WriteModes = {TRUE, FALSE}
  Loaded = TRUE
  MaxInFlight = 2
  Faults = {"db", "chain"}
  MaxFaults = 1
SYMMETRY Symmetry
INVARIANTS TypeOK RowsBacked AnswersHold
PROPERTIES Implements RevokedUnlessReadBefore
CHECK_DEADLOCK FALSE
