SPECIFICATION Spec
CONSTANTS
  c1 = c1
  c2 = c2
  Contracts = {c1, c2}
  InitialWatch = {c1, c2}
  BlockContents <- MCBlockContents
  MaxBlocks = 3
  MaxLag = 1
  Confirmations = 1
  BatchSize = 2
  MaxEvents = 1
  MinEvents = 1
  MaxManual = 0
  Faults = {}
  MaxFaults = 0
INVARIANT CursorCovered
CHECK_DEADLOCK FALSE
