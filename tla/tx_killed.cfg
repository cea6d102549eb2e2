SPECIFICATION FairSpec
CONSTANTS
  t1 = t1
  t2 = t2
  Txs = {t1, t2}
  Foreign = Foreign
  MaxRetries = 2
  BatchSize = 2
  PromptChain = TRUE
  MaxForeign = 0
  Faults = {"crash"}
  MaxFaults = 1
PROPERTY KilledMidTxConfirmed
CHECK_DEADLOCK FALSE
