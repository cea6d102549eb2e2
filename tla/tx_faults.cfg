SPECIFICATION FairSpec
CONSTANTS
  t1 = t1
  t2 = t2
  Txs = {t1, t2}
  Foreign = Foreign
  MaxRetries = 2
  BatchSize = 2
  PromptChain = FALSE
  MaxForeign = 1
  Faults = {"vault", "signer", "db", "redis", "rpc", "crash", "evict"}
  MaxFaults = 2
INVARIANTS TypeOK NoncesUnique SettledMatchesChain LastConfirmedMined
PROPERTIES SettledIsFinal EventuallySettled
CHECK_DEADLOCK FALSE
