\* Two validators, a mint their views of the chain confirm at different times, one crash, failed ledger write or failed commit, fairness.
SPECIFICATION Spec
CONSTANTS
  Node = {n1, n2}
  Quorum = 2
  Txs <- OneMint
  Deposits = {"deposit"}
  MaxBlocks = 2
  MaxBlockTxs = 2
  CacheBehind = 0
  MaxFaults = 1
  MaxSubmits = 1
  None = None
INVARIANTS MintsWitnessed
PROPERTIES FinalizedIsApplied
CHECK_DEADLOCK FALSE
