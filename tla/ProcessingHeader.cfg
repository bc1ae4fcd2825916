\* Comment of ChainStatus::Processing, chain/mod.rs.
SPECIFICATION Spec
CONSTANTS
  MaxU64 = 20
  MaxU128 = 30
  Skew = 1
  Calls = {c1, c2}
  Bodies <- MCBodies
  NoBody = NoBody
  Txs <- MCTxs
  Inputs <- MCInputs
  MaxUpsert = 1
  MaxHold = 1
  MaxTime = 3
SYMMETRY Symmetric
INVARIANTS
  ProcessingSurfaces
CHECK_DEADLOCK FALSE
