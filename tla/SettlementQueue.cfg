SPECIFICATION Spec
CONSTANTS
  MaxU64 = 20
  MaxU128 = 30
  Skew = 0
  Calls = {c1, c2, c3}
  Bodies <- QueueBodies
  NoBody = NoBody
  Txs <- QueueTxs
  Inputs <- QueueInputs
  MaxUpsert = 1
  MaxHold = 1
  MaxTime = 5
SYMMETRY Symmetric
INVARIANTS
  SubmitsTimely
