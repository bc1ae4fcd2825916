SPECIFICATION FairSpec
CONSTANTS
  MaxU64 = 20
  MaxU128 = 30
  Skew = 1
  Calls = {c1, c2}
  Bodies <- MCBodies
  NoBody = NoBody
  Txs <- MCTxs
  Inputs <- MCInputs
  MaxUpsert = 1
  MaxHold = 1
  MaxTime = 3
INVARIANTS
  TypeOK
  AcceptedIsFinal
  RefusalsSubmitNothing
PROPERTIES
  OnlySoundEffects
  CallsEnd
