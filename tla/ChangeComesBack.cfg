SPECIFICATION Spec
CONSTANTS
  MaxU64 = 9
  Payments = {p1}
  Payer = "payer"
  Payees = {"payee"}
  Requirements <- MCRequirements
  Timelocks = {1}
  Genesis <- MCGenesis
  MaxNote = 7
  NoAuth = NoAuth
  NoHash = NoHash
INVARIANTS
  ChangeComesBack
CHECK_DEADLOCK FALSE
