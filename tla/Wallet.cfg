SPECIFICATION FairSpec
CONSTANTS
  MaxU64 = 9
  Payments = {p1, p2}
  Payer = "payer"
  Payees = {"payee"}
  Requirements <- MCRequirements
  Timelocks = {1}
  Genesis <- MCGenesis
  MaxNote = 7
  NoAuth = NoAuth
  NoHash = NoHash
INVARIANTS
  TypeOK
  SignedIsAcceptable
PROPERTIES
  SigningEnds
  MovesMoneyAsPromised
\* Every call may have ended.
CHECK_DEADLOCK FALSE
