SPECIFICATION Spec
CONSTANTS
  Calls = {c1, c2}
  NoCall = NoCall
  Tools <- MCTools
  Nonces = {"n1", "n2"}
  Payments <- MCPayments
  Sound <- MCSound
  Requests <- MCRequests
  NoPayment = NoPayment
  MaxRestarts = 1
SYMMETRY Symmetric
INVARIANTS
  TypeOK
  OneRunPerPayment
  StatusTells
