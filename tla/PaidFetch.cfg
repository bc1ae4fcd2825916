SPECIFICATION Spec
CONSTANTS
  MaxU64 = 7
  MaxU128 = 8
  Skew = 1
  Calls = {c1}
  Offers <- MCOffers
  Allowed <- MCAllowed
  Backdate = 1
  ClockGap = 2
  Start = 0
  MaxTime = 4
  MaxRestarts = 1
  NoPayload = NoPayload
INVARIANTS
  TypeOK
  InTimeIsAccepted
  RefusalsExplained
  SettleFollowsVerify
