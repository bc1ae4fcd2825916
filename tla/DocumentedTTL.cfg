\* The TTL the doc comment of with_replay_ttl asks for, and clocks that agree.
SPECIFICATION Spec
CONSTANTS
  MaxU64 = 20
  MaxU128 = 30
  Skew = 1
  ReplayTTL = 2
  Requests = {r1, r2}
  Nonces = {"n1", "n2"}
  Bodies <- MCBodies
  NoBody = NoBody
  MaxWindow = 1
  MaxDrift = 0
  MaxStall = 0
  MaxTime = 6
SYMMETRY Symmetric
INVARIANTS
  DocumentedTTLSuffices
CHECK_DEADLOCK FALSE
