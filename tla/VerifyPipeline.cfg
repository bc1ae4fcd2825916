\* TTL 6 is one more than MaxWindow + 2 * Skew + MaxDrift + MaxStall.
SPECIFICATION Spec
CONSTANTS
  MaxU64 = 20
  MaxU128 = 30
  Skew = 1
  ReplayTTL = 6
  Requests = {r1, r2}
  Nonces = {"n1", "n2"}
  Bodies <- MCBodies
  NoBody = NoBody
  MaxWindow = 1
  MaxDrift = 1
  MaxStall = 1
  MaxTime = 6
SYMMETRY Symmetric
INVARIANTS
  TypeOK
  AtMostOnceAccepted
  CacheOutlivesWindow
  OnlyTimelyNonces
PROPERTIES
  ImplementsPromise
