SPECIFICATION Spec
CONSTANTS
  Prime = 3
  Lanes = 2
  Base = 4
  MaxU64 = 4
  Keys = {"k1", "k2"}
  PkhOf <- MCPkhOf
  Authorizations <- MCAuthorizations
  FieldValues <- MCFieldValues
  MaxEdits = 2
INVARIANTS
  TypeOK
  VerifiedIsSigned
  OrderDoesNotMatter
  SignerIsVerified
\* Everything may have been verified.
CHECK_DEADLOCK FALSE
