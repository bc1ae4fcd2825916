------------------------------ MODULE Envelope ------------------------------
(***************************************************************************)
(* The checks of one payment envelope that read nothing but the request:   *)
(* what `verify_envelope_inner` tests before it reads the clock, and what  *)
(* the scheme handlers (`exact`, `upto`) test in `verify`.                 *)
(*                                                                         *)
(* A request body is a record.  Its strings are members of small sets:     *)
(*   version, scheme, network           what the PaymentPayload claims     *)
(*   reqScheme, reqNetwork, payTo, cap, asset   the PaymentRequirements    *)
(*   decodes    the JSON payload deserialises into ExactNockchainPayload   *)
(*   nonce, validAfter, validBefore, to, value  the Authorization          *)
(*   signature  what NockchainVerifier finds in the signature              *)
(* A decimal string is its number, or Unparsable.  A network is a pair     *)
(* <<prefix, name>>, the CAIP-2 string split at its colon.                 *)
(***************************************************************************)
EXTENDS Integers, FiniteSetsExt

CONSTANTS
  MaxU64,       \* the largest u64
  MaxU128,      \* the largest u128
  Skew          \* AppState.clock_skew_tolerance, in seconds

ASSUME EnvelopeConstants ==
  /\ MaxU64 \in Nat
  /\ MaxU128 \in Nat
  /\ MaxU64 <= MaxU128
  /\ Skew \in 0 .. MaxU64

Unparsable == -1

(***************************************************************************)
(* The default registry.  Its two handlers claim different schemes, so the *)
(* order of its first-match lookup does not show.                          *)
(***************************************************************************)
DefaultHandlers ==
  {[scheme |-> s, prefix |-> "nockchain"] : s \in {"exact", "upto"}}

HandlersFor(scheme, network) ==
  {h \in DefaultHandlers : h.scheme = scheme /\ h.prefix = network[1]}

\* The code of the first check that failed, in the order of the sequence:
\* each check returns early.
FirstFailure(checks) ==
  LET failing == {i \in DOMAIN checks : checks[i].failed}
  IN  IF failing = {} THEN "ok" ELSE checks[Min(failing)].code

ParsesAsU128(amount) == amount \in 0 .. MaxU128

(***************************************************************************)
(* Everything `verify_envelope_inner` decides before the clock is read.    *)
(***************************************************************************)
EnvelopeVerdict(b) ==
  FirstFailure(
    << [code |-> "invalid_version", failed |-> b.version # 2],
       [code |-> "invalid_scheme",  failed |-> b.scheme # b.reqScheme],
       [code |-> "invalid_network", failed |-> b.network # b.reqNetwork],
       [code |-> "unknown_scheme",
        failed |-> HandlersFor(b.reqScheme, b.reqNetwork) = {}],
       [code |-> "invalid_payload", failed |-> ~b.decodes] >>)

(***************************************************************************)
(* NockchainVerifier::verify_payment: the signature decodes, its public    *)
(* key hashes to authorization.from, the signed digest can be computed     *)
(* (the value must parse as a u64) and the signature is over that digest.  *)
(***************************************************************************)
SignatureVerifies(b) ==
  /\ b.signature = "valid"
  /\ b.value \in 0 .. MaxU64

\* A defect to hold the checks against: the handler forgets the cap.
HandlerVerdictWithoutCap(b) ==
  FirstFailure(
    << [code |-> "invalid_recipient", failed |-> b.to # b.payTo],
       [code |-> "invalid_signature", failed |-> ~SignatureVerifies(b)],
       [code |-> "asset_mismatch",    failed |-> b.asset # "NOCK"] >>)

(***************************************************************************)
(* SchemeHandler::verify, the same sequence for `exact` and `upto`.        *)
(***************************************************************************)
HandlerVerdict(b) ==
  FirstFailure(
    << [code |-> "invalid_recipient", failed |-> b.to # b.payTo],
       [code |-> "invalid_signature", failed |-> ~SignatureVerifies(b)],
       [code |-> "invalid_payload",
        failed |-> ~(ParsesAsU128(b.value) /\ ParsesAsU128(b.cap))],
       [code |-> "over_max_amount",   failed |-> b.value > b.cap],
       [code |-> "asset_mismatch",    failed |-> b.asset # "NOCK"] >>)

(***************************************************************************)
(* What a body must be for the two sequences of checks to let it through,  *)
(* stated without an order: the reference the sequences are held against.  *)
(***************************************************************************)
Sound(b) ==
  /\ b.version = 2
  /\ b.scheme = b.reqScheme /\ b.reqScheme \in {"exact", "upto"}
  /\ b.network = b.reqNetwork /\ b.reqNetwork[1] = "nockchain"
  /\ b.decodes
  /\ b.to = b.payTo
  /\ b.signature = "valid"
  /\ b.value \in 0 .. MaxU64 /\ b.cap \in 0 .. MaxU128 /\ b.value <= b.cap
  /\ b.asset = "NOCK"

(***************************************************************************)
(* check_time_window at wall time now, with u64 saturating arithmetic.     *)
(***************************************************************************)
SaturatingAdd(x, y) == IF x + y > MaxU64 THEN MaxU64 ELSE x + y

SaturatingSub(x, y) == IF x < y THEN 0 ELSE x - y

InWindow(b, now) ==
  /\ b.validAfter <= SaturatingAdd(now, Skew)
  /\ b.validBefore >= SaturatingSub(now, Skew)
=============================================================================
