--------------------------- MODULE Envelope_proofs ---------------------------
(***************************************************************************)
(* The ordered, early-returning checks of Envelope against the unordered   *)
(* reference Sound, for every request body.                                *)
(***************************************************************************)
EXTENDS Envelope, TLAPS

\* A sequence of five checks whose codes are all rejections comes out "ok"
\* exactly when none of the five failed (the early returns of
\* verify_envelope_inner and of SchemeHandler::verify).
LEMMA FirstFailureOfFive ==
  ASSUME NEW c1, NEW c2, NEW c3, NEW c4, NEW c5,
         \A c \in {c1, c2, c3, c4, c5} : c.code # "ok"
  PROVE  FirstFailure(<<c1, c2, c3, c4, c5>>) = "ok"
           <=> \A c \in {c1, c2, c3, c4, c5} : ~c.failed
<1> DEFINE checks == <<c1, c2, c3, c4, c5>>
           failing == {i \in DOMAIN checks : checks[i].failed}
<1>1. DOMAIN checks = 1 .. 5
  OBVIOUS
<1>2. \A i \in 1 .. 5 : checks[i] \in {c1, c2, c3, c4, c5}
  OBVIOUS
<1>3. CASE failing = {}
  <2>1. ~c1.failed /\ ~c2.failed /\ ~c3.failed /\ ~c4.failed /\ ~c5.failed
    BY <1>1, <1>3
  <2>. QED
    BY <2>1, <1>3 DEF FirstFailure
<1>4. CASE failing # {}
  <2>1. \E i \in failing : \A j \in failing : i <= j
    BY <1>1, <1>4
  <2>2. Min(failing) \in failing
    BY <2>1 DEF Min
  <2>3. FirstFailure(checks) = checks[Min(failing)].code
    BY <1>4 DEF FirstFailure
  <2>4. checks[Min(failing)] \in {c1, c2, c3, c4, c5} /\ checks[Min(failing)].failed
    BY <2>2, <1>1, <1>2
  <2>. QED
    BY <2>3, <2>4
<1>. QED
  BY <1>3, <1>4

\* The outcome of five checks, spelled out: the early returns in their order.
LEMMA FirstFailureIs ==
  ASSUME NEW c1, NEW c2, NEW c3, NEW c4, NEW c5
  PROVE  FirstFailure(<<c1, c2, c3, c4, c5>>) =
           IF c1.failed THEN c1.code ELSE IF c2.failed THEN c2.code
           ELSE IF c3.failed THEN c3.code ELSE IF c4.failed THEN c4.code
           ELSE IF c5.failed THEN c5.code ELSE "ok"
<1> DEFINE checks == <<c1, c2, c3, c4, c5>>
           failing == {i \in DOMAIN checks : checks[i].failed}
<1>1. DOMAIN checks = 1 .. 5
  OBVIOUS
<1>2. /\ checks[1] = c1 /\ checks[2] = c2 /\ checks[3] = c3
      /\ checks[4] = c4 /\ checks[5] = c5
  OBVIOUS
<1>3. FirstFailure(checks) = IF failing = {} THEN "ok" ELSE checks[Min(failing)].code
  BY DEF FirstFailure
<1>4. ASSUME NEW k \in 1 .. 5, checks[k].failed,
             \A j \in 1 .. 5 : j < k => ~checks[j].failed
      PROVE  FirstFailure(checks) = checks[k].code
  <2>1. k \in failing /\ \A j \in failing : k <= j
    BY <1>1, <1>4
  <2>2. failing \subseteq Int
    BY <1>1
  <2>3. Min(failing) = k
    BY <2>1, <2>2 DEF Min
  <2>. QED
    BY <2>1, <2>3, <1>3
<1>5. ASSUME \A j \in 1 .. 5 : ~checks[j].failed
      PROVE  FirstFailure(checks) = "ok"
  BY <1>1, <1>3, <1>5
<1> HIDE DEF checks, failing
<1>6. CASE c1.failed
  BY <1>6, <1>2, <1>4 DEF checks
<1>7. CASE ~c1.failed /\ c2.failed
  BY <1>7, <1>2, <1>4 DEF checks
<1>8. CASE ~c1.failed /\ ~c2.failed /\ c3.failed
  BY <1>8, <1>2, <1>4 DEF checks
<1>9. CASE ~c1.failed /\ ~c2.failed /\ ~c3.failed /\ c4.failed
  BY <1>9, <1>2, <1>4 DEF checks
<1>10. CASE ~c1.failed /\ ~c2.failed /\ ~c3.failed /\ ~c4.failed /\ c5.failed
  BY <1>10, <1>2, <1>4 DEF checks
<1>11. CASE ~c1.failed /\ ~c2.failed /\ ~c3.failed /\ ~c4.failed /\ ~c5.failed
  BY <1>11, <1>2, <1>5 DEF checks
<1>. QED
  BY <1>6, <1>7, <1>8, <1>9, <1>10, <1>11

\* Whatever fails, the outcome is "ok" or the code of one of the checks.
LEMMA CodeOfFive ==
  ASSUME NEW c1, NEW c2, NEW c3, NEW c4, NEW c5
  PROVE  FirstFailure(<<c1, c2, c3, c4, c5>>)
           \in {"ok", c1.code, c2.code, c3.code, c4.code, c5.code}
<1> DEFINE checks == <<c1, c2, c3, c4, c5>>
           failing == {i \in DOMAIN checks : checks[i].failed}
<1>1. DOMAIN checks = 1 .. 5
  OBVIOUS
<1>2. \A i \in 1 .. 5 : checks[i] \in {c1, c2, c3, c4, c5}
  OBVIOUS
<1>3. CASE failing = {}
  BY <1>3 DEF FirstFailure
<1>4. CASE failing # {}
  <2>1. \E i \in failing : \A j \in failing : i <= j
    BY <1>1, <1>4
  <2>2. Min(failing) \in 1 .. 5
    BY <2>1, <1>1 DEF Min
  <2>3. FirstFailure(checks) = checks[Min(failing)].code
    BY <1>4 DEF FirstFailure
  <2>. HIDE DEF checks, failing
  <2>. QED
    BY <2>2, <2>3, <1>2 DEF checks
<1>. QED
  BY <1>3, <1>4

\* The rejection codes of the two sequences.
EnvelopeCodes ==
  {"invalid_version", "invalid_scheme", "invalid_network", "unknown_scheme",
   "invalid_payload"}

HandlerCodes ==
  {"invalid_recipient", "invalid_signature", "invalid_payload",
   "over_max_amount", "asset_mismatch"}

\* The handlers' answers carry no other codes (error.rs, rejection_label).
LEMMA VerdictCodes ==
  ASSUME NEW b
  PROVE  /\ EnvelopeVerdict(b) \in EnvelopeCodes \cup {"ok"}
         /\ HandlerVerdict(b) \in HandlerCodes \cup {"ok"}
<1>1. EnvelopeVerdict(b) \in EnvelopeCodes \cup {"ok"}
  BY CodeOfFive DEF EnvelopeVerdict, EnvelopeCodes
<1>2. HandlerVerdict(b) \in HandlerCodes \cup {"ok"}
  BY CodeOfFive DEF HandlerVerdict, HandlerCodes
<1>. QED
  BY <1>1, <1>2

\* A body that both sequences let through meets the reference, and one that
\* meets the reference is let through: no order of the checks, and no early
\* return, accepts more or less than the checks say together
\* (verify_envelope_inner and SchemeHandler::verify).
THEOREM VerdictsMeanSound ==
  ASSUME NEW b
  PROVE  EnvelopeVerdict(b) = "ok" /\ HandlerVerdict(b) = "ok" <=> Sound(b)
<1>1. EnvelopeVerdict(b) = "ok" <=>
        /\ b.version = 2
        /\ b.scheme = b.reqScheme
        /\ b.network = b.reqNetwork
        /\ HandlersFor(b.reqScheme, b.reqNetwork) # {}
        /\ b.decodes
  <2> DEFINE c1 == [code |-> "invalid_version", failed |-> b.version # 2]
             c2 == [code |-> "invalid_scheme", failed |-> b.scheme # b.reqScheme]
             c3 == [code |-> "invalid_network",
                    failed |-> b.network # b.reqNetwork]
             c4 == [code |-> "unknown_scheme",
                    failed |-> HandlersFor(b.reqScheme, b.reqNetwork) = {}]
             c5 == [code |-> "invalid_payload", failed |-> ~b.decodes]
  <2>1. /\ c1.failed = (b.version # 2)
        /\ c2.failed = (b.scheme # b.reqScheme)
        /\ c3.failed = (b.network # b.reqNetwork)
        /\ c4.failed = (HandlersFor(b.reqScheme, b.reqNetwork) = {})
        /\ c5.failed = (~b.decodes)
    BY Zenon
  <2>2. /\ c1.code # "ok" /\ c2.code # "ok" /\ c3.code # "ok"
        /\ c4.code # "ok" /\ c5.code # "ok"
    OBVIOUS
  <2>3. EnvelopeVerdict(b) = FirstFailure(<<c1, c2, c3, c4, c5>>)
    BY DEF EnvelopeVerdict
  <2> HIDE DEF c1, c2, c3, c4, c5
  <2>4. EnvelopeVerdict(b) = "ok" <=> \A c \in {c1, c2, c3, c4, c5} : ~c.failed
    BY <2>2, <2>3, FirstFailureOfFive
  <2>. QED
    BY <2>1, <2>4, Zenon
<1>2. HandlerVerdict(b) = "ok" <=>
        /\ b.to = b.payTo
        /\ SignatureVerifies(b)
        /\ ParsesAsU128(b.value) /\ ParsesAsU128(b.cap)
        /\ ~(b.value > b.cap)
        /\ b.asset = "NOCK"
  <2> DEFINE c1 == [code |-> "invalid_recipient", failed |-> b.to # b.payTo]
             c2 == [code |-> "invalid_signature",
                    failed |-> ~SignatureVerifies(b)]
             c3 == [code |-> "invalid_payload",
                    failed |-> ~(ParsesAsU128(b.value) /\ ParsesAsU128(b.cap))]
             c4 == [code |-> "over_max_amount", failed |-> b.value > b.cap]
             c5 == [code |-> "asset_mismatch", failed |-> b.asset # "NOCK"]
  <2>1. /\ c1.failed = (b.to # b.payTo)
        /\ c2.failed = (~SignatureVerifies(b))
        /\ c3.failed = (~(ParsesAsU128(b.value) /\ ParsesAsU128(b.cap)))
        /\ c4.failed = (b.value > b.cap)
        /\ c5.failed = (b.asset # "NOCK")
    BY Zenon
  <2>2. /\ c1.code # "ok" /\ c2.code # "ok" /\ c3.code # "ok"
        /\ c4.code # "ok" /\ c5.code # "ok"
    OBVIOUS
  <2>3. HandlerVerdict(b) = FirstFailure(<<c1, c2, c3, c4, c5>>)
    BY DEF HandlerVerdict
  <2> HIDE DEF c1, c2, c3, c4, c5
  <2>4. HandlerVerdict(b) = "ok" <=> \A c \in {c1, c2, c3, c4, c5} : ~c.failed
    BY <2>2, <2>3, FirstFailureOfFive
  <2>. QED
    BY <2>1, <2>4, Zenon
<1>3. HandlersFor(b.reqScheme, b.reqNetwork) # {} <=>
        b.reqScheme \in {"exact", "upto"} /\ b.reqNetwork[1] = "nockchain"
  <2> DEFINE handler(s) == [scheme |-> s, prefix |-> "nockchain"]
  <2>1. \A s : handler(s).scheme = s /\ handler(s).prefix = "nockchain"
    OBVIOUS
  <2>2. DefaultHandlers = {handler("exact"), handler("upto")}
    BY DEF DefaultHandlers
  <2> HIDE DEF handler
  <2>. QED
    BY <2>1, <2>2 DEF HandlersFor
<1>4. 0 .. MaxU64 \subseteq 0 .. MaxU128
  BY EnvelopeConstants
<1>. QED
  BY <1>1, <1>2, <1>3, <1>4, EnvelopeConstants
     DEF Sound, SignatureVerifies, ParsesAsU128
=============================================================================
