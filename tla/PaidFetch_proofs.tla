--------------------------- MODULE PaidFetch_proofs ---------------------------
(***************************************************************************)
(* The safety of PaidFetch for any number of calls, any price lists, any   *)
(* policy, and any clocks within the bounds of FetchConstants.             *)
(*                                                                         *)
(* The properties are not inductive: a refusal is explained by what the    *)
(* client built steps before, and by who had shown its nonce to the        *)
(* facilitator.  CallInv says of each call what its payload was built      *)
(* from, that nothing stands at the server that was not signed, that what  *)
(* is granted met every check, and that nobody but the server shows the    *)
(* nonce of a direct payment.  A step moves one call; for the others, and  *)
(* for the steps of the environment, CallFrame and Forward say that the    *)
(* passing of time and the loss of the cache do no harm.                   *)
(***************************************************************************)
EXTENDS PaidFetch, Envelope_proofs

Stages == {"idle", "signing", "verifying", "paying", "waiting"} \cup Results

\* The shapes of the functions and what holds of the parts all calls share.
GlobalInv ==
  /\ now \in Start .. MaxTime
  /\ skewed \in (-ClockGap) .. ClockGap
  /\ used \subseteq Calls
  /\ restarts \in 0 .. MaxRestarts
  /\ offer \in Offers
  /\ stage \in [Calls -> Stages]
  /\ flow \in [Calls -> {"fetch", "direct"}]
  /\ payload \in [Calls -> Payloads \cup {NoPayload}]
  /\ builtAt \in [Calls -> Int]
  /\ asked \in [Calls -> Requirements \cup {NoPayload}]
  /\ serving \in [Calls -> {"no", "checking", "granted", "served", "refused"}]
  /\ told \in [Calls -> Verdicts \cup {"none", "lost"}]
  /\ settled \in [Calls -> Verdicts \cup {"none", "chain_unimplemented", "submitted"}]

Built(c) == payload[c] # NoPayload

Signed(c) == Built(c) /\ payload[c].signature # "none"

\* The client's clock when the facilitator's was t.
ClientClock(t) == IF t + skewed < 0 THEN 0 ELSE t + skewed

BuiltInv(c) ==
  Built(c) =>
    /\ payload[c] \in Payloads
    /\ builtAt[c] \in Start .. now
    /\ payload[c].value = payload[c].req.maxAmount
    /\ payload[c].validAfter = ValidAfter(ClientClock(builtAt[c]))
    /\ payload[c].validBefore =
         ValidBefore(ClientClock(builtAt[c]), payload[c].req.timeout)
    /\ payload[c].signature = "valid" => payload[c].value \in 0 .. MaxU64

StageInv(c) ==
  /\ Built(c) <=> stage[c] \notin {"idle", "no accepts"}
  /\ stage[c] \in {"verifying", "paying", "waiting", "200", "402", "500", "rejected"} =>
       Signed(c)
  /\ stage[c] = "signing" => ~Signed(c)
  /\ stage[c] = "verifying" => flow[c] = "fetch"
  /\ stage[c] \in {"verifying", "paying"} =>
       serving[c] = "no" /\ told[c] = "none" /\ settled[c] = "none"
  /\ ~Signed(c) => serving[c] = "no" /\ told[c] = "none" /\ settled[c] = "none"
  /\ serving[c] \in {"checking", "granted"} => stage[c] \in {"waiting", "error"}
  /\ stage[c] = "200" => serving[c] = "served"

ServingInv(c) ==
  /\ serving[c] \in {"checking", "granted", "served"} => asked[c] \in Requirements
  /\ serving[c] \in {"granted", "served"} => Sound(Body(c, payload[c], asked[c]))

\* The facilitator knows the nonce of a direct payment from the server's own
\* /verify, of which there is one.
UsedInv(c) ==
  flow[c] = "direct" /\ c \in used =>
    stage[c] \in {"waiting"} \cup Results /\ serving[c] # "checking"

RefusalInv(c) ==
  /\ "outside_time_window" \in {told[c], settled[c]} => Late(c)
  /\ told[c] \in {"invalid_scheme", "invalid_network", "invalid_recipient",
                  "invalid_payload", "over_max_amount"} => asked[c] # payload[c].req
  /\ told[c] = "unknown_scheme" => HandlersFor(asked[c].scheme, asked[c].network) = {}
  /\ told[c] = "asset_mismatch" => asked[c].asset # "NOCK"
  /\ told[c] = "invalid_signature" => payload[c].signature = "stub"
  /\ told[c] = "nonce_replayed" => flow[c] = "fetch"
  /\ settled[c] \in {"none", "chain_unimplemented", "submitted", "outside_time_window"}

CallInv(c) == BuiltInv(c) /\ StageInv(c) /\ ServingInv(c) /\ UsedInv(c) /\ RefusalInv(c)

IInv == GlobalInv /\ \A c \in Calls : CallInv(c)

\* What one step leaves alone of a call that it does not move.
CallFrame(c) ==
  /\ stage'[c] = stage[c] /\ payload'[c] = payload[c] /\ builtAt'[c] = builtAt[c]
  /\ asked'[c] = asked[c] /\ serving'[c] = serving[c] /\ told'[c] = told[c]
  /\ settled'[c] = settled[c] /\ flow'[c] = flow[c]
  /\ c \in used' => c \in used

\* Time passes, and the clocks stay as far apart as they are.
Forward == now <= now' /\ skewed' = skewed

-----------------------------------------------------------------------------
(***************************************************************************)
(* The verdicts of the facilitator.                                        *)
(***************************************************************************)
\* The early returns of verify_envelope_inner, spelled out.
LEMMA EnvelopeVerdictIs ==
  ASSUME NEW b
  PROVE  EnvelopeVerdict(b) =
           IF b.version # 2 THEN "invalid_version"
           ELSE IF b.scheme # b.reqScheme THEN "invalid_scheme"
           ELSE IF b.network # b.reqNetwork THEN "invalid_network"
           ELSE IF HandlersFor(b.reqScheme, b.reqNetwork) = {} THEN "unknown_scheme"
           ELSE IF ~b.decodes THEN "invalid_payload" ELSE "ok"
<1> DEFINE c1 == [code |-> "invalid_version", failed |-> b.version # 2]
           c2 == [code |-> "invalid_scheme", failed |-> b.scheme # b.reqScheme]
           c3 == [code |-> "invalid_network", failed |-> b.network # b.reqNetwork]
           c4 == [code |-> "unknown_scheme",
                  failed |-> HandlersFor(b.reqScheme, b.reqNetwork) = {}]
           c5 == [code |-> "invalid_payload", failed |-> ~b.decodes]
<1>1. /\ c1.failed = (b.version # 2)
      /\ c2.failed = (b.scheme # b.reqScheme)
      /\ c3.failed = (b.network # b.reqNetwork)
      /\ c4.failed = (HandlersFor(b.reqScheme, b.reqNetwork) = {})
      /\ c5.failed = (~b.decodes)
  BY Zenon
<1>2. /\ c1.code = "invalid_version" /\ c2.code = "invalid_scheme"
      /\ c3.code = "invalid_network" /\ c4.code = "unknown_scheme"
      /\ c5.code = "invalid_payload"
  OBVIOUS
<1>3. EnvelopeVerdict(b) = FirstFailure(<<c1, c2, c3, c4, c5>>)
  BY DEF EnvelopeVerdict
<1> HIDE DEF c1, c2, c3, c4, c5
<1>4. EnvelopeVerdict(b) =
        IF c1.failed THEN c1.code ELSE IF c2.failed THEN c2.code
        ELSE IF c3.failed THEN c3.code ELSE IF c4.failed THEN c4.code
        ELSE IF c5.failed THEN c5.code ELSE "ok"
  BY <1>3, FirstFailureIs
<1>. QED
  BY <1>1, <1>2, <1>4, Zenon

\* The early returns of SchemeHandler::verify, spelled out.
LEMMA HandlerVerdictIs ==
  ASSUME NEW b
  PROVE  HandlerVerdict(b) =
           IF b.to # b.payTo THEN "invalid_recipient"
           ELSE IF ~SignatureVerifies(b) THEN "invalid_signature"
           ELSE IF ~(ParsesAsU128(b.value) /\ ParsesAsU128(b.cap))
                THEN "invalid_payload"
           ELSE IF b.value > b.cap THEN "over_max_amount"
           ELSE IF b.asset # "NOCK" THEN "asset_mismatch" ELSE "ok"
<1> DEFINE c1 == [code |-> "invalid_recipient", failed |-> b.to # b.payTo]
           c2 == [code |-> "invalid_signature", failed |-> ~SignatureVerifies(b)]
           c3 == [code |-> "invalid_payload",
                  failed |-> ~(ParsesAsU128(b.value) /\ ParsesAsU128(b.cap))]
           c4 == [code |-> "over_max_amount", failed |-> b.value > b.cap]
           c5 == [code |-> "asset_mismatch", failed |-> b.asset # "NOCK"]
<1>1. /\ c1.failed = (b.to # b.payTo)
      /\ c2.failed = (~SignatureVerifies(b))
      /\ c3.failed = (~(ParsesAsU128(b.value) /\ ParsesAsU128(b.cap)))
      /\ c4.failed = (b.value > b.cap)
      /\ c5.failed = (b.asset # "NOCK")
  BY Zenon
<1>2. /\ c1.code = "invalid_recipient" /\ c2.code = "invalid_signature"
      /\ c3.code = "invalid_payload" /\ c4.code = "over_max_amount"
      /\ c5.code = "asset_mismatch"
  OBVIOUS
<1>3. HandlerVerdict(b) = FirstFailure(<<c1, c2, c3, c4, c5>>)
  BY DEF HandlerVerdict
<1> HIDE DEF c1, c2, c3, c4, c5
<1>4. HandlerVerdict(b) =
        IF c1.failed THEN c1.code ELSE IF c2.failed THEN c2.code
        ELSE IF c3.failed THEN c3.code ELSE IF c4.failed THEN c4.code
        ELSE IF c5.failed THEN c5.code ELSE "ok"
  BY <1>3, FirstFailureIs
<1>. QED
  BY <1>1, <1>2, <1>4, Zenon

\* What the fields of a body are (ExactNockchainPayload, PaymentRequirements).
LEMMA BodyIs ==
  ASSUME NEW c, NEW p, NEW req
  PROVE  LET b == Body(c, p, req)
         IN  /\ b.version = 2 /\ b.decodes /\ b.nonce = c
             /\ b.scheme = p.req.scheme /\ b.reqScheme = req.scheme
             /\ b.network = p.req.network /\ b.reqNetwork = req.network
             /\ b.validAfter = p.validAfter /\ b.validBefore = p.validBefore
             /\ b.to = p.req.payTo /\ b.payTo = req.payTo
             /\ b.value = p.value /\ b.cap = req.maxAmount
             /\ b.asset = req.asset /\ b.signature = p.signature
  BY DEF Body

\* The clocks of FetchConstants: a payment built at builtAt[c] is in its window
\* unless it is late (the builders' window against check_time_window).
LEMMA OutsideIsLate ==
  ASSUME GlobalInv, NEW c \in Calls, BuiltInv(c), Built(c), NEW req,
         ~InWindow(Body(c, payload[c], req), now)
  PROVE  Late(c)
<1> DEFINE t == builtAt[c]
           ct == ClientClock(t)
           timeout == payload[c].req.timeout
           va == payload[c].validAfter
           vb == payload[c].validBefore
<1>1. /\ Start \in Nat /\ MaxTime \in Nat /\ Skew \in Nat /\ Backdate \in Nat
      /\ ClockGap \in Nat /\ MaxU64 \in Nat
      /\ ClockGap <= Skew + Backdate /\ MaxTime + Skew + ClockGap <= MaxU64
  BY FetchConstants, EnvelopeConstants
<1>2. now \in Nat /\ t \in Nat /\ t <= now /\ now <= MaxTime /\ skewed \in Int
      /\ -ClockGap <= skewed /\ skewed <= ClockGap
  BY <1>1 DEF GlobalInv, BuiltInv
<1>3. timeout \in Nat /\ va = ValidAfter(ct) /\ vb = ValidBefore(ct, timeout)
  <2>1. payload[c].req \in Requirements
    BY DEF BuiltInv, Payloads
  <2>. QED
    BY <2>1, <1>1, FetchConstants DEF BuiltInv
<1>4. ~(va <= SaturatingAdd(now, Skew) /\ vb >= SaturatingSub(now, Skew))
  BY BodyIs DEF InWindow
<1>5. ct \in Nat /\ ct >= t - ClockGap /\ ct <= t + ClockGap
  BY <1>1, <1>2 DEF ClientClock
<1>. HIDE DEF t, ct, timeout, va, vb
<1>6. va <= SaturatingAdd(now, Skew)
  BY <1>1, <1>2, <1>3, <1>5 DEF SaturatingAdd, SaturatingSub, ValidAfter
<1>7. ~(vb >= SaturatingSub(now, Skew))
  BY <1>4, <1>6
<1>8. now - t > timeout + Skew - ClockGap
  BY <1>1, <1>2, <1>3, <1>5, <1>7 DEF SaturatingAdd, SaturatingSub, ValidBefore
<1>. QED
  BY <1>8 DEF Late, t, timeout

\* Why a signed payment of the builders may be refused (the two sequences of
\* checks with the window and the cache between them).
LEMMA VerdictCauses ==
  ASSUME GlobalInv, NEW c \in Calls, BuiltInv(c), Signed(c),
         NEW req \in Requirements, NEW replayed \in BOOLEAN
  PROVE  LET b == Body(c, payload[c], req)
             v == VerdictOf(b, replayed)
         IN  /\ v \in Verdicts
             /\ v = "ok" => Sound(b) /\ Timely(b) /\ ~replayed
             /\ v = "outside_time_window" => Late(c)
             /\ v \in {"invalid_scheme", "invalid_network", "invalid_recipient",
                       "invalid_payload", "over_max_amount"} => req # payload[c].req
             /\ v = "unknown_scheme" => HandlersFor(req.scheme, req.network) = {}
             /\ v = "asset_mismatch" => req.asset # "NOCK"
             /\ v = "invalid_signature" => payload[c].signature = "stub"
             /\ v = "nonce_replayed" => replayed
<1> DEFINE p == payload[c]
           b == Body(c, p, req)
           v == VerdictOf(b, replayed)
<1>1. /\ b.version = 2 /\ b.decodes
      /\ b.scheme = p.req.scheme /\ b.reqScheme = req.scheme
      /\ b.network = p.req.network /\ b.reqNetwork = req.network
      /\ b.to = p.req.payTo /\ b.payTo = req.payTo
      /\ b.value = p.value /\ b.cap = req.maxAmount
      /\ b.asset = req.asset /\ b.signature = p.signature
  BY BodyIs
<1>2. /\ p.req \in Requirements /\ p.value = p.req.maxAmount
      /\ p.signature \in {"valid", "stub"}
      /\ p.signature = "valid" => p.value \in 0 .. MaxU64
  BY DEF BuiltInv, Signed, Built, Payloads
<1>3. ~InWindow(b, now) => Late(c)
  BY OutsideIsLate DEF Signed
<1>4. MaxU64 \in Nat /\ MaxU128 \in Nat /\ MaxU64 <= MaxU128 /\ p.req.maxAmount \in Int
  BY <1>2, EnvelopeConstants, FetchConstants
<1>5. EnvelopeVerdict(b) = "ok" /\ HandlerVerdict(b) = "ok" <=> Sound(b)
  BY VerdictsMeanSound
<1>6. EnvelopeVerdict(b) =
           IF b.version # 2 THEN "invalid_version"
           ELSE IF b.scheme # b.reqScheme THEN "invalid_scheme"
           ELSE IF b.network # b.reqNetwork THEN "invalid_network"
           ELSE IF HandlersFor(b.reqScheme, b.reqNetwork) = {} THEN "unknown_scheme"
           ELSE IF ~b.decodes THEN "invalid_payload" ELSE "ok"
  BY EnvelopeVerdictIs
<1>7. HandlerVerdict(b) =
           IF b.to # b.payTo THEN "invalid_recipient"
           ELSE IF ~SignatureVerifies(b) THEN "invalid_signature"
           ELSE IF ~(ParsesAsU128(b.value) /\ ParsesAsU128(b.cap))
                THEN "invalid_payload"
           ELSE IF b.value > b.cap THEN "over_max_amount"
           ELSE IF b.asset # "NOCK" THEN "asset_mismatch" ELSE "ok"
  BY HandlerVerdictIs
<1>8. v = IF EnvelopeVerdict(b) # "ok" THEN EnvelopeVerdict(b)
          ELSE IF ~InWindow(b, now) THEN "outside_time_window"
          ELSE IF replayed THEN "nonce_replayed" ELSE HandlerVerdict(b)
  BY DEF VerdictOf
<1>. HIDE DEF b, v
<1>9. /\ v \in Verdicts
      /\ v = "ok" => Sound(b) /\ Timely(b) /\ ~replayed
      /\ v = "outside_time_window" => Late(c)
  BY <1>1, <1>3, <1>5, <1>6, <1>7, <1>8 DEF Verdicts, Timely
<1>10. /\ v = "unknown_scheme" => HandlersFor(req.scheme, req.network) = {}
       /\ v = "asset_mismatch" => req.asset # "NOCK"
       /\ v = "nonce_replayed" => replayed
  BY <1>1, <1>6, <1>7, <1>8
<1>11. p.signature = "valid" => SignatureVerifies(b)
  BY <1>1, <1>2 DEF SignatureVerifies
<1>12. v = "invalid_signature" => p.signature = "stub"
  BY <1>1, <1>2, <1>6, <1>7, <1>8, <1>11
<1>13. req = p.req /\ SignatureVerifies(b) =>
         ParsesAsU128(b.value) /\ ParsesAsU128(b.cap) /\ ~(b.value > b.cap)
  BY <1>1, <1>2, <1>4 DEF SignatureVerifies, ParsesAsU128
<1>14. v \in {"invalid_scheme", "invalid_network", "invalid_recipient",
               "invalid_payload", "over_max_amount"} => req # p.req
  BY <1>1, <1>6, <1>7, <1>8, <1>13
<1>. QED
  BY <1>9, <1>10, <1>12, <1>14 DEF b, v

\* "/settle should accept the same envelope" (verify_envelope_for_settle).
LEMMA SoundSettles ==
  ASSUME NEW b, Sound(b)
  PROVE  SettleVerdict(b) \in {"ok", "outside_time_window"}
<1>1. EnvelopeVerdict(b) = "ok" /\ HandlerVerdict(b) = "ok"
  BY VerdictsMeanSound
<1>. QED
  BY <1>1 DEF SettleVerdict, VerdictOf

-----------------------------------------------------------------------------
(***************************************************************************)
(* The steps.                                                              *)
(***************************************************************************)
\* The window the builders choose is made of u64 values (current_unix_time,
\* saturating_sub and saturating_add in x402-client's lib.rs).
LEMMA WindowTypes ==
  ASSUME GlobalInv, NEW req \in Requirements
  PROVE  /\ ClientNow = ClientClock(now)
         /\ ValidAfter(ClientNow) \in 0 .. MaxU64
         /\ ValidBefore(ClientNow, req.timeout) \in 0 .. MaxU64
         /\ Unsigned(req, ClientNow) \in Payloads
<1>1. /\ Start \in Nat /\ MaxTime \in Nat /\ Skew \in Nat /\ Backdate \in Nat
      /\ ClockGap \in Nat /\ MaxU64 \in Nat /\ MaxTime + Skew + ClockGap <= MaxU64
  BY FetchConstants, EnvelopeConstants
<1>2. now \in Nat /\ now <= MaxTime /\ skewed \in Int /\ skewed <= ClockGap
  BY <1>1 DEF GlobalInv
<1>3. ClientNow \in 0 .. MaxU64
  BY <1>1, <1>2 DEF ClientNow
<1>4. req.timeout \in 0 .. MaxU64 /\ req.maxAmount \in Int
  BY FetchConstants
<1>5. /\ ValidAfter(ClientNow) \in 0 .. MaxU64
      /\ ValidBefore(ClientNow, req.timeout) \in 0 .. MaxU64
  BY <1>1, <1>3, <1>4 DEF ValidAfter, ValidBefore, SaturatingAdd, SaturatingSub
<1>6. ClientNow = ClientClock(now)
  BY DEF ClientNow, ClientClock
<1>7. Unsigned(req, ClientNow) \in Payloads
  BY <1>4, <1>5 DEF Unsigned, Payloads, Value
<1>. QED
  BY <1>5, <1>6, <1>7

\* A server's first requirement is one of the requirements (accepts[0]).
LEMMA FirstOffer ==
  ASSUME GlobalInv, offer # << >>
  PROVE  offer[1] \in Requirements
BY FetchConstants DEF GlobalInv

\* What a call's payload was built from does not change with time.
LEMMA BuiltKept ==
  ASSUME GlobalInv, GlobalInv', NEW c \in Calls, BuiltInv(c),
         payload'[c] = payload[c], builtAt'[c] = builtAt[c],
         now <= now', skewed' = skewed
  PROVE  BuiltInv(c)'
<1>1. now \in Int /\ now' \in Int /\ Start \in Int
  BY FetchConstants DEF GlobalInv
<1>2. ClientClock(builtAt[c])' = ClientClock(builtAt[c])
  BY DEF ClientClock
<1>3. ValidAfter(ClientClock(builtAt[c]))' = ValidAfter(ClientClock(builtAt[c]))
  BY <1>2 DEF ValidAfter, SaturatingSub
<1>4. ValidBefore(ClientClock(builtAt[c]), payload[c].req.timeout)'
        = ValidBefore(ClientClock(builtAt[c]), payload[c].req.timeout)
  BY <1>2 DEF ValidBefore, SaturatingAdd
<1>5. Built(c)' = Built(c)
  BY DEF Built
<1>. QED
  BY <1>1, <1>3, <1>4, <1>5 DEF BuiltInv

\* A payment that is late stays late.
LEMMA LateStays ==
  ASSUME GlobalInv, GlobalInv', NEW c \in Calls, BuiltInv(c), Signed(c), Late(c),
         payload'[c] = payload[c], builtAt'[c] = builtAt[c], now <= now'
  PROVE  Late(c)'
<1>1. now \in Int /\ now' \in Int
  BY FetchConstants DEF GlobalInv
<1>2. builtAt[c] \in Int /\ payload[c].req \in Requirements
  BY DEF GlobalInv, BuiltInv, Signed, Payloads
<1>3. payload[c].req.timeout \in Int /\ Skew \in Int /\ ClockGap \in Int
  BY <1>2, FetchConstants, EnvelopeConstants
<1>. QED
  BY <1>1, <1>2, <1>3 DEF Late

\* An explained refusal stays explained while nothing new is said.
LEMMA RefusalKept ==
  ASSUME GlobalInv, GlobalInv', NEW c \in Calls, BuiltInv(c), StageInv(c), RefusalInv(c),
         payload'[c] = payload[c], builtAt'[c] = builtAt[c], asked'[c] = asked[c],
         told'[c] = told[c], settled'[c] = settled[c], flow'[c] = flow[c], now <= now'
  PROVE  RefusalInv(c)'
<1>1. "outside_time_window" \in {told[c], settled[c]} => Signed(c)
  BY DEF StageInv
<1>2. "outside_time_window" \in {told[c], settled[c]}' => Late(c)'
  BY <1>1, LateStays DEF RefusalInv
<1>3. HandlersFor(asked[c].scheme, asked[c].network)'
        = HandlersFor(asked[c].scheme, asked[c].network)
  BY DEF HandlersFor, DefaultHandlers
<1>. QED
  BY <1>2, <1>3 DEF RefusalInv

\* What stands at the server met its checks, and keeps doing so.
LEMMA ServingKept ==
  ASSUME NEW c \in Calls, ServingInv(c), payload'[c] = payload[c], asked'[c] = asked[c],
         serving'[c] = serving[c] \/ serving'[c] \in {"no", "refused"}
  PROVE  ServingInv(c)'
<1>1. Sound(Body(c, payload[c], asked[c]))' <=> Sound(Body(c, payload[c], asked[c]))
  BY DEF Sound, Body
<1>. QED
  BY <1>1 DEF ServingInv

\* The nonce of a direct payment stays with the server that showed it.
LEMMA UsedKept ==
  ASSUME NEW c \in Calls, UsedInv(c), flow'[c] = flow[c], c \in used' => c \in used,
         stage'[c] = stage[c] \/ stage'[c] \in {"waiting"} \cup Results,
         serving'[c] = serving[c] \/ serving'[c] # "checking"
  PROVE  UsedInv(c)'
BY DEF UsedInv

\* A step keeps what it establishes of the calls it does not move.
LEMMA CallKept ==
  ASSUME GlobalInv, GlobalInv', NEW c \in Calls, CallInv(c), CallFrame(c), Forward
  PROVE  CallInv(c)'
<1>1. BuiltInv(c)'
  BY BuiltKept DEF CallInv, CallFrame, Forward
<1>2. StageInv(c)'
  BY DEF CallInv, StageInv, Signed, Built, CallFrame
<1>3. ServingInv(c)'
  BY ServingKept DEF CallInv, CallFrame
<1>4. RefusalInv(c)'
  BY RefusalKept DEF CallInv, CallFrame, Forward
<1>5. UsedInv(c)'
  BY UsedKept DEF CallInv, CallFrame
<1>. QED
  BY <1>1, <1>2, <1>3, <1>4, <1>5 DEF CallInv

\* A step that moves one call, or none, keeps the invariant if it keeps that
\* call's part of it.
LEMMA OneMoves ==
  ASSUME IInv, GlobalInv', NEW c,
         c \in Calls => CallInv(c)',
         Forward /\ \A d \in Calls \ {c} : CallFrame(d)
  PROVE  IInv'
<1>1. ASSUME NEW d \in Calls, d # c
      PROVE  CallInv(d)'
  BY <1>1, CallKept DEF IInv
<1>. QED
  BY <1>1 DEF IInv

\* A step in no time.
LEMMA NoTimePasses ==
  ASSUME GlobalInv, UNCHANGED <<now, skewed>>
  PROVE  Forward
<1>1. now \in Int
  BY FetchConstants DEF GlobalInv
<1>. QED
  BY <1>1 DEF Forward

\* The initial states.
LEMMA InitIInv == Init => IInv
<1>. SUFFICES ASSUME Init PROVE IInv
  OBVIOUS
<1>1. GlobalInv
  BY FetchConstants DEF Init, GlobalInv, Stages
<1>2. ASSUME NEW c \in Calls
      PROVE  CallInv(c)
  <2>1. ~Built(c)
    BY DEF Init, Built
  <2>2. BuiltInv(c)
    BY <2>1 DEF BuiltInv
  <2>3. StageInv(c)
    BY <2>1 DEF Init, StageInv, Signed
  <2>4. ServingInv(c)
    BY FetchConstants DEF Init, ServingInv
  <2>5. RefusalInv(c) /\ UsedInv(c)
    BY DEF Init, RefusalInv, UsedInv
  <2>. QED
    BY <2>2, <2>3, <2>4, <2>5 DEF CallInv
<1>. QED
  BY <1>1, <1>2 DEF IInv

\* The first GET and the builders up to the signature (fetch_with_payment,
\* build_payment).
LEMMA GetPaymentRequiredStep ==
  ASSUME IInv, NEW c \in Calls, GetPaymentRequired(c)
  PROVE  IInv'
<1>1. offer # << >> => offer[1] \in Requirements
  BY FirstOffer DEF IInv
<1>2. offer # << >> => Unsigned(offer[1], ClientNow) \in Payloads
  BY <1>1, WindowTypes DEF IInv
<1>3. now \in Int /\ Start \in Int /\ Start <= now
  BY FetchConstants DEF IInv, GlobalInv
<1>4. GlobalInv'
  <2>1. /\ UNCHANGED <<now, skewed, used, restarts, flow>>
        /\ UNCHANGED <<offer, asked, serving, told, settled>>
    BY DEF GetPaymentRequired, serverVars
  <2>2. stage' \in [Calls -> Stages]
    <3>1. stage \in [Calls -> Stages] /\ {"signing", "no accepts"} \subseteq Stages
      BY DEF IInv, GlobalInv, Stages, Results
    <3>2. \E s \in {"signing", "no accepts"} : stage' = [stage EXCEPT ![c] = s]
      BY DEF GetPaymentRequired
    <3>. QED
      BY <3>1, <3>2
  <2>3. payload' \in [Calls -> Payloads \cup {NoPayload}]
    BY <1>2 DEF IInv, GlobalInv, GetPaymentRequired
  <2>4. builtAt' \in [Calls -> Int]
    BY <1>3 DEF IInv, GlobalInv, GetPaymentRequired
  <2>. QED
    BY <2>1, <2>2, <2>3, <2>4 DEF IInv, GlobalInv
<1>5. Forward /\ \A d \in Calls \ {c} : CallFrame(d)
  <2>1. \A d \in Calls \ {c} : CallFrame(d)
    BY DEF IInv, GlobalInv, GetPaymentRequired, serverVars, CallFrame
  <2>. QED
    BY <2>1, NoTimePasses DEF IInv, GetPaymentRequired
<1>6. ~Built(c) /\ ~Signed(c) /\ serving[c] = "no" /\ told[c] = "none" /\ settled[c] = "none"
  BY DEF IInv, CallInv, StageInv, GetPaymentRequired, Signed
<1>9. UsedInv(c)'
  BY DEF IInv, CallInv, UsedInv, GetPaymentRequired, serverVars, Results
<1>. USE DEF GlobalInv
<1>7. CASE offer # << >>
  <2> DEFINE p == Unsigned(offer[1], ClientNow)
  <2>1. /\ stage'[c] = "signing" /\ payload'[c] = p /\ builtAt'[c] = now
        /\ serving'[c] = "no" /\ told'[c] = "none" /\ settled'[c] = "none"
    BY <1>6, <1>7 DEF IInv, GetPaymentRequired, serverVars
  <2>2. /\ p.req = offer[1] /\ p.value = p.req.maxAmount /\ p.signature = "none"
        /\ p.validAfter = ValidAfter(ClientNow)
        /\ p.validBefore = ValidBefore(ClientNow, p.req.timeout)
    BY DEF Unsigned, Value
  <2>3. ClientClock(builtAt[c])' = ClientNow
    BY <2>1, WindowTypes, <1>1, <1>7 DEF IInv, GetPaymentRequired, ClientClock, ClientNow
  <2>4. Built(c)' /\ ~Signed(c)'
    BY <2>1, <2>2, <1>2, <1>7, FetchConstants DEF Built, Signed
  <2>5. BuiltInv(c)'
    <3>1. builtAt'[c] \in Start .. now'
      <4>1. now' = now
        BY DEF GetPaymentRequired
      <4>. QED
        BY <4>1, <2>1, <1>3
    <3>2. payload'[c].validAfter = ValidAfter(ClientClock(builtAt[c]))'
      BY <2>1, <2>2, <2>3 DEF ValidAfter, SaturatingSub
    <3>3. payload'[c].validBefore
            = ValidBefore(ClientClock(builtAt[c]), payload[c].req.timeout)'
      BY <2>1, <2>2, <2>3 DEF ValidBefore, SaturatingAdd
    <3>. QED
      BY <3>1, <3>2, <3>3, <2>1, <2>2, <1>2, <1>7 DEF BuiltInv
  <2>6. StageInv(c)'
    BY <2>1, <2>4 DEF StageInv
  <2>7. ServingInv(c)'
    BY <2>1, <1>6 DEF IInv, CallInv, ServingInv, GetPaymentRequired, serverVars
  <2>8. RefusalInv(c)'
    BY <2>1 DEF RefusalInv
  <2>. QED
    BY <2>5, <2>6, <2>7, <2>8, <1>4, <1>5, <1>9, OneMoves DEF CallInv
<1>8. CASE offer = << >>
  <2>1. /\ stage'[c] = "no accepts" /\ payload'[c] = payload[c] /\ builtAt'[c] = builtAt[c]
        /\ serving'[c] = "no" /\ told'[c] = "none" /\ settled'[c] = "none"
    BY <1>6, <1>8 DEF IInv, GetPaymentRequired, serverVars
  <2>2. ~Built(c)' /\ ~Signed(c)'
    BY <2>1, <1>6 DEF Built, Signed
  <2>3. BuiltInv(c)'
    BY <2>2 DEF BuiltInv
  <2>4. StageInv(c)'
    BY <2>1, <2>2 DEF StageInv
  <2>5. ServingInv(c)'
    BY <2>1, <1>6 DEF IInv, CallInv, ServingInv, GetPaymentRequired, serverVars
  <2>6. RefusalInv(c)'
    BY <2>1 DEF RefusalInv
  <2>. QED
    BY <2>3, <2>4, <2>5, <2>6, <1>4, <1>5, <1>9, OneMoves DEF CallInv
<1>. QED
  BY <1>7, <1>8

\* Whatever the policy and the signer do with a payment (PolicyEnforcedSigner,
\* NockchainSigner and StubSigner).
LEMMA SignAuthorizationStep ==
  ASSUME IInv, NEW c \in Calls, SignAuthorization(c)
  PROVE  IInv'
<1>1. GlobalInv /\ BuiltInv(c) /\ StageInv(c) /\ ServingInv(c) /\ UsedInv(c) /\ RefusalInv(c)
  BY DEF IInv, CallInv
<1>2. /\ stage[c] = "signing"
      /\ UNCHANGED <<now, skewed, used, restarts, flow, builtAt>>
      /\ UNCHANGED <<offer, asked, serving, told, settled>>
  BY DEF SignAuthorization, serverVars
<1>3. /\ payload[c] \in Payloads /\ Built(c) /\ ~Signed(c) /\ serving[c] = "no"
      /\ told[c] = "none" /\ settled[c] = "none"
  BY <1>1, <1>2 DEF StageInv, BuiltInv, Signed
<1>4. /\ stage \in [Calls -> Stages] /\ payload \in [Calls -> Payloads \cup {NoPayload}]
      /\ {"denied", "error", "verifying", "paying"} \subseteq Stages
  BY <1>1 DEF GlobalInv, Stages, Results
<1>5. Forward
  BY <1>1, <1>2, NoTimePasses
<1>6. /\ asked'[c] = asked[c] /\ serving'[c] = "no" /\ told'[c] = "none"
      /\ settled'[c] = "none"
  BY <1>2, <1>3
<1>7. RefusalInv(c)' /\ ServingInv(c)'
  BY <1>1, <1>2, <1>3, <1>6 DEF RefusalInv, ServingInv
<1>10. UsedInv(c)'
  BY <1>1, <1>2 DEF UsedInv, Results
<1>8. ASSUME payload' = payload, NEW s \in {"denied", "error"},
             stage' = [stage EXCEPT ![c] = s]
      PROVE  IInv'
  <2>1. GlobalInv'
    BY <1>1, <1>2, <1>4, <1>8 DEF GlobalInv
  <2>2. \A d \in Calls \ {c} : CallFrame(d)
    BY <1>2, <1>4, <1>8 DEF CallFrame
  <2>3. BuiltInv(c)'
    BY <1>1, <1>2, <1>5, <1>8, <2>1, BuiltKept DEF Forward
  <2>4. StageInv(c)'
    <3>1. stage'[c] = s /\ Built(c)' /\ ~Signed(c)'
      BY <1>3, <1>4, <1>8 DEF Built, Signed
    <3>. QED
      BY <3>1, <1>6, <1>8 DEF StageInv
  <2>. QED
    BY <2>1, <2>2, <2>3, <2>4, <1>5, <1>7, <1>10, OneMoves DEF CallInv
<1>9. ASSUME NEW signature \in {"valid", "stub"}, NEW rawTx \in BOOLEAN,
             signature = "valid" => payload[c].value \in 0 .. MaxU64,
             payload' = [payload EXCEPT ![c].signature = signature, ![c].rawTx = rawTx],
             NEW s \in {"verifying", "paying"}, stage' = [stage EXCEPT ![c] = s],
             s = "verifying" => flow[c] = "fetch"
      PROVE  IInv'
  <2>. PICK q : q = [payload[c] EXCEPT !.signature = signature, !.rawTx = rawTx]
    OBVIOUS
  <2>1. payload' = [payload EXCEPT ![c] = q]
    BY <1>3, <1>4, <1>9
  <2>2. /\ q \in Payloads /\ q.req = payload[c].req /\ q.value = payload[c].value
        /\ q.validAfter = payload[c].validAfter /\ q.validBefore = payload[c].validBefore
        /\ q.signature = signature
    BY <1>3, <1>9 DEF Payloads
  <2>3. payload'[c] = q /\ stage'[c] = s
    BY <2>1, <1>4, <1>9
  <2>4. GlobalInv'
    <3>1. payload' \in [Calls -> Payloads \cup {NoPayload}]
      BY <2>1, <2>2, <1>4
    <3>2. stage' \in [Calls -> Stages]
      BY <1>4, <1>9
    <3>. QED
      BY <3>1, <3>2, <1>1, <1>2 DEF GlobalInv
  <2>5. \A d \in Calls \ {c} : CallFrame(d)
    BY <1>2, <1>4, <1>9, <2>1 DEF CallFrame
  <2>6. Built(c)' /\ Signed(c)'
    BY <2>2, <2>3, <1>9, FetchConstants DEF Built, Signed
  <2>7. BuiltInv(c)'
    <3>1. /\ ClientClock(builtAt[c])' = ClientClock(builtAt[c])
          /\ payload'[c].req = payload[c].req
      BY <1>2, <2>2, <2>3 DEF ClientClock
    <3>2. /\ ValidAfter(ClientClock(builtAt[c]))' = ValidAfter(ClientClock(builtAt[c]))
          /\ ValidBefore(ClientClock(builtAt[c]), payload[c].req.timeout)'
               = ValidBefore(ClientClock(builtAt[c]), payload[c].req.timeout)
      BY <3>1 DEF ValidAfter, ValidBefore, SaturatingAdd, SaturatingSub
    <3>. QED
      BY <3>2, <2>2, <2>3, <1>1, <1>2, <1>3, <1>9 DEF BuiltInv
  <2>8. StageInv(c)'
    BY <2>3, <2>6, <1>2, <1>6, <1>9 DEF StageInv
  <2>. QED
    BY <2>4, <2>5, <2>7, <2>8, <1>5, <1>7, <1>10, OneMoves DEF CallInv
<1>. QED
  BY <1>8, <1>9 DEF SignAuthorization

\* The client's own /verify, answered, lost before or lost after it reached the
\* facilitator (X402Client::verify): only the cache moves with the call.
LEMMA ClientVerifyStep ==
  ASSUME IInv, NEW c \in Calls, ClientVerify(c)
  PROVE  IInv'
<1>1. GlobalInv /\ BuiltInv(c) /\ StageInv(c) /\ ServingInv(c) /\ UsedInv(c) /\ RefusalInv(c)
  BY DEF IInv, CallInv
<1>2. /\ stage[c] = "verifying"
      /\ UNCHANGED <<now, skewed, restarts, flow, payload, builtAt>>
      /\ UNCHANGED <<offer, asked, serving, told, settled>>
  BY DEF ClientVerify, serverVars
<1>3. PICK s \in {"paying", "rejected", "error"} : stage' = [stage EXCEPT ![c] = s]
  BY DEF ClientVerify
<1>4. used' \subseteq Calls /\ \A d \in Calls \ {c} : d \in used' => d \in used
  <2>1. used' = used \/ used' = used \cup {c}
    BY BodyIs DEF ClientVerify, FacilitatorVerify
  <2>. QED
    BY <2>1, <1>1 DEF GlobalInv
<1>5. stage \in [Calls -> Stages] /\ s \in Stages
  BY <1>1 DEF GlobalInv, Stages, Results
<1>6. GlobalInv'
  BY <1>1, <1>2, <1>3, <1>4, <1>5 DEF GlobalInv
<1>7. Forward
  BY <1>1, <1>2, NoTimePasses
<1>8. \A d \in Calls \ {c} : CallFrame(d)
  BY <1>2, <1>3, <1>4, <1>5 DEF CallFrame
<1>9. BuiltInv(c)'
  BY <1>1, <1>2, <1>6, <1>7, BuiltKept DEF Forward
<1>10. StageInv(c)'
  <2>1. stage'[c] = s /\ (Built(c)' <=> Built(c)) /\ (Signed(c)' <=> Signed(c))
    BY <1>2, <1>3, <1>5 DEF Built, Signed
  <2>. QED
    BY <2>1, <1>1, <1>2, <1>3 DEF StageInv
<1>11. ServingInv(c)' /\ UsedInv(c)'
  BY <1>1, <1>2, ServingKept DEF StageInv, UsedInv
<1>12. RefusalInv(c)'
  BY <1>1, <1>2, <1>6, <1>7, RefusalKept DEF Forward
<1>. QED
  BY <1>6, <1>7, <1>8, <1>9, <1>10, <1>11, <1>12, OneMoves DEF CallInv

\* The payment arrives at a server that has a price, at one that has none, or
\* nowhere (fetch_with_payment's second GET).
LEMMA SendPaymentStep ==
  ASSUME IInv, NEW c \in Calls, SendPayment(c)
  PROVE  IInv'
<1>1. GlobalInv /\ BuiltInv(c) /\ StageInv(c) /\ ServingInv(c) /\ UsedInv(c) /\ RefusalInv(c)
  BY DEF IInv, CallInv
<1>2. /\ stage[c] = "paying"
      /\ UNCHANGED <<now, skewed, used, restarts, flow, payload, builtAt>>
      /\ UNCHANGED <<offer, told, settled>>
  BY DEF SendPayment
<1>3. /\ stage \in [Calls -> Stages] /\ {"waiting", "error"} \subseteq Stages
      /\ serving \in [Calls -> {"no", "checking", "granted", "served", "refused"}]
      /\ asked \in [Calls -> Requirements \cup {NoPayload}]
      /\ told \in [Calls -> Verdicts \cup {"none", "lost"}]
  BY <1>1 DEF GlobalInv, Stages, Results
<1>4. Forward
  BY <1>1, <1>2, NoTimePasses
<1>5. Signed(c) /\ Built(c) /\ (Signed(c)' <=> Signed(c)) /\ (Built(c)' <=> Built(c))
  BY <1>1, <1>2 DEF StageInv, Signed, Built
<1>6. serving[c] = "no" /\ told[c] = "none" /\ settled[c] = "none"
  BY <1>1, <1>2 DEF StageInv
<1>7. ASSUME stage' = [stage EXCEPT ![c] = "error"], UNCHANGED <<serving, asked>>
      PROVE  IInv'
  <2>1. GlobalInv'
    BY <1>1, <1>2, <1>3, <1>7 DEF GlobalInv
  <2>2. \A d \in Calls \ {c} : CallFrame(d)
    BY <1>2, <1>3, <1>7 DEF CallFrame
  <2>3. BuiltInv(c)'
    BY <1>1, <1>2, <1>4, <2>1, BuiltKept DEF Forward
  <2>4. StageInv(c)'
    BY <1>1, <1>2, <1>3, <1>5, <1>7 DEF StageInv
  <2>5. ServingInv(c)' /\ RefusalInv(c)'
    BY <1>1, <1>2, <1>4, <1>7, <2>1, ServingKept, RefusalKept DEF Forward
  <2>6. UsedInv(c)'
    BY <1>1, <1>2, <1>3, <1>7, UsedKept DEF Results
  <2>. QED
    BY <2>1, <2>2, <2>3, <2>4, <2>5, <2>6, <1>4, OneMoves DEF CallInv
<1>8. ASSUME stage' = [stage EXCEPT ![c] = "waiting"],
             NEW s \in {"refused", "checking"}, serving' = [serving EXCEPT ![c] = s],
             NEW r \in Requirements \cup {NoPayload}, asked' = [asked EXCEPT ![c] = r],
             s = "checking" => r \in Requirements
      PROVE  IInv'
  <2>1. /\ stage'[c] = "waiting" /\ serving'[c] = s /\ asked'[c] = r
        /\ told'[c] = "none" /\ settled'[c] = "none"
    BY <1>2, <1>3, <1>6, <1>8
  <2>2. GlobalInv'
    <3>1. stage' \in [Calls -> Stages]
      BY <1>3, <1>8
    <3>2. /\ serving' \in [Calls -> {"no", "checking", "granted", "served", "refused"}]
          /\ asked' \in [Calls -> Requirements \cup {NoPayload}]
      BY <1>3, <1>8
    <3>3. told' \in [Calls -> Verdicts \cup {"none", "lost"}]
      BY <1>2, <1>3
    <3>. QED
      BY <3>1, <3>2, <3>3, <1>1, <1>2 DEF GlobalInv
  <2>3. \A d \in Calls \ {c} : CallFrame(d)
    BY <1>2, <1>3, <1>8 DEF CallFrame
  <2>4. BuiltInv(c)'
    BY <1>1, <1>2, <1>4, <2>2, BuiltKept DEF Forward
  <2>5. StageInv(c)'
    BY <1>5, <2>1, <1>8 DEF StageInv
  <2>6. ServingInv(c)' /\ UsedInv(c)'
    BY <2>1, <1>1, <1>2, <1>8 DEF ServingInv, UsedInv, Results
  <2>7. RefusalInv(c)'
    BY <2>1 DEF RefusalInv
  <2>. QED
    BY <2>2, <2>3, <2>4, <2>5, <2>6, <2>7, <1>4, OneMoves DEF CallInv
<1>9. offer # << >> => offer[1] \in Requirements
  BY <1>1, FirstOffer
<1>. QED
  BY <1>7, <1>8, <1>9 DEF SendPayment

\* The answer of the server, or the loss of the connection with or without
\* what the server was doing for it.
LEMMA AnsweredStep ==
  ASSUME IInv, NEW c \in Calls, Answered(c)
  PROVE  IInv'
<1>1. GlobalInv /\ BuiltInv(c) /\ StageInv(c) /\ ServingInv(c) /\ UsedInv(c) /\ RefusalInv(c)
  BY DEF IInv, CallInv
<1>2. /\ stage[c] = "waiting"
      /\ UNCHANGED <<now, skewed, used, restarts, flow, payload, builtAt>>
      /\ UNCHANGED <<offer, asked, told, settled>>
  BY DEF Answered
<1>3. PICK s \in {"200", "402", "500", "error"}, v \in {"no", serving[c]} :
        /\ stage' = [stage EXCEPT ![c] = s]
        /\ serving' = [serving EXCEPT ![c] = v]
        /\ s = "200" => v = "served"
        /\ v \in {"checking", "granted"} => s = "error"
  <2>1. serving = [serving EXCEPT ![c] = serving[c]]
    BY <1>1 DEF GlobalInv
  <2>2. CASE /\ serving[c] = "served"
             /\ stage' = [stage EXCEPT ![c] = "200"] /\ UNCHANGED serving
    BY <2>1, <2>2
  <2>3. CASE /\ serving[c] = "refused" /\ UNCHANGED serving
             /\ stage' = [stage EXCEPT ![c] =
                            IF asked[c] = NoPayload THEN "500" ELSE "402"]
    BY <2>1, <2>3
  <2>4. CASE /\ stage' = [stage EXCEPT ![c] = "error"]
             /\ UNCHANGED serving \/ serving' = [serving EXCEPT ![c] = "no"]
    BY <2>1, <2>4
  <2>. QED
    BY <2>2, <2>3, <2>4 DEF Answered
<1>4. /\ stage \in [Calls -> Stages] /\ s \in Stages
      /\ serving \in [Calls -> {"no", "checking", "granted", "served", "refused"}]
  BY <1>1 DEF GlobalInv, Stages, Results
<1>5. stage'[c] = s /\ serving'[c] = v
  BY <1>3, <1>4
<1>6. GlobalInv'
  <2>1. stage' \in [Calls -> Stages]
    BY <1>3, <1>4
  <2>2. serving' \in [Calls -> {"no", "checking", "granted", "served", "refused"}]
    BY <1>3, <1>4
  <2>. QED
    BY <2>1, <2>2, <1>1, <1>2 DEF GlobalInv
<1>7. Forward
  BY <1>1, <1>2, NoTimePasses
<1>8. \A d \in Calls \ {c} : CallFrame(d)
  BY <1>2, <1>3, <1>4 DEF CallFrame
<1>9. BuiltInv(c)'
  BY <1>1, <1>2, <1>6, <1>7, BuiltKept DEF Forward
<1>10. StageInv(c)'
  <2>1. Signed(c) /\ Built(c) /\ Signed(c)' /\ Built(c)'
    BY <1>1, <1>2 DEF StageInv, Signed, Built
  <2>. QED
    BY <2>1, <1>3, <1>5 DEF StageInv
<1>11. ServingInv(c)'
  BY <1>1, <1>2, <1>3, <1>5, ServingKept
<1>13. UsedInv(c)'
  BY <1>1, <1>2, <1>3, <1>5, UsedKept DEF Results
<1>12. RefusalInv(c)'
  BY <1>1, <1>2, <1>6, <1>7, RefusalKept DEF Forward
<1>. QED
  BY <1>6, <1>7, <1>8, <1>9, <1>10, <1>11, <1>12, <1>13, OneMoves DEF CallInv

\* The server's /verify (RemoteFacilitatorVerifier::verify): what it grants met
\* every check and used up the nonce; what it refuses has an explanation.
LEMMA ServerVerifyStep ==
  ASSUME IInv, NEW c \in Calls, ServerVerify(c)
  PROVE  IInv'
<1> DEFINE b == Body(c, payload[c], asked[c])
<1>1. GlobalInv /\ BuiltInv(c) /\ StageInv(c) /\ ServingInv(c) /\ UsedInv(c) /\ RefusalInv(c)
  BY DEF IInv, CallInv
<1>2. /\ serving[c] = "checking"
      /\ UNCHANGED <<now, skewed, restarts, flow, stage, payload, builtAt>>
      /\ UNCHANGED <<offer, asked, settled>>
  BY DEF ServerVerify, clientVars
<1>3. Signed(c) /\ Built(c) /\ asked[c] \in Requirements
  BY <1>1, <1>2 DEF StageInv, ServingInv, Signed
<1>4. /\ Verdict(b) \in Verdicts
      /\ Verdict(b) = "ok" => Sound(b) /\ Timely(b) /\ c \notin used
      /\ Verdict(b) = "outside_time_window" => Late(c)
      /\ Verdict(b) \in {"invalid_scheme", "invalid_network", "invalid_recipient",
                         "invalid_payload", "over_max_amount"} => asked[c] # payload[c].req
      /\ Verdict(b) = "unknown_scheme" =>
           HandlersFor(asked[c].scheme, asked[c].network) = {}
      /\ Verdict(b) = "asset_mismatch" => asked[c].asset # "NOCK"
      /\ Verdict(b) = "invalid_signature" => payload[c].signature = "stub"
      /\ Verdict(b) = "nonce_replayed" => c \in used
  <2>1. b.nonce = c
    BY BodyIs
  <2>2. Verdict(b) = VerdictOf(b, c \in used)
    BY <2>1 DEF Verdict
  <2>3. (c \in used) \in BOOLEAN
    OBVIOUS
  <2>. QED
    BY <2>2, <2>3, <1>1, <1>3, VerdictCauses
<1>5. used' \subseteq Calls /\ \A d \in Calls \ {c} : d \in used' => d \in used
  <2>1. used' = used \/ used' = used \cup {c}
    BY BodyIs DEF ServerVerify, FacilitatorVerify
  <2>. QED
    BY <2>1, <1>1 DEF GlobalInv
<1>6. Forward
  BY <1>1, <1>2, NoTimePasses
<1>7. PICK t \in Verdicts \cup {"lost"}, v \in {"granted", "refused"} :
        /\ told' = [told EXCEPT ![c] = t]
        /\ serving' = [serving EXCEPT ![c] = v]
        /\ t = "lost" \/ t = Verdict(b)
        /\ v = "granted" => Verdict(b) = "ok"
  <2>1. CASE /\ FacilitatorVerify(b)
             /\ told' = [told EXCEPT ![c] = Verdict(b)]
             /\ serving' = [serving EXCEPT ![c] =
                              IF Verdict(b) = "ok" THEN "granted" ELSE "refused"]
    <3>. HIDE DEF b
    <3>. QED
      BY <2>1, <1>4
  <2>2. CASE /\ told' = [told EXCEPT ![c] = "lost"]
             /\ serving' = [serving EXCEPT ![c] = "refused"]
    BY <2>2
  <2>. QED
    BY <2>1, <2>2 DEF ServerVerify
<1>. HIDE DEF b
<1>8. /\ told \in [Calls -> Verdicts \cup {"none", "lost"}]
      /\ serving \in [Calls -> {"no", "checking", "granted", "served", "refused"}]
  BY <1>1 DEF GlobalInv
<1>9. told'[c] = t /\ serving'[c] = v
  BY <1>7, <1>8
<1>10. GlobalInv'
  <2>1. told' \in [Calls -> Verdicts \cup {"none", "lost"}]
    BY <1>7, <1>8
  <2>2. serving' \in [Calls -> {"no", "checking", "granted", "served", "refused"}]
    BY <1>7, <1>8
  <2>. QED
    BY <2>1, <2>2, <1>1, <1>2, <1>5 DEF GlobalInv
<1>11. \A d \in Calls \ {c} : CallFrame(d)
  BY <1>2, <1>5, <1>7, <1>8 DEF CallFrame
<1>12. BuiltInv(c)'
  BY <1>1, <1>2, <1>6, <1>10, BuiltKept DEF Forward
<1>13. StageInv(c)'
  <2>1. Signed(c)' /\ (Built(c)' <=> Built(c)) /\ stage'[c] = stage[c]
    BY <1>2, <1>3 DEF Signed, Built
  <2>2. stage[c] \in {"waiting", "error"}
    BY <1>1, <1>2 DEF StageInv
  <2>. QED
    BY <2>1, <2>2, <1>1, <1>3, <1>9 DEF StageInv
<1>14. ServingInv(c)'
  <2>1. CASE v = "refused"
    BY <2>1, <1>1, <1>2, <1>9, ServingKept
  <2>2. CASE v = "granted"
    <3>1. Sound(Body(c, payload[c], asked[c]))'
      BY <2>2, <1>2, <1>4, <1>7 DEF b, Body, Sound
    <3>. QED
      BY <3>1, <1>2, <1>3 DEF ServingInv
  <2>. QED
    BY <2>1, <2>2
<1>16. UsedInv(c)'
  <2>1. stage'[c] \in {"waiting", "error"} /\ serving'[c] # "checking"
    BY <1>1, <1>2, <1>9 DEF StageInv
  <2>. QED
    BY <2>1 DEF UsedInv, Results
<1>17. told'[c] = "nonce_replayed" => flow'[c] = "fetch"
  BY <1>1, <1>2, <1>4, <1>7, <1>9 DEF UsedInv, GlobalInv
<1>15. RefusalInv(c)'
  <2>1. "outside_time_window" \in {told[c], settled[c]}' => Late(c)
    BY <1>1, <1>2, <1>4, <1>7, <1>9 DEF RefusalInv
  <2>2. Late(c) => Late(c)'
    BY <1>1, <1>2, <1>3, <1>6, <1>10, LateStays DEF Forward
  <2>3. HandlersFor(asked[c].scheme, asked[c].network)'
          = HandlersFor(asked[c].scheme, asked[c].network)
    BY <1>2 DEF HandlersFor, DefaultHandlers
  <2>. QED
    BY <2>1, <2>2, <2>3, <1>1, <1>2, <1>4, <1>7, <1>9, <1>17 DEF RefusalInv
<1>. QED
  BY <1>6, <1>10, <1>11, <1>12, <1>13, <1>14, <1>15, <1>16, OneMoves DEF CallInv

\* The resource is served: a grant becomes a service.
LEMMA ServeStep ==
  ASSUME IInv, NEW c \in Calls, Serve(c)
  PROVE  IInv'
<1>1. GlobalInv /\ BuiltInv(c) /\ StageInv(c) /\ ServingInv(c) /\ UsedInv(c) /\ RefusalInv(c)
  BY DEF IInv, CallInv
<1>2. /\ serving[c] = "granted"
      /\ serving' = [serving EXCEPT ![c] = "served"]
      /\ UNCHANGED <<now, skewed, used, restarts, flow, stage, payload, builtAt>>
      /\ UNCHANGED <<offer, asked, told, settled>>
  BY DEF Serve, clientVars
<1>3. serving \in [Calls -> {"no", "checking", "granted", "served", "refused"}]
  BY <1>1 DEF GlobalInv
<1>4. serving'[c] = "served"
  BY <1>2, <1>3
<1>5. GlobalInv'
  <2>1. serving' \in [Calls -> {"no", "checking", "granted", "served", "refused"}]
    BY <1>2, <1>3
  <2>. QED
    BY <2>1, <1>1, <1>2 DEF GlobalInv
<1>6. Forward
  BY <1>1, <1>2, NoTimePasses
<1>7. \A d \in Calls \ {c} : CallFrame(d)
  BY <1>2, <1>3 DEF CallFrame
<1>8. BuiltInv(c)'
  BY <1>1, <1>2, <1>5, <1>6, BuiltKept DEF Forward
<1>9. StageInv(c)'
  <2>1. (Signed(c)' <=> Signed(c)) /\ (Built(c)' <=> Built(c)) /\ Signed(c)
    BY <1>1, <1>2 DEF Signed, Built, StageInv
  <2>. QED
    BY <2>1, <1>1, <1>2, <1>4 DEF StageInv
<1>10. ServingInv(c)'
  <2>1. Sound(Body(c, payload[c], asked[c]))'
    BY <1>1, <1>2 DEF ServingInv, Sound, Body
  <2>. QED
    BY <2>1, <1>1, <1>2, <1>4 DEF ServingInv
<1>12. UsedInv(c)'
  BY <1>1, <1>2, <1>4, UsedKept
<1>11. RefusalInv(c)'
  BY <1>1, <1>2, <1>5, <1>6, RefusalKept DEF Forward
<1>. QED
  BY <1>5, <1>6, <1>7, <1>8, <1>9, <1>10, <1>11, <1>12, OneMoves DEF CallInv

\* /settle for what was served (settle.rs): the checks were all met when it was
\* granted, so that nothing but the time can speak against it.
LEMMA SettleStep ==
  ASSUME IInv, NEW c \in Calls, Settle(c)
  PROVE  IInv'
<1> DEFINE b == Body(c, payload[c], asked[c])
<1>1. GlobalInv /\ BuiltInv(c) /\ StageInv(c) /\ ServingInv(c) /\ UsedInv(c) /\ RefusalInv(c)
  BY DEF IInv, CallInv
<1>2. /\ serving[c] = "served"
      /\ UNCHANGED <<now, skewed, used, restarts, flow, stage, payload, builtAt>>
      /\ UNCHANGED <<offer, asked, serving, told>>
  BY DEF Settle, clientVars
<1>3. Signed(c) /\ Built(c) /\ asked[c] \in Requirements /\ Sound(b)
  BY <1>1, <1>2 DEF StageInv, ServingInv, Signed
<1>4. SettleVerdict(b) \in {"ok", "outside_time_window"}
  BY <1>3, SoundSettles
<1>5. SettleVerdict(b) = "outside_time_window" => Late(c)
  BY <1>1, <1>3, VerdictCauses DEF SettleVerdict
<1>6. PICK v \in {"outside_time_window", "submitted", "chain_unimplemented"} :
        /\ settled' = [settled EXCEPT ![c] = v]
        /\ v = "outside_time_window" => Late(c)
  <2>1. settled' = [settled EXCEPT ![c] =
                      IF SettleVerdict(b) # "ok" THEN SettleVerdict(b)
                      ELSE IF payload[c].rawTx THEN "submitted"
                      ELSE "chain_unimplemented"]
    BY DEF Settle
  <2>. HIDE DEF b
  <2>. QED
    BY <2>1, <1>4, <1>5
<1>. HIDE DEF b
<1>7. /\ settled \in [Calls -> Verdicts \cup {"none", "chain_unimplemented", "submitted"}]
      /\ "outside_time_window" \in Verdicts
  BY <1>1 DEF GlobalInv, Verdicts
<1>8. settled'[c] = v
  BY <1>6, <1>7
<1>9. GlobalInv'
  <2>1. settled' \in [Calls -> Verdicts \cup {"none", "chain_unimplemented", "submitted"}]
    BY <1>6, <1>7
  <2>. QED
    BY <2>1, <1>1, <1>2 DEF GlobalInv
<1>10. Forward
  BY <1>1, <1>2, NoTimePasses
<1>11. \A d \in Calls \ {c} : CallFrame(d)
  BY <1>2, <1>6, <1>7 DEF CallFrame
<1>12. BuiltInv(c)'
  BY <1>1, <1>2, <1>9, <1>10, BuiltKept DEF Forward
<1>13. StageInv(c)'
  <2>1. Signed(c)' /\ Signed(c) /\ (Built(c)' <=> Built(c)) /\ stage'[c] = stage[c]
    BY <1>2, <1>3 DEF Signed, Built
  <2>. QED
    BY <2>1, <1>1, <1>2 DEF StageInv
<1>14. ServingInv(c)' /\ UsedInv(c)'
  BY <1>1, <1>2, ServingKept, UsedKept
<1>15. RefusalInv(c)'
  <2>1. "outside_time_window" \in {told[c], settled[c]}' => Late(c)
    BY <1>1, <1>2, <1>6, <1>8 DEF RefusalInv
  <2>2. Late(c) => Late(c)'
    BY <1>1, <1>2, <1>3, <1>9, <1>10, LateStays DEF Forward
  <2>3. HandlersFor(asked[c].scheme, asked[c].network)'
          = HandlersFor(asked[c].scheme, asked[c].network)
    BY <1>2 DEF HandlersFor, DefaultHandlers
  <2>. QED
    BY <2>1, <2>2, <2>3, <1>1, <1>2, <1>6, <1>8 DEF RefusalInv
<1>. QED
  BY <1>9, <1>10, <1>11, <1>12, <1>13, <1>14, <1>15, OneMoves DEF CallInv

\* The facilitator restarts with an empty cache, the server comes back with
\* another price list, or a second passes.
LEMMA EnvironmentStep ==
  ASSUME IInv, FacilitatorRestart \/ Redeploy \/ Tick
  PROVE  IInv'
<1>1. GlobalInv
  BY DEF IInv
<1>2. /\ now \in Int /\ restarts \in Int /\ Start \in Int /\ MaxTime \in Int
      /\ MaxRestarts \in Int
  BY <1>1, FetchConstants DEF GlobalInv
<1>3. UNCHANGED <<skewed, clientVars, asked, serving, told, settled>>
  BY DEF FacilitatorRestart, Redeploy, Tick, serverVars
<1>4. GlobalInv' /\ Forward
  <2>1. CASE FacilitatorRestart
    BY <2>1, <1>1, <1>2, <1>3 DEF GlobalInv, FacilitatorRestart, Forward, clientVars, serverVars
  <2>2. CASE Redeploy
    BY <2>2, <1>1, <1>2, <1>3 DEF GlobalInv, Redeploy, Forward, clientVars
  <2>3. CASE Tick
    BY <2>3, <1>1, <1>2, <1>3 DEF GlobalInv, Tick, Forward, clientVars, serverVars
  <2>. QED
    BY <2>1, <2>2, <2>3
<1>5. \A d \in Calls : CallFrame(d)
  <2>1. used' \subseteq used
    BY DEF FacilitatorRestart, Redeploy, Tick
  <2>. QED
    BY <2>1, <1>3 DEF CallFrame, clientVars
<1>6. ASSUME NEW d \in Calls
      PROVE  CallInv(d)'
  BY <1>1, <1>4, <1>5, CallKept DEF IInv
<1>. QED
  BY <1>4, <1>6 DEF IInv

\* Every step of Next, and every step that changes nothing.
LEMMA NextIInv == IInv /\ [Next]_vars => IInv'
<1>. SUFFICES ASSUME IInv, [Next]_vars PROVE IInv'
  OBVIOUS
<1>1. ASSUME NEW c \in Calls, Step(c)
      PROVE  IInv'
  BY <1>1, GetPaymentRequiredStep, SignAuthorizationStep, ClientVerifyStep,
     SendPaymentStep, AnsweredStep, ServerVerifyStep, ServeStep,
     SettleStep DEF Step
<1>2. CASE FacilitatorRestart \/ Redeploy \/ Tick
  BY <1>2, EnvironmentStep
<1>3. CASE UNCHANGED vars
  <2>1. GlobalInv /\ GlobalInv'
    BY <1>3 DEF IInv, GlobalInv, vars, clientVars, serverVars
  <2>2. ASSUME NEW d \in Calls
        PROVE  CallInv(d)'
    <3>1. CallFrame(d)
      BY <1>3 DEF CallFrame, vars, clientVars, serverVars
    <3>2. Forward
      BY <1>3, <2>1, NoTimePasses DEF vars
    <3>. QED
      BY <2>1, <3>1, <3>2, CallKept DEF IInv
  <2>. QED
    BY <2>1, <2>2 DEF IInv
<1>. QED
  BY <1>1, <1>2, <1>3 DEF Next

\* The invariant holds in every state of every behaviour.
THEOREM FetchInvariant == Spec => []IInv
<1>1. Init => IInv
  BY InitIInv
<1>2. IInv /\ [Next]_vars => IInv'
  BY NextIInv
<1>. QED
  BY <1>1, <1>2, PTL DEF Spec

-----------------------------------------------------------------------------
\* The variables have their types, nothing is at the server that was not signed
\* and sent, and whoever got a 200 was served (fetch_with_payment and the
\* resource server of demo_full.rs).
THEOREM FetchTypeCorrect == Spec => []TypeOK
<1>1. IInv => TypeOK
  BY DEF IInv, GlobalInv, CallInv, StageInv, Stages, Built, Signed, TypeOK
<1>. QED
  BY <1>1, FetchInvariant, PTL

\* A payment is not refused for the time before it is late, for every tolerance,
\* every backdating and every pair of clocks that they cover together
\* (x402-client's lib.rs against check_time_window).
THEOREM InTime == Spec => []InTimeIsAccepted
<1>1. IInv => InTimeIsAccepted
  BY DEF IInv, CallInv, RefusalInv, InTimeIsAccepted
<1>. QED
  BY <1>1, FetchInvariant, PTL

\* Every refusal of what the builders built has its cause outside of the client
\* (the builders against verify_envelope_inner and SchemeHandler::verify).
THEOREM RefusalsAreExplained == Spec => []RefusalsExplained
<1>1. IInv => RefusalsExplained
  BY DEF IInv, CallInv, RefusalInv, RefusalsExplained
<1>. QED
  BY <1>1, FetchInvariant, PTL

\* What was served after a /verify is never refused by /settle but for lateness
\* (verify_envelope_for_settle).
THEOREM SettleFollows == Spec => []SettleFollowsVerify
<1>1. IInv => SettleFollowsVerify
  BY DEF IInv, CallInv, RefusalInv, SettleFollowsVerify
<1>. QED
  BY <1>1, FetchInvariant, PTL
=============================================================================
