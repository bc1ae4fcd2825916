------------------------------ MODULE PaidFetch ------------------------------
(***************************************************************************)
(* One paid request from end to end: the client library, a resource server *)
(* that charges for what it serves, and the facilitator both of them ask.  *)
(*                                                                         *)
(* The client pays in one of two ways.  fetch_with_payment ("fetch") shows *)
(* the payment to the facilitator's /verify itself before it retries the   *)
(* GET; a caller that uses the builder alone ("direct", as the demo does)  *)
(* goes straight to the server.  The server shows the payment to /verify,  *)
(* serves, and posts /settle.  A call c of the client stands before        *)
(*   "idle"       its first GET                                            *)
(*   "signing"    the signature: the window is chosen, the signer called   *)
(*   "verifying"  the answer of /verify                                    *)
(*   "paying"     the arrival of the retried request at the server         *)
(*   "waiting"    the answer of the server                                 *)
(* or has ended with what its caller gets: an answer of the server (200,   *)
(* 402, 500) or an error.                                                  *)
(*                                                                         *)
(* The client's clock differs from the facilitator's by skewed seconds.    *)
(* An authorization's nonce is the call that made it.                      *)
(***************************************************************************)
EXTENDS Envelope, Sequences

CONSTANTS
  Calls,          \* the calls of the client
  Offers,         \* the accepts lists a server may have
  Allowed(_),     \* the policy of a PolicyEnforcedSigner
  Backdate,       \* how far the builders set valid_after back
  ClockGap,       \* how far the two clocks are apart at most
  Start,          \* the facilitator's clock at the start
  MaxTime,        \* bound: time stops
  MaxRestarts,    \* bound: restarts of the facilitator
  NoPayload       \* a call that has built none

\* The requirements servers ask for, and what is signed for one.
Requirements == UNION {{accepts[i] : i \in DOMAIN accepts} : accepts \in Offers}

Payloads ==
  [req : Requirements, value : Int, validAfter : 0 .. MaxU64, validBefore : 0 .. MaxU64,
   signature : {"none", "valid", "stub"}, rawTx : BOOLEAN]

ASSUME FetchConstants ==
  /\ Offers # {} /\ Offers \subseteq Seq(Requirements)
  /\ \A req \in Requirements : req.maxAmount \in Int /\ req.timeout \in 0 .. MaxU64
  /\ NoPayload \notin Payloads \cup Requirements
  /\ Backdate \in Nat
  /\ ClockGap \in 0 .. Skew + Backdate
  /\ Start \in 0 .. MaxTime /\ MaxTime \in Nat /\ MaxRestarts \in Nat
  /\ MaxTime + Skew + ClockGap <= MaxU64

VARIABLES
  now,            \* Clock::now() of the facilitator
  skewed,         \* the client's clock minus the facilitator's
  used,           \* the nonces the facilitator remembers
  restarts,       \* how often it has restarted
  offer,          \* the accepts list of the server
  stage,          \* stage[c]: where the call stands, or how it ended
  flow,           \* flow[c]: "fetch" or "direct"
  payload,        \* payload[c]: what the client signed, or NoPayload
  builtAt,        \* history: the facilitator's clock when c chose its window
  asked,          \* asked[c]: the requirement the server's /verify was for
  serving,        \* serving[c]: what the server has done for c's request
  told,           \* told[c]: the verdict its /verify met for this request
  settled         \* settled[c]: what /settle last answered for c

clientVars == <<stage, flow, payload, builtAt>>
serverVars == <<offer, asked, serving, told, settled>>
vars == <<now, skewed, used, restarts, clientVars, serverVars>>

Results == {"200", "402", "500", "error", "denied", "rejected", "no accepts"}

Verdicts ==
  {"ok", "unknown_scheme", "outside_time_window", "nonce_replayed",
   "invalid_recipient", "invalid_scheme", "invalid_network", "invalid_signature",
   "invalid_payload", "over_max_amount", "asset_mismatch"}

TypeOK ==
  /\ now \in Start .. MaxTime
  /\ used \subseteq Calls
  /\ restarts \in 0 .. MaxRestarts
  /\ offer \in Offers
  /\ \A c \in Calls :
       /\ stage[c] \in {"idle", "signing", "verifying", "paying", "waiting"} \cup Results
       /\ payload[c] = NoPayload <=> stage[c] \in {"idle", "no accepts"}
       /\ stage[c] \in {"verifying", "paying", "waiting", "200", "402", "500", "rejected"} =>
            payload[c].signature # "none"
       /\ serving[c] \in {"no", "checking", "granted", "served", "refused"}
       /\ serving[c] \in {"checking", "granted"} => stage[c] \in {"waiting", "error"}
       /\ stage[c] = "200" => serving[c] = "served"
       /\ told[c] \in Verdicts \cup {"none", "lost"}
       /\ settled[c] \in Verdicts \cup {"none", "chain_unimplemented", "submitted"}

Init ==
  /\ now = Start
  /\ skewed \in (-ClockGap) .. ClockGap
  /\ used = {}
  /\ restarts = 0
  /\ offer \in Offers
  /\ stage = [c \in Calls |-> "idle"]
  /\ flow \in [Calls -> {"fetch", "direct"}]
  /\ payload = [c \in Calls |-> NoPayload]
  /\ builtAt = [c \in Calls |-> Start]
  /\ asked = [c \in Calls |-> NoPayload]
  /\ serving = [c \in Calls |-> "no"]
  /\ told = [c \in Calls |-> "none"]
  /\ settled = [c \in Calls |-> "none"]

-----------------------------------------------------------------------------
(***************************************************************************)
(* The facilitator, as one step: VerifyPipeline has its steps.             *)
(***************************************************************************)
\* What /verify and /settle check: the payload p of c against requirement req.
Body(c, p, req) ==
  [version |-> 2, scheme |-> p.req.scheme, reqScheme |-> req.scheme,
   network |-> p.req.network, reqNetwork |-> req.network, decodes |-> TRUE,
   nonce |-> c, validAfter |-> p.validAfter, validBefore |-> p.validBefore,
   to |-> p.req.payTo, payTo |-> req.payTo,
   value |-> p.value, cap |-> req.maxAmount,
   asset |-> req.asset, signature |-> p.signature]

\* The checks up to the nonce, which /settle skips.
Timely(b) == EnvelopeVerdict(b) = "ok" /\ InWindow(b, now)

VerdictOf(b, replayed) ==
  IF EnvelopeVerdict(b) # "ok" THEN EnvelopeVerdict(b)
  ELSE IF ~InWindow(b, now) THEN "outside_time_window"
  ELSE IF replayed THEN "nonce_replayed"
  ELSE HandlerVerdict(b)

Verdict(b) == VerdictOf(b, b.nonce \in used)

\* A defect: /settle asks the cache, too.
SettleVerdictWithReplay(b) == VerdictOf(b, b.nonce \in used)

SettleVerdict(b) == VerdictOf(b, FALSE)

\* The request reaches /verify; the nonce is used up before the handler runs.
FacilitatorVerify(b) ==
  used' = IF Timely(b) THEN used \cup {b.nonce} ELSE used

FacilitatorRestart ==
  /\ restarts < MaxRestarts
  /\ restarts' = restarts + 1
  /\ used' = {}
  /\ UNCHANGED <<now, skewed, clientVars, serverVars>>

-----------------------------------------------------------------------------
(***************************************************************************)
(* The client.                                                             *)
(***************************************************************************)
ClientNow == IF now + skewed < 0 THEN 0 ELSE now + skewed

\* A defect: the window begins when it is chosen.
ValidAfterNow(t) == t

ValidAfter(t) == SaturatingSub(t, Backdate)

ValidBefore(t, timeout) == SaturatingAdd(t, timeout)

\* A defect: the fee is paid on top.
ValueAndFee(req) == req.maxAmount + req.minFee

Value(req) == req.maxAmount

\* The builders up to the signature: whoever builds pays the whole amount to
\* the one who asks, from now on for as long as the server allows.
Unsigned(req, t) ==
  [req |-> req, value |-> Value(req),
   validAfter |-> ValidAfter(t), validBefore |-> ValidBefore(t, req.timeout),
   signature |-> "none", rawTx |-> FALSE]

\* The first GET: 402 with a list of which the first requirement is taken, or
\* no such answer.
GetPaymentRequired(c) ==
  /\ stage[c] = "idle"
  /\ \/ /\ offer # << >>
        /\ stage' = [stage EXCEPT ![c] = "signing"]
        /\ payload' = [payload EXCEPT ![c] = Unsigned(offer[1], ClientNow)]
        /\ builtAt' = [builtAt EXCEPT ![c] = now]
     \/ /\ offer = << >>
        /\ stage' = [stage EXCEPT ![c] = "no accepts"]
        /\ UNCHANGED <<payload, builtAt>>
  /\ UNCHANGED <<now, skewed, used, restarts, flow, serverVars>>

\* A defect: what the policy refuses goes out unsigned.
SignAuthorizationOrNot(c) ==
  LET p == payload[c]
  IN  /\ stage[c] = "signing"
      /\ \/ /\ ~Allowed(p.req)
            /\ UNCHANGED payload
         \/ /\ Allowed(p.req)
            /\ payload' = [payload EXCEPT ![c].signature = "stub"]
      /\ stage' = [stage EXCEPT ![c] = IF flow[c] = "fetch" THEN "verifying" ELSE "paying"]
      /\ UNCHANGED <<now, skewed, used, restarts, flow, builtAt, serverVars>>

\* PolicyEnforcedSigner around NockchainSigner or StubSigner: refused, failed as
\* the digest cannot be computed, or signed; the stub signs anything.  A payment with a wallet also
\* carries a transaction; fetch_with_payment has none.
SignAuthorization(c) ==
  LET p == payload[c]
      next == IF flow[c] = "fetch" THEN "verifying" ELSE "paying"
  IN  /\ stage[c] = "signing"
      /\ \/ /\ ~Allowed(p.req)
            /\ stage' = [stage EXCEPT ![c] = "denied"]
            /\ UNCHANGED payload
         \/ /\ Allowed(p.req) /\ p.value \notin 0 .. MaxU64
            /\ stage' = [stage EXCEPT ![c] = "error"]
            /\ UNCHANGED payload
         \/ /\ Allowed(p.req)
            /\ \E signature \in {"valid", "stub"}, rawTx \in BOOLEAN :
                 /\ signature = "valid" => p.value \in 0 .. MaxU64
                 /\ rawTx => flow[c] = "direct" /\ signature = "valid"
                 /\ payload' = [payload EXCEPT ![c].signature = signature,
                                               ![c].rawTx = rawTx]
            /\ stage' = [stage EXCEPT ![c] = next]
      /\ UNCHANGED <<now, skewed, used, restarts, flow, builtAt, serverVars>>

\* X402Client::verify.  The request or its answer may be lost.
ClientVerify(c) ==
  LET b == Body(c, payload[c], payload[c].req)
  IN  /\ stage[c] = "verifying"
      /\ \/ /\ FacilitatorVerify(b)
            /\ stage' = [stage EXCEPT ![c] =
                           IF Verdict(b) = "ok" THEN "paying" ELSE "rejected"]
         \/ /\ FacilitatorVerify(b) \/ UNCHANGED used
            /\ stage' = [stage EXCEPT ![c] = "error"]
      /\ UNCHANGED <<now, skewed, restarts, flow, payload, builtAt, serverVars>>

\* The payment arrives at the server, or does not.
SendPayment(c) ==
  /\ stage[c] = "paying"
  /\ \/ /\ stage' = [stage EXCEPT ![c] = "waiting"]
        /\ serving' = [serving EXCEPT ![c] = IF offer = << >> THEN "refused" ELSE "checking"]
        /\ asked' = [asked EXCEPT ![c] = IF offer = << >> THEN NoPayload ELSE offer[1]]
     \/ /\ stage' = [stage EXCEPT ![c] = "error"]
        /\ UNCHANGED <<serving, asked>>
  /\ UNCHANGED <<now, skewed, used, restarts, flow, payload, builtAt, offer,
                 told, settled>>

\* The server's answer arrives, or the connection is lost at any time before,
\* and with it what the server was doing unless it did not notice.
Answered(c) ==
  /\ stage[c] = "waiting"
  /\ \/ /\ serving[c] = "served"
        /\ stage' = [stage EXCEPT ![c] = "200"]
        /\ UNCHANGED serving
     \/ /\ serving[c] = "refused"
        /\ stage' = [stage EXCEPT ![c] = IF asked[c] = NoPayload THEN "500" ELSE "402"]
        /\ UNCHANGED serving
     \/ /\ stage' = [stage EXCEPT ![c] = "error"]
        /\ \/ UNCHANGED serving
           \/ /\ serving[c] \in {"checking", "granted"}
              /\ serving' = [serving EXCEPT ![c] = "no"]
  /\ UNCHANGED <<now, skewed, used, restarts, flow, payload, builtAt, offer, asked,
                 told, settled>>

-----------------------------------------------------------------------------
(***************************************************************************)
(* The resource server.                                                    *)
(***************************************************************************)
\* RemoteFacilitatorVerifier::verify.  The request or its answer may be lost.
ServerVerify(c) ==
  LET b == Body(c, payload[c], asked[c])
  IN  /\ serving[c] = "checking"
      /\ \/ /\ FacilitatorVerify(b)
            /\ told' = [told EXCEPT ![c] = Verdict(b)]
            /\ serving' = [serving EXCEPT ![c] =
                             IF Verdict(b) = "ok" THEN "granted" ELSE "refused"]
         \/ /\ FacilitatorVerify(b) \/ UNCHANGED used
            /\ told' = [told EXCEPT ![c] = "lost"]
            /\ serving' = [serving EXCEPT ![c] = "refused"]
      /\ UNCHANGED <<now, skewed, restarts, clientVars, offer, asked, settled>>

Serve(c) ==
  /\ serving[c] = "granted"
  /\ serving' = [serving EXCEPT ![c] = "served"]
  /\ UNCHANGED <<now, skewed, used, restarts, clientVars, offer, asked, told, settled>>

\* The server posts /settle for what it served, again if it likes: the same
\* checks but for the nonce, then the transaction if there is one.
Settle(c) ==
  LET b == Body(c, payload[c], asked[c])
  IN  /\ serving[c] = "served"
      /\ settled' = [settled EXCEPT ![c] =
                       IF SettleVerdict(b) # "ok" THEN SettleVerdict(b)
                       ELSE IF payload[c].rawTx THEN "submitted"
                       ELSE "chain_unimplemented"]
      /\ UNCHANGED <<now, skewed, used, restarts, clientVars, offer, asked, serving,
                     told>>

\* The server comes back with another price list.
Redeploy ==
  /\ offer' \in Offers \ {offer}
  /\ UNCHANGED <<now, skewed, used, restarts, clientVars, asked, serving, told,
                 settled>>

Tick ==
  /\ now < MaxTime
  /\ now' = now + 1
  /\ UNCHANGED <<skewed, used, restarts, clientVars, serverVars>>

-----------------------------------------------------------------------------
Step(c) ==
  \/ GetPaymentRequired(c)
  \/ SignAuthorization(c)
  \/ ClientVerify(c)
  \/ SendPayment(c)
  \/ Answered(c)
  \/ ServerVerify(c)
  \/ Serve(c)
  \/ Settle(c)

Next ==
  \/ \E c \in Calls : Step(c)
  \/ FacilitatorRestart
  \/ Redeploy
  \/ Tick

Spec == Init /\ [][Next]_vars

-----------------------------------------------------------------------------
(***************************************************************************)
(* Properties.                                                             *)
(***************************************************************************)
\* How long after its window was chosen a payment may still be refused for
\* nothing but the time.
Late(c) == now - builtAt[c] > payload[c].req.timeout + Skew - ClockGap

\* The builders choose a window (x402-client, lib.rs) that check_time_window
\* (verify.rs) admits at once and for as long as the requirement says, with
\* clocks apart by all that the tolerance and the backdating cover.
InTimeIsAccepted ==
  \A c \in Calls :
    "outside_time_window" \in {told[c], settled[c]} => Late(c)

\* What the builders build from a requirement passes every other check against
\* that requirement: each refusal has a cause outside of them, and a nonce that
\* /verify already knows when the server asks was shown to it by
\* fetch_with_payment, never by another request of the server.
RefusalsExplained ==
  \A c \in Calls :
    /\ told[c] \in {"invalid_scheme", "invalid_network", "invalid_recipient",
                    "invalid_payload", "over_max_amount"} => asked[c] # payload[c].req
    /\ told[c] = "unknown_scheme" => HandlersFor(asked[c].scheme, asked[c].network) = {}
    /\ told[c] = "asset_mismatch" => asked[c].asset # "NOCK"
    /\ told[c] = "invalid_signature" => payload[c].signature = "stub"
    /\ told[c] = "nonce_replayed" => flow[c] = "fetch"

\* "/settle should accept the same envelope on the follow-up without re-rejecting
\* on the cache hit" (verify_envelope_for_settle): what a server has served after
\* a /verify, /settle refuses for lateness only.
SettleFollowsVerify ==
  \A c \in Calls :
    settled[c] \in {"none", "chain_unimplemented", "submitted", "outside_time_window"}

\* The "full 402-flow round trip" of fetch_with_payment, at a server that does
\* what the flow of ARCHITECTURE.md shows: with nothing lost, the price as it
\* was, and in time, the answer is 200.
PaidFetchDelivers ==
  \A c \in Calls :
    stage[c] = "402" /\ flow[c] = "fetch" =>
      told[c] = "lost" \/ asked[c] # payload[c].req \/ Late(c)
=============================================================================
