----------------------------- MODULE McpPaywall -----------------------------
(***************************************************************************)
(* call_tool of x402-mcp, with many calls at once: the registry looks the  *)
(* tool up, RemoteFacilitatorVerifier asks a facilitator over HTTP whether *)
(* the payment is good, and the tool's handler runs when it is.            *)
(*   "asking"    the POST to /verify is out, at the facilitator or on the  *)
(*               way back with a refusal                                   *)
(*   "granted"   the facilitator said valid; its answer is on the way      *)
(*   "running"   the tool's handler was entered                            *)
(*   "answered"  the response is out                                       *)
(* The facilitator is OncePerNonce, the specification VerifyPipeline       *)
(* implements.  It may refuse anything: the time window, and nonces it     *)
(* recorded for requests that failed, do not show here.  The registry is   *)
(* filled before the router is built and does not change after that.       *)
(* Neither HTTP client has a timeout: a call waits for as long as its      *)
(* caller does.                                                            *)
(***************************************************************************)
EXTENDS Naturals, FiniteSets

CONSTANTS
  Calls,        \* the calls that can be in flight at once
  NoCall,       \* the request of a slot without a call
  Tools,        \* the tool names callers use
  Nonces,       \* the authorization nonces
  Payments,     \* the payments callers send: records with a field nonce
  Sound(_),     \* the checks of a payment that do not depend on time
  Requests,     \* the requests: records with the fields
                \*   tool     a member of Tools
                \*   payment  the decoded X-PAYMENT-SIGNATURE, or NoPayment
  NoPayment,    \* no header, or one that does not decode
  MaxRestarts   \* bound: how often the facilitator restarts

ASSUME PaywallConstants ==
  /\ IsFiniteSet(Calls)
  /\ NoCall \notin Requests
  /\ NoPayment \notin Payments
  /\ \A p \in Payments : p.nonce \in Nonces
  /\ \A q \in Requests :
       /\ q.tool \in Tools
       /\ q.payment \in Payments \cup {NoPayment}
  /\ MaxRestarts \in Nat

VARIABLES
  tools,        \* the registered tools
  configured,   \* the registry's accepts list is not empty
  stage,        \* stage[c]: where call c stands
  call,         \* call[c]: its request
  status,       \* status[c]: the HTTP status of its response, 0 before
  reached,      \* history: what the call has set off
  late,         \* payments on their way to the facilitator without a caller
  granted,      \* the facilitator: how often it granted each payment
  restarts,     \* history: how often the facilitator has restarted
  ran           \* history: how often a handler was entered for each nonce

callVars == <<stage, call, status, reached>>
registryVars == <<tools, configured>>
facilitatorVars == <<granted, restarts>>
vars == <<registryVars, callVars, late, facilitatorVars, ran>>

Facilitator == INSTANCE OncePerNonce WITH Bodies <- Payments

TypeOK ==
  /\ tools \subseteq Tools
  /\ configured \in BOOLEAN
  /\ stage \in [Calls -> {"idle", "asking", "granted", "running", "answered"}]
  /\ call \in [Calls -> Requests \cup {NoCall}]
  /\ status \in [Calls -> {0, 200, 402, 404, 500}]
  /\ reached \in [Calls -> {"nothing", "facilitator", "handler"}]
  /\ late \subseteq Payments
  /\ granted \in [Payments -> {0, 1}]
  /\ restarts \in Nat
  /\ ran \in [Nonces -> Nat]
  /\ \A c \in Calls :
       stage[c] \in {"asking", "granted", "running"} =>
         call[c] \in Requests /\ call[c].payment \in Payments

Init ==
  /\ tools \in SUBSET Tools
  /\ configured \in BOOLEAN
  /\ stage = [c \in Calls |-> "idle"]
  /\ call = [c \in Calls |-> NoCall]
  /\ status = [c \in Calls |-> 0]
  /\ reached = [c \in Calls |-> "nothing"]
  /\ late = {}
  /\ Facilitator!Init
  /\ restarts = 0
  /\ ran = [n \in Nonces |-> 0]

-----------------------------------------------------------------------------
(***************************************************************************)
(* The steps of one call.                                                  *)
(***************************************************************************)
Move(c, from, to) ==
  /\ stage[c] = from
  /\ stage' = [stage EXCEPT ![c] = to]

Answer(c, from, code) ==
  /\ Move(c, from, "answered")
  /\ status' = [status EXCEPT ![c] = code]

\* A defect: the payment is verified before the tool is looked up.
ReceiveVerifyFirst(c, q) ==
  /\ Move(c, "idle", IF q.payment = NoPayment \/ q.tool \notin tools
                     THEN "answered" ELSE "asking")
  /\ call' = [call EXCEPT ![c] = q]
  /\ status' = [status EXCEPT ![c] =
                  IF q.payment = NoPayment THEN 402
                  ELSE IF q.tool \notin tools THEN 404 ELSE 0]
  /\ reached' = [reached EXCEPT ![c] =
                  IF q.payment = NoPayment THEN "nothing" ELSE "facilitator"]
  /\ UNCHANGED <<registryVars, late, facilitatorVars, ran>>

\* A call arrives, a first one or a retry: the tool, the requirements, the
\* payment, each with its early return, and then the POST.
Receive(c, q) ==
  /\ \/ /\ Answer(c, "idle", 404)
        /\ q.tool \notin tools
        /\ UNCHANGED reached
     \/ /\ Answer(c, "idle", 500)
        /\ q.tool \in tools /\ ~configured
        /\ UNCHANGED reached
     \/ /\ Answer(c, "idle", 402)
        /\ q.tool \in tools /\ configured /\ q.payment = NoPayment
        /\ UNCHANGED reached
     \/ /\ Move(c, "idle", "asking")
        /\ q.tool \in tools /\ configured /\ q.payment # NoPayment
        /\ reached' = [reached EXCEPT ![c] = "facilitator"]
        /\ UNCHANGED status
  /\ call' = [call EXCEPT ![c] = q]
  /\ UNCHANGED <<registryVars, late, facilitatorVars, ran>>

\* The facilitator grants the payment.
Grant(c) ==
  /\ Move(c, "asking", "granted")
  /\ Facilitator!Grant(call[c].payment)
  /\ UNCHANGED <<registryVars, call, status, reached, late, restarts, ran>>

\* VerifyFailure::Rejected: the facilitator says no.
Reject(c) ==
  /\ Answer(c, "asking", 402)
  /\ UNCHANGED <<registryVars, call, reached, late, facilitatorVars, ran>>

\* A defect: a payment that could not be verified is let through.
TransportLetsThrough(c) ==
  /\ Move(c, "asking", "granted")
  /\ UNCHANGED <<registryVars, call, status, reached, late, facilitatorVars, ran>>

\* VerifyFailure::Transport: the request, or the answer, is lost.  The
\* facilitator has it, or may still get it.
Transport(c) ==
  /\ \/ Answer(c, "asking", 402) /\ UNCHANGED late
     \/ Answer(c, "granted", 402) /\ UNCHANGED late
     \/ /\ Answer(c, "asking", 402)
        /\ late' = late \cup {call[c].payment}
  /\ UNCHANGED <<registryVars, call, reached, facilitatorVars, ran>>

\* The answer is back: McpToolRegistry::invoke enters the handler.  The tool
\* is registered, as it was when it was looked up.
Invoke(c) ==
  /\ Move(c, "granted", "running")
  /\ reached' = [reached EXCEPT ![c] = "handler"]
  /\ ran' = [ran EXCEPT ![call[c].payment.nonce] = @ + 1]
  /\ UNCHANGED <<registryVars, call, status, late, facilitatorVars>>

\* A defect: a failed tool is answered like a payment that is missing.
FinishFailedAs402(c) ==
  /\ Answer(c, "running", 200) \/ Answer(c, "running", 402)
  /\ UNCHANGED <<registryVars, call, reached, late, facilitatorVars, ran>>

\* The handler is done: CallOutcome::Success or ToolFailed.
Finish(c) ==
  /\ Answer(c, "running", 200) \/ Answer(c, "running", 500)
  /\ UNCHANGED <<registryVars, call, reached, late, facilitatorVars, ran>>

\* A defect: the slot is cleared and keeps its stage.
ClearCallOnly(c) ==
  /\ call' = [call EXCEPT ![c] = NoCall]
  /\ UNCHANGED <<stage, status, reached>>

Clear(c) ==
  /\ stage' = [stage EXCEPT ![c] = "idle"]
  /\ call' = [call EXCEPT ![c] = NoCall]
  /\ status' = [status EXCEPT ![c] = 0]
  /\ reached' = [reached EXCEPT ![c] = "nothing"]

\* The response went out, or was lost.
Release(c) ==
  /\ stage[c] = "answered"
  /\ Clear(c)
  /\ UNCHANGED <<registryVars, late, facilitatorVars, ran>>

\* The caller goes away and the runtime drops the call at its await, with its
\* request to the facilitator on the way or not.
Cancel(c) ==
  /\ stage[c] \in {"asking", "granted", "running"}
  /\ late' \in {late, late \cup (IF stage[c] = "asking"
                                  THEN {call[c].payment} ELSE {})}
  /\ Clear(c)
  /\ UNCHANGED <<registryVars, facilitatorVars, ran>>

-----------------------------------------------------------------------------
(***************************************************************************)
(* The facilitator on its own.                                             *)
(***************************************************************************)
\* A request nobody waits for any more arrives, and another like it may
\* still be on its way.
GrantLate(p) ==
  /\ p \in late
  /\ late' \in {late, late \ {p}}
  /\ Facilitator!Grant(p)
  /\ UNCHANGED <<registryVars, callVars, restarts, ran>>

\* It restarts and forgets what it granted.
Restart ==
  /\ restarts < MaxRestarts
  /\ restarts' = restarts + 1
  /\ Facilitator!Restart
  /\ UNCHANGED <<registryVars, callVars, late, ran>>

Step(c) ==
  \/ \E q \in Requests : Receive(c, q)
  \/ Grant(c)
  \/ Reject(c)
  \/ Transport(c)
  \/ Invoke(c)
  \/ Finish(c)
  \/ Release(c)
  \/ Cancel(c)

Next ==
  \/ \E c \in Calls : Step(c)
  \/ \E p \in Payments : GrantLate(p)
  \/ Restart

Spec == Init /\ [][Next]_vars

-----------------------------------------------------------------------------
(***************************************************************************)
(* Properties.                                                             *)
(***************************************************************************)
\* A payment buys one run of one tool: whatever calls repeat it, for one tool
\* or for several, with answers of the facilitator lost and callers that go
\* away, a handler is entered at most once for a nonce in a lifetime of the
\* facilitator (call_tool: verify, then invoke).
OneRunPerPayment == \A n \in Nonces : ran[n] <= 1 + restarts

\* What the status lets the caller conclude: 200 says the tool ran; 402 says
\* it did not; 404 says also that the payment was shown to nobody, so that it
\* can be used for another tool (call_tool's early returns).
StatusTells ==
  \A c \in Calls :
    /\ status[c] = 200 => reached[c] = "handler"
    /\ status[c] = 402 => reached[c] # "handler"
    /\ status[c] = 404 => reached[c] = "nothing"
=============================================================================
