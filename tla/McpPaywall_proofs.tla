------------------------- MODULE McpPaywall_proofs -------------------------
(***************************************************************************)
(* The safety of McpPaywall for any number of calls, tools, payments and   *)
(* restarts of the facilitator.                                            *)
(***************************************************************************)
EXTENDS McpPaywall, FiniteSetTheorems, TLAPS

-----------------------------------------------------------------------------
(* The inductive invariant.                                                *)

\* What the stage of a call says about its status and what it set off.
StageInv ==
  \A c \in Calls :
    /\ stage[c] # "answered" => status[c] = 0
    /\ stage[c] = "idle" => reached[c] = "nothing"
    /\ stage[c] \in {"asking", "granted"} => reached[c] = "facilitator"
    /\ stage[c] = "running" => reached[c] = "handler"

\* The calls that were granted nonce n and have not entered a handler yet.
Tickets(n) == {c \in Calls : stage[c] = "granted" /\ call[c].payment.nonce = n}

\* 1 when the facilitator has granted n since it started.
Spent(n) ==
  IF \E p \in Payments : p.nonce = n /\ granted[p] # 0 THEN 1 ELSE 0

\* Every run, and every ticket for one, is paid for by a grant.
TicketInv ==
  \A n \in Nonces : ran[n] + Cardinality(Tickets(n)) <= restarts + Spent(n)

IInv == TypeOK /\ StageInv /\ StatusTells /\ TicketInv

-----------------------------------------------------------------------------
(* Tickets.                                                                *)

\* How many tickets there are is a number.
LEMMA TicketsFinite ==
  \A n : IsFiniteSet(Tickets(n)) /\ Cardinality(Tickets(n)) \in Nat
<1>. TAKE n
<1>1. Tickets(n) \subseteq Calls
  BY DEF Tickets
<1>. QED
  BY <1>1, PaywallConstants, FS_Subset, FS_CardinalityType

\* Fewer tickets are no more tickets.
LEMMA TicketsShrink ==
  ASSUME NEW n, Tickets(n)' \subseteq Tickets(n)
  PROVE  /\ Cardinality(Tickets(n)') \in Nat
         /\ Cardinality(Tickets(n)') <= Cardinality(Tickets(n))
BY TicketsFinite, FS_Subset, FS_CardinalityType

\* What the facilitator has spent on a nonce since it started is one grant or none.
LEMMA SpentBounds == \A n : Spent(n) \in {0, 1}
BY DEF Spent

\* A step that hands out no ticket, enters no handler and takes no grant back
\* keeps the balance.
LEMMA NoTicket ==
  ASSUME TypeOK, TicketInv,
         \A n : Tickets(n)' \subseteq Tickets(n),
         UNCHANGED <<ran, restarts>>,
         \A n \in Nonces : Spent(n)' >= Spent(n)
  PROVE  TicketInv'
<1>. SUFFICES ASSUME NEW n \in Nonces
              PROVE  ran[n] + Cardinality(Tickets(n)') <= restarts + Spent(n)'
  BY DEF TicketInv
<1>1. ran[n] + Cardinality(Tickets(n)) <= restarts + Spent(n)
  BY DEF TicketInv
<1>2. ran[n] \in Nat /\ restarts \in Nat
  BY DEF TypeOK
<1>3. Spent(n) \in {0, 1} /\ Spent(n)' \in {0, 1} /\ Spent(n)' >= Spent(n)
  BY SpentBounds DEF Spent
<1>. QED
  BY <1>1, <1>2, <1>3, TicketsShrink, TicketsFinite

-----------------------------------------------------------------------------
(* The steps.                                                              *)

\* No call has come, no nonce is granted, no tool has run.
LEMMA InitIInv == Init => IInv
<1>. SUFFICES ASSUME Init
              PROVE  IInv
  OBVIOUS
<1>1. TypeOK /\ StageInv /\ StatusTells
  BY DEF Init, TypeOK, StageInv, StatusTells, Facilitator!Init
<1>2. TicketInv
  <2>1. \A n : Tickets(n) = {}
    BY DEF Init, Tickets
  <2>2. \A n \in Nonces : Cardinality(Tickets(n)) = 0 /\ ran[n] = 0
    BY <2>1, FS_EmptySet DEF Init
  <2>. QED
    BY <2>2, SpentBounds DEF Init, TicketInv
<1>. QED
  BY <1>1, <1>2 DEF IInv

\* The types, and what a call's stage and status say.
LEMMA NextTypes ==
  ASSUME TypeOK, StageInv, StatusTells, [Next]_vars
  PROVE  TypeOK' /\ StageInv' /\ StatusTells'
<1>. USE DEF TypeOK, StageInv, StatusTells
<1>1. ASSUME NEW c \in Calls, NEW q \in Requests, Receive(c, q)
      PROVE  TypeOK' /\ StageInv' /\ StatusTells'
  <2>1. q.payment = NoPayment \/ q.payment \in Payments
    BY PaywallConstants
  <2>2. UNCHANGED <<registryVars, late, facilitatorVars, ran>>
        /\ call' = [call EXCEPT ![c] = q]
    BY <1>1 DEF Receive
  <2>3. CASE Move(c, "idle", "asking")
    <3>1. /\ q.payment \in Payments
          /\ reached' = [reached EXCEPT ![c] = "facilitator"]
          /\ UNCHANGED status
      BY <1>1, <2>1, <2>3 DEF Receive, Move, Answer
    <3>. QED
      BY <2>2, <2>3, <3>1 DEF Move, registryVars, facilitatorVars
  <2>4. ASSUME NEW code \in {402, 404, 500}, Answer(c, "idle", code),
               UNCHANGED reached
        PROVE  TypeOK' /\ StageInv' /\ StatusTells'
    BY <2>2, <2>4 DEF Answer, Move, registryVars, facilitatorVars
  <2>. QED
    BY <1>1, <2>3, <2>4 DEF Receive
<1>2. ASSUME NEW c \in Calls, Grant(c)
      PROVE  TypeOK' /\ StageInv' /\ StatusTells'
  BY <1>2 DEF Grant, Move, Facilitator!Grant, registryVars
<1>3. ASSUME NEW c \in Calls, Reject(c) \/ Transport(c)
      PROVE  TypeOK' /\ StageInv' /\ StatusTells'
  <2>1. /\ Answer(c, "asking", 402) \/ Answer(c, "granted", 402)
        /\ late' \subseteq Payments
        /\ UNCHANGED <<registryVars, call, reached, facilitatorVars, ran>>
    BY <1>3 DEF Reject, Transport, Answer, Move
  <2>. QED
    BY <2>1 DEF Answer, Move, registryVars, facilitatorVars
<1>4. ASSUME NEW c \in Calls, Invoke(c)
      PROVE  TypeOK' /\ StageInv' /\ StatusTells'
  <2>1. call[c].payment.nonce \in Nonces
    BY <1>4, PaywallConstants DEF Invoke, Move
  <2>. QED
    BY <1>4, <2>1 DEF Invoke, Move, registryVars, facilitatorVars
<1>5. ASSUME NEW c \in Calls, Finish(c)
      PROVE  TypeOK' /\ StageInv' /\ StatusTells'
  BY <1>5 DEF Finish, Answer, Move, registryVars, facilitatorVars
<1>6. ASSUME NEW c \in Calls, Release(c) \/ Cancel(c)
      PROVE  TypeOK' /\ StageInv' /\ StatusTells'
  <2>1. /\ Clear(c)
        /\ late' \subseteq Payments
        /\ UNCHANGED <<registryVars, facilitatorVars, ran>>
    BY <1>6 DEF Release, Cancel
  <2>. QED
    BY <2>1 DEF Clear, registryVars, facilitatorVars
<1>7. ASSUME NEW p \in Payments, GrantLate(p)
      PROVE  TypeOK' /\ StageInv' /\ StatusTells'
  BY <1>7 DEF GrantLate, Facilitator!Grant, registryVars, callVars
<1>8. CASE Restart
  BY <1>8 DEF Restart, Facilitator!Restart, registryVars, callVars
<1>9. CASE UNCHANGED vars
  BY <1>9 DEF vars, registryVars, callVars, facilitatorVars
<1>. QED
  BY <1>1, <1>2, <1>3, <1>4, <1>5, <1>6, <1>7, <1>8, <1>9 DEF Next, Step

\* A grant finds its nonce unspent and spends it, and no other.
LEMMA GrantSpends ==
  ASSUME TypeOK, NEW p \in Payments, Facilitator!Grant(p)
  PROVE  /\ Spent(p.nonce) = 0 /\ Spent(p.nonce)' = 1
         /\ \A n : n # p.nonce => Spent(n)' = Spent(n)
BY DEF TypeOK, Facilitator!Grant, Spent

\* Every step keeps the count of runs and tickets within the grants.
LEMMA NextTickets ==
  ASSUME TypeOK, TicketInv, [Next]_vars
  PROVE  TicketInv'
<1>. USE DEF TypeOK
<1>1. ASSUME NEW c \in Calls, NEW q \in Requests, Receive(c, q)
      PROVE  TicketInv'
  <2>1. \A n : Tickets(n)' \subseteq Tickets(n)
    BY <1>1 DEF Receive, Answer, Move, Tickets
  <2>. QED
    BY <1>1, <2>1, NoTicket DEF Receive, Spent, facilitatorVars
<1>2. ASSUME NEW c \in Calls, Grant(c)
      PROVE  TicketInv'
  <2>0. PICK p \in Payments : p = call[c].payment
    BY <1>2 DEF Grant, Move
  <2> DEFINE k == p.nonce
  <2>1. k \in Nonces /\ Facilitator!Grant(p) /\ UNCHANGED <<call, restarts, ran>>
    BY <1>2, <2>0, PaywallConstants DEF Grant
  <2>2. Spent(k) = 0 /\ Spent(k)' = 1 /\ \A n : n # k => Spent(n)' = Spent(n)
    BY <2>1, GrantSpends
  <2>3. c \notin Tickets(k) /\ Tickets(k)' = Tickets(k) \cup {c}
    BY <1>2, <2>0, <2>1 DEF Grant, Move, Tickets
  <2>4. Cardinality(Tickets(k)') = Cardinality(Tickets(k)) + 1
    <3>1. IsFiniteSet(Tickets(k))
      BY TicketsFinite
    <3>2. Cardinality(Tickets(k) \cup {c}) =
            IF c \in Tickets(k) THEN Cardinality(Tickets(k))
                                ELSE Cardinality(Tickets(k)) + 1
      BY <3>1, FS_AddElement, Zenon
    <3>. QED
      BY <2>3, <3>2, Zenon
  <2>5. \A n : n # k => Tickets(n)' = Tickets(n)
    BY <1>2, <2>0, <2>1 DEF Grant, Move, Tickets
  <2>. SUFFICES ASSUME NEW n \in Nonces
                PROVE  ran[n] + Cardinality(Tickets(n)') <= restarts + Spent(n)'
    BY <2>1 DEF TicketInv
  <2>6. ran[n] + Cardinality(Tickets(n)) <= restarts + Spent(n)
    BY DEF TicketInv
  <2>7. CASE n = k
    BY <2>7, <2>2, <2>4, <2>6, TicketsFinite
  <2>8. CASE n # k
    BY <2>8, <2>2, <2>5, <2>6
  <2>. QED
    BY <2>7, <2>8
<1>3. ASSUME NEW c \in Calls, Reject(c) \/ Transport(c) \/ Finish(c)
      PROVE  TicketInv'
  <2>1. UNCHANGED <<call, facilitatorVars, ran>>
    BY <1>3 DEF Reject, Transport, Finish
  <2>2. \A n : Tickets(n)' \subseteq Tickets(n)
    BY <1>3, <2>1 DEF Reject, Transport, Finish, Answer, Move, Tickets
  <2>. QED
    BY <2>1, <2>2, NoTicket DEF Spent, facilitatorVars
<1>4. ASSUME NEW c \in Calls, Invoke(c)
      PROVE  TicketInv'
  <2>0. PICK k \in Nonces : k = call[c].payment.nonce
    BY <1>4, PaywallConstants DEF Invoke, Move
  <2>1. /\ UNCHANGED <<call, facilitatorVars>>
        /\ ran' = [ran EXCEPT ![k] = @ + 1]
    BY <1>4, <2>0 DEF Invoke
  <2>2. c \in Tickets(k) /\ Tickets(k)' = Tickets(k) \ {c}
    BY <1>4, <2>0, <2>1 DEF Invoke, Move, Tickets
  <2>3. Cardinality(Tickets(k)') = Cardinality(Tickets(k)) - 1
    <3>1. IsFiniteSet(Tickets(k))
      BY TicketsFinite
    <3>2. Cardinality(Tickets(k) \ {c}) =
            IF c \in Tickets(k) THEN Cardinality(Tickets(k)) - 1
                                ELSE Cardinality(Tickets(k))
      BY <3>1, FS_RemoveElement, Zenon
    <3>. QED
      BY <2>2, <3>2, Zenon
  <2>4. \A n : n # k => Tickets(n)' = Tickets(n)
    BY <1>4, <2>0, <2>1 DEF Invoke, Move, Tickets
  <2>5. \A n : Spent(n)' = Spent(n)
    BY <2>1 DEF Spent, facilitatorVars
  <2>. SUFFICES ASSUME NEW n \in Nonces
                PROVE  ran'[n] + Cardinality(Tickets(n)') <= restarts + Spent(n)
    BY <2>1, <2>5 DEF TicketInv, facilitatorVars
  <2>6. ran[n] + Cardinality(Tickets(n)) <= restarts + Spent(n)
    BY DEF TicketInv
  <2>7. CASE n = k
    BY <2>7, <2>1, <2>3, <2>6, TicketsFinite, SpentBounds
  <2>8. CASE n # k
    BY <2>8, <2>1, <2>4, <2>6
  <2>. QED
    BY <2>7, <2>8
<1>5. ASSUME NEW c \in Calls, Release(c) \/ Cancel(c)
      PROVE  TicketInv'
  <2>1. Clear(c) /\ UNCHANGED <<facilitatorVars, ran>>
    BY <1>5 DEF Release, Cancel
  <2>2. \A n : Tickets(n)' \subseteq Tickets(n)
    BY <2>1 DEF Clear, Tickets
  <2>. QED
    BY <2>1, <2>2, NoTicket DEF Spent, facilitatorVars
<1>6. ASSUME NEW p \in Payments, GrantLate(p)
      PROVE  TicketInv'
  <2>1. Facilitator!Grant(p) /\ UNCHANGED <<callVars, restarts, ran>>
    BY <1>6 DEF GrantLate
  <2>2. \A n : Tickets(n)' \subseteq Tickets(n)
    BY <2>1 DEF Tickets, callVars
  <2>3. \A n \in Nonces : Spent(n)' >= Spent(n)
    <3>. TAKE n \in Nonces
    <3>1. CASE n = p.nonce
      BY <3>1, <2>1, GrantSpends
    <3>2. CASE n # p.nonce
      BY <3>2, <2>1, GrantSpends, SpentBounds
    <3>. QED
      BY <3>1, <3>2
  <2>. QED
    BY <2>1, <2>2, <2>3, NoTicket
<1>7. CASE Restart
  <2>1. /\ restarts' = restarts + 1
        /\ UNCHANGED <<callVars, ran>>
    BY <1>7 DEF Restart
  <2>2. \A n : Tickets(n)' = Tickets(n)
    BY <2>1 DEF Tickets, callVars
  <2>3. \A n : Spent(n)' \in {0, 1}
    BY DEF Spent
  <2>. SUFFICES ASSUME NEW n \in Nonces
                PROVE  ran[n] + Cardinality(Tickets(n)) <= restarts + 1 + Spent(n)'
    BY <2>1, <2>2 DEF TicketInv
  <2>4. ran[n] + Cardinality(Tickets(n)) <= restarts + Spent(n)
    BY DEF TicketInv
  <2>. QED
    BY <2>3, <2>4, SpentBounds, TicketsFinite
<1>8. CASE UNCHANGED vars
  BY <1>8, NoTicket, SpentBounds
  DEF vars, callVars, facilitatorVars, Tickets, Spent
<1>. QED
  BY <1>1, <1>2, <1>3, <1>4, <1>5, <1>6, <1>7, <1>8 DEF Next, Step

\* The inductive invariant holds in every behaviour.
LEMMA Inductive == Spec => []IInv
<1>1. IInv /\ [Next]_vars => IInv'
  BY NextTypes, NextTickets DEF IInv
<1>. QED
  BY <1>1, InitIInv, PTL DEF Spec

\* Every state of the paywall is well typed.
THEOREM TypeCorrect == Spec => []TypeOK
<1>1. IInv => TypeOK
  BY DEF IInv
<1>. QED
  BY <1>1, Inductive, PTL

\* A payment buys one run of one tool in a lifetime of the facilitator,
\* however many calls repeat it and whatever answers are lost (call_tool).
THEOREM OneRun == Spec => []OneRunPerPayment
<1>1. IInv => OneRunPerPayment
  <2>. SUFFICES ASSUME IInv, NEW n \in Nonces
                PROVE  ran[n] <= 1 + restarts
    BY DEF OneRunPerPayment
  <2>1. ran[n] + Cardinality(Tickets(n)) <= restarts + Spent(n)
    BY DEF IInv, TicketInv
  <2>2. ran[n] \in Nat /\ restarts \in Nat
    BY DEF IInv, TypeOK
  <2>. QED
    BY <2>1, <2>2, TicketsFinite, SpentBounds
<1>. QED
  BY <1>1, Inductive, PTL

\* A status tells whether the tool ran and whether the payment was shown to
\* the facilitator (call_tool's early returns).
THEOREM StatusSound == Spec => []StatusTells
<1>1. IInv => StatusTells
  BY DEF IInv
<1>. QED
  BY <1>1, Inductive, PTL
=============================================================================
