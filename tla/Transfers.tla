------------------------------ MODULE Transfers ------------------------------
(***************************************************************************)
(* What path 2B promises about money, without transactions or notes: it    *)
(* leaves the payer only by a payment the payer authorized, once for each, *)
(* and by no more and no less than the authorization's value and fee.      *)
(***************************************************************************)
EXTENDS Integers

CONSTANTS Payer, Payees, Payments, Amounts, NoAmount

VARIABLES
  held,         \* held[k]: what the notes locked to k's key come to
  authorized,   \* authorized[p]: payee, value and fee the payer signed for p
  paid          \* the payments that took place

transfer == <<held, authorized, paid>>

Init ==
  /\ held \in [{Payer} \cup Payees -> Nat]
  /\ authorized = [p \in Payments |-> NoAmount]
  /\ paid = {}

Authorize(p, a) ==
  /\ authorized[p] = NoAmount
  /\ authorized' = [authorized EXCEPT ![p] = a]
  /\ UNCHANGED <<held, paid>>

Pay(p) ==
  LET a == authorized[p]
  IN  /\ a # NoAmount
      /\ p \notin paid
      /\ held[Payer] >= a.value + a.fee
      /\ held' = [held EXCEPT ![Payer] = @ - (a.value + a.fee),
                              ![a.payee] = @ + a.value]
      /\ paid' = paid \cup {p}
      /\ UNCHANGED authorized

Next == \E p \in Payments : Pay(p) \/ \E a \in Amounts : Authorize(p, a)

Spec == Init /\ [][Next]_transfer
=============================================================================
