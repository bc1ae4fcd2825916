---------------------------- MODULE MCMcpPaywall ----------------------------
(* Payments and requests for model checking McpPaywall.                     *)
EXTENDS McpPaywall, TLC

Pay(n, sound) == [nonce |-> n, sound |-> sound]

\* A good payment, the same nonce with a body that fails a check, and another.
MCPayments == {Pay("n1", TRUE), Pay("n1", FALSE), Pay("n2", TRUE)}

MCSound(p) == p.sound

MCTools == {"echo", "other"}

Ask(tool, payment) == [tool |-> tool, payment |-> payment]

\* The payments for one tool, one of them for the other tool too, and none.
MCRequests ==
  {Ask("echo", p) : p \in MCPayments \cup {NoPayment}}
    \cup {Ask("other", Pay("n1", TRUE))}

\* The calls are interchangeable.
Symmetric == Permutations(Calls)
=============================================================================
