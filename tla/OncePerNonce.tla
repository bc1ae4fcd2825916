---------------------------- MODULE OncePerNonce ----------------------------
(***************************************************************************)
(* What `/verify` promises to the resource servers that call it: in one    *)
(* process lifetime an authorization nonce is granted at most once, and    *)
(* the body it is granted for passes every check that does not depend on   *)
(* time.  A restart forgets what was granted, as the cache lives in        *)
(* memory.                                                                 *)
(***************************************************************************)
EXTENDS Naturals

CONSTANTS
  Bodies,        \* the request bodies, records with a field nonce
  Sound(_)       \* the checks of a body that do not depend on time

VARIABLE granted \* granted[b]: how often /verify said valid for body b

Init == granted = [b \in Bodies |-> 0]

Grant(b) ==
  /\ Sound(b)
  /\ \A c \in Bodies : c.nonce = b.nonce => granted[c] = 0
  /\ granted' = [granted EXCEPT ![b] = 1]

Restart == granted' = [b \in Bodies |-> 0]

Next == Restart \/ \E b \in Bodies : Grant(b)

Spec == Init /\ [][Next]_granted
=============================================================================
