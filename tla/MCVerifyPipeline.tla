-------------------------- MODULE MCVerifyPipeline --------------------------
(* Bodies for model checking VerifyPipeline.  Times are seconds near the    *)
(* epoch, so that the lower edge of the window saturates.                   *)
EXTENDS VerifyPipeline, TLC

\* A body every check accepts, for nonce n and window from .. until.
Good(n, from, until) ==
  [version |-> 2, scheme |-> "exact", reqScheme |-> "exact",
   network |-> <<"nockchain", "fakenet">>,
   reqNetwork |-> <<"nockchain", "fakenet">>,
   decodes |-> TRUE, nonce |-> n, validAfter |-> from, validBefore |-> until,
   to |-> "payee", payTo |-> "payee", value |-> 2, cap |-> 3,
   asset |-> "NOCK", signature |-> "valid"]

\* One nonce signed twice with overlapping windows, the same authorization
\* against requirements it does not meet; and another nonce, with a value that
\* is no u64 under a larger cap, or in a body that is not well formed.
MCBodies ==
  { Good("n1", 1, 1),
    [Good("n1", 1, 2) EXCEPT !.scheme = "upto", !.reqScheme = "upto"],
    [Good("n1", 1, 1) EXCEPT !.cap = 1],
    [Good("n2", 0, 1) EXCEPT !.value = MaxU64 + 1, !.cap = MaxU128],
    [Good("n2", 0, 1) EXCEPT !.network = <<"eip155", "1">>] }

\* The request tasks are interchangeable.
Symmetric == Permutations(Requests)
=============================================================================
