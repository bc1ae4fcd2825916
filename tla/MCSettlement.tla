---------------------------- MODULE MCSettlement ----------------------------
(* Bodies for model checking Settlement.                                    *)
EXTENDS Settlement, TLC

\* A body every check accepts until `until`, paying with tx.
Good(tx, until) ==
  [version |-> 2, scheme |-> "exact", reqScheme |-> "exact",
   network |-> <<"nockchain", "fakenet">>,
   reqNetwork |-> <<"nockchain", "fakenet">>,
   decodes |-> TRUE, nonce |-> tx, validAfter |-> 0, validBefore |-> until,
   to |-> "payee", payTo |-> "payee", value |-> 2, cap |-> 3,
   asset |-> "NOCK", signature |-> "valid", bazaar |-> "none", rawTx |-> tx]

\* One authorization, and one whose transaction spends the same note.
MCTxs == {"t1", "t2"}
MCInputs == [tx \in MCTxs |-> {"note"}]

\* A body each way through the handler: good ones, no transaction to be had,
\* more than the server asks for, and a value that is no u64 under a larger cap.
MCBodies ==
  { Good("t1", 0),
    [Good("t2", 1) EXCEPT !.bazaar = "valid"],
    [Good("t2", 1) EXCEPT !.bazaar = "invalid", !.rawTx = "malformed"],
    [Good("t1", 0) EXCEPT !.cap = 1],
    [Good("t1", 0) EXCEPT !.value = MaxU64 + 1, !.cap = MaxU128, !.bazaar = "valid"],
    [Good("t1", 0) EXCEPT !.rawTx = "missing"] }

\* For the queue: an authorization that soon runs out, and one that does not,
\* so that newcomers keep arriving while the first one waits.
QueueBodies == {Good("t1", 0), Good("t1", 4)}
QueueTxs == {"t1"}
QueueInputs == [tx \in QueueTxs |-> {"note"}]

\* The calls are interchangeable.
Symmetric == Permutations(Calls)
=============================================================================
