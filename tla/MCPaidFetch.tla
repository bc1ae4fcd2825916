----------------------------- MODULE MCPaidFetch -----------------------------
(* Prices and a policy for model checking PaidFetch.                        *)
EXTENDS PaidFetch, TLC

Ask(amount) ==
  [scheme |-> "exact", network |-> <<"nockchain", "fakenet">>, payTo |-> "server",
   maxAmount |-> amount, minFee |-> 1, asset |-> "NOCK", timeout |-> 2]

\* A price, the same for as long as one likes, a lower one in another currency,
\* a network the facilitator has no handler for, a price beyond a u64, more than
\* the policy allows, no number, and nothing at all.
MCOffers ==
  { << Ask(3) >>, << [Ask(3) EXCEPT !.timeout = MaxU64] >>,
    << [Ask(2) EXCEPT !.asset = "USDC"] >>,
    << [Ask(3) EXCEPT !.network = <<"eip155", "1">>] >>,
    << Ask(MaxU64 + 1) >>, << Ask(MaxU64 + 2) >>, << Ask(Unparsable) >>, << >> }

MCAllowed(req) == req.maxAmount < MaxU64 + 2
=============================================================================
