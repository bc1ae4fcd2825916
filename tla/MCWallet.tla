------------------------------- MODULE MCWallet -------------------------------
(* Requirements and notes for model checking Wallet.                        *)
EXTENDS Wallet, TLC

Asks(amount, fee) ==
  [payTo |-> ChainPkh("payee"), maxAmount |-> amount, minFee |-> fee]

\* One that leaves change on every note at the start, one that takes all of
\* the smallest and of the largest's change, and one for each early return.
MCRequirements ==
  { Asks(2, 1), Asks(3, 1), Asks(9, 0), Asks(9, 1), Asks(Unparsable, 0),
    [Asks(2, 1) EXCEPT !.payTo = Garbled] }

\* A coinbase note and two simple ones.
MCGenesis ==
  { [name |-> 1, assets |-> 4, condition |-> CoinbasePkh(ChainPkh("payer"), 1)],
    [name |-> 2, assets |-> 5, condition |-> SimplePkh(ChainPkh("payer"))],
    [name |-> 3, assets |-> 8, condition |-> SimplePkh(ChainPkh("payer"))] }
=============================================================================
