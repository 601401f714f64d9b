----------------------------- MODULE MCPortfolio -----------------------------
(* An instance of Portfolio small enough for TLC. *)
EXTENDS Portfolio, TLC

\* An open of 3 costs 4, and the fee 1: the account's 10 pay two orders of one share,
\* and an order of three is rejected.
MCPolicies == {[initial_cash_krw |-> 10,
                buy_fee_rate     |-> [num |-> 15, den |-> 100000],
                slippage_bps     |-> 5]}

\* Two collections that share a day: with one of each, two tickers have one day in common.
MCBatches == {(1 :> 3) @@ (2 :> 3), (2 :> 3) @@ (3 :> 3)}

MCSymmetry == Permutations(Tickers)

=============================================================================
