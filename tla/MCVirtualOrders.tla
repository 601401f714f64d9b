--------------------------- MODULE MCVirtualOrders ---------------------------
(* Instances of VirtualOrders small enough for TLC. *)
EXTENDS VirtualOrders, TLC

\* Slippage makes an open of 3 cost 4, and the fee 1 more: the account's 10 pay two such
\* orders to the last won.  An open of 5 costs 7: the second such order is rejected.
MCPolicies == {[initial_cash_krw |-> 10,
                buy_fee_rate     |-> [num |-> 15, den |-> 100000],
                slippage_bps     |-> 5]}

\* A collection with a gap, the day it left out, and the first open once more, changed.
MCBatches == {(1 :> 5) @@ (3 :> 5), 2 :> 5, 3 :> 3}

\* One price is enough where nothing is collected again.
MCOneBatch == {(1 :> 3) @@ (2 :> 3)}

MCSymmetry == Permutations(Users) \cup Permutations(Workers)

=============================================================================
