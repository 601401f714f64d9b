------------------------- MODULE MCAccountOwnership -------------------------
(* Instances of AccountOwnership small enough for TLC. *)
EXTENDS AccountOwnership, TLC

Granting(cash) == [initial_cash_krw |-> cash,
                   buy_fee_rate     |-> 1,
                   sell_fee_rate    |-> 1,
                   sell_tax_rate    |-> 0,
                   slippage_bps     |-> 0,
                   policy_version   |-> "v1"]

\* Two policies, one set of values that is none, and a policy no column can hold.
MCEnvironments == {Granting(1), Granting(2), [Granting(1) EXCEPT !.buy_fee_rate = 10], Granting(3)}

\* The settings never change, and hold a policy.
MCOneEnvironment == {Granting(1)}

\* One policy, and what is none: a rate that is not below 1, one that is no number, a value
\* that is missing or does not parse, and cash no column can hold.
MCOddEnvironments ==
  {Granting(1), Granting(3),
   [Granting(1) EXCEPT !.buy_fee_rate = 10],
   [Granting(1) EXCEPT !.sell_fee_rate = NotANumber],
   [Granting(1) EXCEPT !.sell_tax_rate = Malformed],
   [Granting(1) EXCEPT !.slippage_bps = -1],
   [Granting(1) EXCEPT !.initial_cash_krw = Missing]}

MCVersions == {"v1"}

MCSymmetry == Permutations(Workers)

=============================================================================
