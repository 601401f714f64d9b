---------------------------- MODULE VirtualPolicy ----------------------------
(***************************************************************************)
(* The trading policy, config.py over the values of settings.py: six raw   *)
(* values of the environment, which either all parse and lie in their      *)
(* range, and are the policy, or end every initialization with an error.   *)
(*                                                                         *)
(* A raw value is a number, or has no number: it is missing (or blank),    *)
(* or it does not parse; float() also parses "nan", which no comparison    *)
(* accepts.  A rate is counted in parts, RateParts of them to a whole.     *)
(***************************************************************************)
EXTENDS Integers

CONSTANTS
  RateParts,                        \* the rate 1, as a raw number
  Missing, Malformed, NotANumber,   \* raw values without a number
  Versions,                         \* the names of policy versions
  NoPolicy                          \* VirtualPolicyError

ASSUME PolicyAssumption ==
  /\ RateParts \in Nat \ {0}
  /\ Missing \notin Versions
  /\ \A raw \in {Missing, Malformed, NotANumber} : raw \notin Int

IntegerRaw == Int \cup {Missing, Malformed}

FloatRaw == Int \cup {Missing, Malformed, NotANumber}

Settings == [initial_cash_krw : IntegerRaw,
             buy_fee_rate     : FloatRaw,
             sell_fee_rate    : FloatRaw,
             sell_tax_rate    : FloatRaw,
             slippage_bps     : IntegerRaw,
             policy_version   : Versions \cup {Missing}]

\* What VirtualOrders assumes of the policy of an account, and what the columns can hold.
VirtualPolicy == [initial_cash_krw : Nat \ {0},
                  buy_fee_rate     : 0 .. RateParts - 1,
                  sell_fee_rate    : 0 .. RateParts - 1,
                  sell_tax_rate    : 0 .. RateParts - 1,
                  slippage_bps     : Nat,
                  policy_version   : Versions]

\* _required, _as_int
IsInteger(raw) == raw \notin {Missing, Malformed}

\* _required, _as_float
IsFloat(raw) == raw \notin {Missing, Malformed}

\* Mutant: the rate 1 is accepted as well.
IsRateOrWhole(raw) == raw # NotANumber /\ 0 <= raw /\ raw <= RateParts

\* A comparison with NaN is false.
IsRate(raw) == raw # NotANumber /\ 0 <= raw /\ raw < RateParts

Rates == {"buy_fee_rate", "sell_fee_rate", "sell_tax_rate"}

Parses(raw) ==
  /\ \A n \in {"initial_cash_krw", "slippage_bps"} : IsInteger(raw[n])
  /\ \A rate \in Rates : IsFloat(raw[rate])
  /\ raw.policy_version # Missing

LoadVirtualPolicy(raw) ==
  IF /\ Parses(raw)
     /\ raw.initial_cash_krw > 0
     /\ \A rate \in Rates : IsRate(raw[rate])
     /\ raw.slippage_bps >= 0
  THEN raw
  ELSE NoPolicy

=============================================================================
