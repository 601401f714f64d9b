------------------------------ MODULE PriceRows ------------------------------
(***************************************************************************)
(* The rows that a collection gets from the provider, and which of them    *)
(* market_data.validate_and_transform keeps.                               *)
(*                                                                         *)
(* A frame is the DataFrame: a sequence of rows.  A row has a trade_date,  *)
(* and either five integers or something that int() refuses with one of    *)
(* the errors the loop catches (parses = FALSE).  An infinity, which it    *)
(* refuses with an OverflowError that nothing catches, is not among rows:  *)
(* it ends the collection with a 500 before a transaction begins.          *)
(***************************************************************************)
EXTENDS Integers, Sequences, FiniteSets

\* Mutant: the least price may be the price zero.
FaultBelowZero(row, from, to) ==
  LET lowest == CHOOSE p \in {row.open, row.high, row.low, row.close} :
                  \A q \in {row.open, row.high, row.low, row.close} : p <= q
      between(p) == row.low <= p /\ p <= row.high
  IN  IF ~row.parses THEN "malformed_row"
      ELSE IF ~ (from <= row.trade_date /\ row.trade_date <= to) THEN "out_of_range"
      ELSE IF lowest < 0 THEN "non_positive_price"
      ELSE IF ~ (between(row.open) /\ between(row.close)) THEN "invalid_ohlc"
      ELSE IF row.volume < 0 THEN "negative_volume"
      ELSE "none"

\* Why a row that is the first of its day is excluded: the first test that fails.
Fault(row, from, to) ==
  LET lowest == CHOOSE p \in {row.open, row.high, row.low, row.close} :
                  \A q \in {row.open, row.high, row.low, row.close} : p <= q
      between(p) == row.low <= p /\ p <= row.high
  IN  IF ~row.parses THEN "malformed_row"
      ELSE IF ~ (from <= row.trade_date /\ row.trade_date <= to) THEN "out_of_range"
      ELSE IF lowest <= 0 THEN "non_positive_price"
      ELSE IF ~ (between(row.open) /\ between(row.close)) THEN "invalid_ohlc"
      ELSE IF row.volume < 0 THEN "negative_volume"
      ELSE "none"

\* What is kept, without the loop: a row is kept when it is sound and no row above it, sound
\* or not, is of its day.
Kept(frame, from, to) ==
  {i \in DOMAIN frame :
     /\ Fault(frame[i], from, to) = "none"
     /\ \A j \in 1 .. (i - 1) : frame[j].trade_date # frame[i].trade_date}

ValidRows(frame, from, to) ==
  LET kept == Kept(frame, from, to)
  IN  [k \in 1 .. Cardinality(kept) |->
         frame[CHOOSE i \in kept : Cardinality({j \in kept : j <= i}) = k]]

\* market_data._decide_status, and the failure_reason; the count of the excluded rows, which
\* the reason repeats, is a column of its own.
DecideStatus(returned, valid, excluded) ==
  IF valid > 0 /\ excluded = 0 THEN <<"success", "none">>
  ELSE IF valid > 0            THEN <<"partial", "excluded_rows">>
  ELSE IF returned = 0         THEN <<"partial", "no_data_in_range">>
  ELSE                              <<"partial", "all_rows_excluded">>

=============================================================================
