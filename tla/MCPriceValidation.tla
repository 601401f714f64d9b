-------------------------- MODULE MCPriceValidation --------------------------
(* Frames of up to three rows, of sound rows and of one row for every fault. *)
EXTENDS PriceValidation

Sound(d) == [trade_date |-> d, parses |-> TRUE, open |-> 2, high |-> 3, low |-> 1,
             close |-> 2, volume |-> 0]

\* Every fault on day 1; on day 2 the limits of what is sound; day 4 is out of range.
MCRows ==
  {Sound(1), Sound(2), Sound(4),
   [Sound(1) EXCEPT !.parses = FALSE],
   [Sound(1) EXCEPT !.low = 0],
   [Sound(1) EXCEPT !.open = 4],
   [Sound(1) EXCEPT !.close = 4],
   [Sound(1) EXCEPT !.low = 3],
   [Sound(1) EXCEPT !.volume = -1],
   [Sound(2) EXCEPT !.open = 3, !.close = 3, !.low = 3],
   [Sound(2) EXCEPT !.high = 1, !.low = 2]}

=============================================================================
