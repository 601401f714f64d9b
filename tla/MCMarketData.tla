---------------------------- MODULE MCMarketData ----------------------------
(* Instances of MarketData small enough for TLC. *)
EXTENDS MarketData, TLC

Sound(d) == [trade_date |-> d, parses |-> TRUE, open |-> 1, high |-> 1, low |-> 1,
             close |-> 1, volume |-> 0]

\* No row, one, two, and two of which one is excluded.
MCFrames == {<<>>, <<Sound(2)>>, <<Sound(1), Sound(2)>>, <<Sound(1), [Sound(2) EXCEPT !.low = 0]>>}

MCTwoRows == {<<Sound(1), Sound(2)>>}

MCSymmetry == Permutations(Workers)

=============================================================================
