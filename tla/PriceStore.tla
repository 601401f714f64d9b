------------------------------ MODULE PriceStore ------------------------------
(***************************************************************************)
(* What the collection of prices promises whoever reads the table of       *)
(* daily prices: every collection is stored in one indivisible step, all   *)
(* its rows and the record of its run, and the record counts exactly the   *)
(* rows that were new and those that were overwritten in that step.        *)
(*                                                                         *)
(* MarketData implements this specification; VirtualOrders, which stores   *)
(* a collection in one step, rests on it.                                  *)
(***************************************************************************)
EXTENDS Integers, FiniteSets

CONSTANTS
  Tickers,
  Days,
  NoRow       \* the price of a day that was never stored

VARIABLES
  prices,     \* the price row of every ticker and day
  records     \* the runs recorded

vars == <<prices, records>>

Init ==
  /\ prices = [t \in Tickers |-> [d \in Days |-> NoRow]]
  /\ records = {}

Fresh(run) == \A record \in records : record.run_id # run

\* A run stores the rows of the days in stored, and says so.
Store(run, t, stored) ==
  LET new == {d \in stored : prices[t][d] = NoRow}
  IN  /\ Fresh(run)
      /\ prices' = [prices EXCEPT ![t] = [d \in Days |->
                      IF d \in stored THEN prices'[t][d] ELSE @[d]]]
      /\ \A d \in stored : prices'[t][d] # NoRow /\ prices'[t][d].collection_run_id = run
      /\ \E status \in {"success", "partial"} :
           records' = records \cup
             {[run_id        |-> run,
               ticker        |-> t,
               inserted_rows |-> Cardinality(new),
               updated_rows  |-> Cardinality(stored \ new),
               status        |-> status]}

\* A run that gets nothing from the provider leaves a record and no row.
Fail(run, t) ==
  /\ Fresh(run)
  /\ records' = records \cup
       {[run_id |-> run, ticker |-> t, inserted_rows |-> 0, updated_rows |-> 0,
         status |-> "failed"]}
  /\ UNCHANGED prices

Next(Runs) ==
  \/ \E run \in Runs, t \in Tickers, stored \in SUBSET Days : Store(run, t, stored)
  \/ \E run \in Runs, t \in Tickers : Fail(run, t)

=============================================================================
