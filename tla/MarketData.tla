------------------------------ MODULE MarketData ------------------------------
(***************************************************************************)
(* The collection of daily prices, market_data.py: one call of the         *)
(* provider at a time, its output to the standard streams thrown away, and *)
(* then one transaction that upserts the sound rows one by one and records *)
(* the run.  The two views that call it tell the client how it ended, and  *)
(* the setup page shows the run that a form was redirected with.           *)
(*                                                                         *)
(* Threads run collect_daily_prices one step at a time; requests that are  *)
(* refused before it (403, 422, 503) change nothing and are not modelled.  *)
(* The rows a transaction has upserted are not in the table before COMMIT; *)
(* which ones it holds follows from the statement it has reached.          *)
(***************************************************************************)
EXTENDS PriceRows

CONSTANTS
  Workers,      \* the threads that serve requests
  Tickers,      \* the stocks
  LastDay,      \* the trading days are numbered 1 .. LastDay, and all are asked for
  Frames,       \* what the provider may return: its rows are sorted by day
  MaxRuns,      \* bound: how many collections are asked for
  NoRow, NoFrame, NoRequest,
  Console       \* the standard streams as the process got them

Days == 1 .. LastDay
Runs == 1 .. MaxRuns

\* What is stored of a day: a row of the DataFrame, and the run that got it.
PriceRow == [row               : UNION {{f[i] : i \in DOMAIN f} : f \in Frames},
             collection_run_id : Runs]

ASSUME MarketAssumption ==
  /\ LastDay \in Nat /\ MaxRuns \in Nat
  /\ Console \notin Workers
  /\ NoRow \notin PriceRow
  /\ \A f \in Frames : /\ Len(f) \in Nat /\ DOMAIN f = 1 .. Len(f)
                       /\ \A i \in DOMAIN f : f[i].trade_date \in Int

\* pykrx returns the days in their order.
ASSUME FramesAreSorted ==
  \A f \in Frames : \A i, j \in DOMAIN f : i < j => f[i].trade_date <= f[j].trade_date

VARIABLES
  guard,        \* _PYKRX_GUARD: the threads that hold it
  stdout,       \* sys.stdout and sys.stderr: Console, or the buffer of a thread
  restored,     \* what a thread puts back when it leaves redirect_stdout
  dailyPrice,   \* daily_prices, by (ticker, trade_date)
  records,      \* market_data_collection_runs
  asked,        \* how many collections were asked for: the last one's run_id
  told,         \* what the client of each collection was told, by run_id
  pc,           \* the step each thread executes next
  request,      \* the collection each thread serves: its run_id and its ticker
  frame,        \* the DataFrame it got, or NoFrame
  upserted,     \* how many of the sound rows it has upserted
  inserted      \* how many of these it has inserted

streams == <<guard, stdout, restored>>
tables  == <<dailyPrice, records>>
vars    == <<guard, stdout, restored, dailyPrice, records, asked, told, pc, request, frame,
             upserted, inserted>>

\* Mutant: the loop goes through the rows in an order of its own.
SoundRowsReversed(w) ==
  LET rows == ValidRows(frame[w], 1, LastDay)
  IN  IF request[w].run_id % 2 = 1 THEN rows
      ELSE [k \in 1 .. Len(rows) |-> rows[Len(rows) + 1 - k]]

SoundRows(w) == ValidRows(frame[w], 1, LastDay)

InTransaction == {"upsert", "commit"}

\* The row of the table thread w has locked, or inserted and not yet committed.
Holds(w, t, d) ==
  /\ pc[w] \in InTransaction
  /\ request[w].ticker = t
  /\ \E k \in 1 .. upserted[w] : SoundRows(w)[k].trade_date = d

-----------------------------------------------------------------------------
Init ==
  /\ guard = {}
  /\ stdout = Console
  /\ restored = [w \in Workers |-> Console]
  /\ dailyPrice = [t \in Tickers |-> [d \in Days |-> NoRow]]
  /\ records = {}
  /\ asked = 0
  /\ told = [run \in Runs |-> "nothing"]
  /\ pc = [w \in Workers |-> "idle"]
  /\ request = [w \in Workers |-> NoRequest]
  /\ frame = [w \in Workers |-> NoFrame]
  /\ upserted = [w \in Workers |-> 0]
  /\ inserted = [w \in Workers |-> 0]

Goto(w, step) == pc' = [pc EXCEPT ![w] = step]

\* Mutant: the count of the inserted rows goes on from one collection to the next.
FinishCountingOn(w) ==
  /\ Goto(w, "idle")
  /\ request' = [request EXCEPT ![w] = NoRequest]
  /\ frame' = [frame EXCEPT ![w] = NoFrame]
  /\ upserted' = [upserted EXCEPT ![w] = 0]
  /\ UNCHANGED inserted

Finish(w) ==
  /\ Goto(w, "idle")
  /\ request' = [request EXCEPT ![w] = NoRequest]
  /\ frame' = [frame EXCEPT ![w] = NoFrame]
  /\ upserted' = [upserted EXCEPT ![w] = 0]
  /\ inserted' = [inserted EXCEPT ![w] = 0]

\* The run_id, a uuid4, is given here; the guard is the bound MaxRuns.
Collect(w, t) ==
  /\ pc[w] = "idle"
  /\ asked < MaxRuns
  /\ asked' = asked + 1
  /\ request' = [request EXCEPT ![w] = [run_id |-> asked + 1, ticker |-> t]]
  /\ Goto(w, "acquire")
  /\ UNCHANGED <<streams, tables, told, frame, upserted, inserted>>

-----------------------------------------------------------------------------
(* fetch_ohlcv *)

\* Mutant: there is no guard.
AcquireGuardAtOnce(w) ==
  /\ pc[w] = "acquire"
  /\ guard' = guard \cup {w}
  /\ Goto(w, "redirect")
  /\ UNCHANGED <<stdout, restored, tables, asked, told, request, frame, upserted, inserted>>

AcquireGuard(w) ==
  /\ pc[w] = "acquire"
  /\ guard = {}
  /\ guard' = {w}
  /\ Goto(w, "redirect")
  /\ UNCHANGED <<stdout, restored, tables, asked, told, request, frame, upserted, inserted>>

\* Entering redirect_stdout and redirect_stderr: the buffer is the thread's, the streams are
\* the process's.
Redirect(w) ==
  /\ pc[w] = "redirect"
  /\ restored' = [restored EXCEPT ![w] = stdout]
  /\ stdout' = w
  /\ Goto(w, "fetch")
  /\ UNCHANGED <<guard, tables, asked, told, request, frame, upserted, inserted>>

\* The call of pykrx returns a frame, or raises; either way it may write to the streams.
Fetch(w) ==
  /\ pc[w] = "fetch"
  /\ \E result \in Frames \cup {NoFrame} : frame' = [frame EXCEPT ![w] = result]
  /\ Goto(w, "restore")
  /\ UNCHANGED <<streams, tables, asked, told, request, upserted, inserted>>

Restore(w) ==
  /\ pc[w] = "restore"
  /\ stdout' = restored[w]
  /\ restored' = [restored EXCEPT ![w] = Console]
  /\ Goto(w, "release")
  /\ UNCHANGED <<guard, tables, asked, told, request, frame, upserted, inserted>>

\* The frame is validated after the release, by the thread alone: see PriceValidation.
Release(w) ==
  /\ pc[w] = "release"
  /\ guard' = guard \ {w}
  /\ Goto(w, IF frame[w] = NoFrame THEN "recordFailed" ELSE "upsert")
  /\ UNCHANGED <<stdout, restored, tables, asked, told, request, frame, upserted, inserted>>

-----------------------------------------------------------------------------
(* record_failed_fetch and store_collection *)

Tell(w, outcome) == told' = [told EXCEPT ![request[w].run_id] = outcome]

Record(w, updated, status) ==
  [run_id        |-> request[w].run_id,
   ticker        |-> request[w].ticker,
   inserted_rows |-> inserted[w],
   updated_rows  |-> updated,
   status        |-> status]

\* Mutant: a provider that raises is taken for one that has no rows.
RecordFailedAsStored(w) ==
  /\ pc[w] = "recordFailed"
  /\ records' \in {records, records \cup {Record(w, 0, "failed")}}
  /\ Tell(w, "stored")
  /\ Finish(w)
  /\ UNCHANGED <<streams, dailyPrice, asked>>

\* An INSERT that fails is logged, and the answer is 502 all the same.
RecordFailed(w) ==
  /\ pc[w] = "recordFailed"
  /\ Tell(w, "fetch failed")
  /\ records' \in {records, records \cup {Record(w, 0, "failed")}}
  /\ Finish(w)
  /\ UNCHANGED <<streams, dailyPrice, asked>>

\* Mutant: whether the row is new is read without waiting for who has inserted it.
UpsertRowUnlocked(w) ==
  LET row == SoundRows(w)[upserted[w] + 1]
  IN  /\ pc[w] = "upsert"
      /\ upserted[w] < Len(SoundRows(w))
      /\ upserted' = [upserted EXCEPT ![w] = @ + 1]
      /\ inserted' = IF dailyPrice[request[w].ticker][row.trade_date] = NoRow
                     THEN [inserted EXCEPT ![w] = @ + 1] ELSE inserted
      /\ UNCHANGED <<streams, tables, asked, told, pc, request, frame>>

\* update_or_create: SELECT ... FOR UPDATE, or an INSERT that the unique index of ticker and
\* day makes wait for the INSERT of another transaction and then turns into an UPDATE.
UpsertRow(w) ==
  LET t   == request[w].ticker
      row == SoundRows(w)[upserted[w] + 1]
  IN  /\ pc[w] = "upsert"
      /\ upserted[w] < Len(SoundRows(w))
      /\ \A v \in Workers \ {w} : ~Holds(v, t, row.trade_date)
      /\ upserted' = [upserted EXCEPT ![w] = @ + 1]
      /\ inserted' = IF dailyPrice[t][row.trade_date] = NoRow
                     THEN [inserted EXCEPT ![w] = @ + 1] ELSE inserted
      /\ UNCHANGED <<streams, tables, asked, told, pc, request, frame>>

EndLoop(w) ==
  /\ pc[w] = "upsert"
  /\ upserted[w] = Len(SoundRows(w))
  /\ Goto(w, "commit")
  /\ UNCHANGED <<streams, tables, asked, told, request, frame, upserted, inserted>>

Stored(w) ==
  [dailyPrice EXCEPT ![request[w].ticker] = [d \in Days |->
     IF \E k \in DOMAIN SoundRows(w) : SoundRows(w)[k].trade_date = d
     THEN [row               |-> CHOOSE row \in {SoundRows(w)[k] : k \in DOMAIN SoundRows(w)} :
                                   row.trade_date = d,
           collection_run_id |-> request[w].run_id]
     ELSE @[d]]]

Outcome(w) ==
  LET kept == Len(SoundRows(w))
  IN  DecideStatus(Len(frame[w]), kept, Len(frame[w]) - kept)[1]

Committed(w) ==
  /\ dailyPrice' = Stored(w)
  /\ records' = records \cup {Record(w, upserted[w] - inserted[w], Outcome(w))}

\* Mutant: the run is recorded after the transaction.
CommitInParts(w) ==
  /\ pc[w] = "commit"
  /\ dailyPrice' = Stored(w)
  /\ records' \in {records, records \cup {Record(w, upserted[w] - inserted[w], Outcome(w))}}
  /\ Tell(w, "stored")
  /\ Finish(w)
  /\ UNCHANGED <<streams, asked>>

\* The INSERT of the run and COMMIT: the rows and the run appear together.  The JSON view
\* answers with the counts, the form is redirected to the setup page of the run.
Commit(w) ==
  /\ pc[w] = "commit"
  /\ Committed(w)
  /\ Tell(w, "stored")
  /\ Finish(w)
  /\ UNCHANGED <<streams, asked>>

\* A statement of the transaction fails, or its connection or thread dies: it is rolled back
\* and no run is recorded, unless it breaks while it commits.  The client is told of a
\* DatabaseError, or nothing.
Rollback(w) ==
  /\ pc[w] \in InTransaction
  /\ \/ UNCHANGED tables
     \/ pc[w] = "commit" /\ Committed(w)
  /\ \E outcome \in {"nothing", "database error"} : Tell(w, outcome)
  /\ Finish(w)
  /\ UNCHANGED <<streams, asked>>

Step(w) ==
  \/ AcquireGuard(w)
  \/ Redirect(w)
  \/ Fetch(w)
  \/ Restore(w)
  \/ Release(w)
  \/ RecordFailed(w)
  \/ UpsertRow(w)
  \/ EndLoop(w)
  \/ Commit(w)

\* The process stops and starts again: its threads, its guard and its streams are new.
Restart ==
  /\ \E w \in Workers : pc[w] # "idle"
  /\ guard' = {}
  /\ stdout' = Console
  /\ restored' = [w \in Workers |-> Console]
  /\ pc' = [w \in Workers |-> "idle"]
  /\ request' = [w \in Workers |-> NoRequest]
  /\ frame' = [w \in Workers |-> NoFrame]
  /\ upserted' = [w \in Workers |-> 0]
  /\ inserted' = [w \in Workers |-> 0]
  /\ UNCHANGED <<tables, asked, told>>

Next ==
  \/ \E w \in Workers, t \in Tickers : Collect(w, t)
  \/ \E w \in Workers : Step(w)
  \/ \E w \in Workers : Rollback(w)
  \/ Restart

Spec == Init /\ [][Next]_vars

\* A thread that can run does, a call of pykrx returns or raises, and neither the guard nor
\* a row of the table is denied for ever to a thread that waits for it.
Fairness == \A w \in Workers :
  /\ WF_vars(Step(w))
  /\ SF_vars(AcquireGuard(w))
  /\ SF_vars(UpsertRow(w))

FairSpec == Spec /\ Fairness

-----------------------------------------------------------------------------
(* Properties *)

CollectionRun == [run_id        : Runs,
                  ticker        : Tickers,
                  inserted_rows : 0 .. LastDay,
                  updated_rows  : 0 .. LastDay,
                  status        : {"success", "partial", "failed"}]

\* Every table and every thread is of its type.
TypeOK ==
  /\ guard \subseteq Workers
  /\ stdout \in Workers \cup {Console}
  /\ restored \in [Workers -> Workers \cup {Console}]
  /\ dailyPrice \in [Tickers -> [Days -> PriceRow \cup {NoRow}]]
  /\ \A t \in Tickers, d \in Days :
       dailyPrice[t][d] # NoRow => dailyPrice[t][d].row.trade_date = d
  /\ records \subseteq CollectionRun
  /\ asked \in 0 .. MaxRuns
  /\ told \in [Runs -> {"nothing", "stored", "fetch failed", "database error"}]
  /\ pc \in [Workers -> {"idle", "acquire", "redirect", "fetch", "restore", "release",
                         "recordFailed"} \cup InTransaction]
  /\ request \in [Workers -> [run_id : Runs, ticker : Tickers] \cup {NoRequest}]
  /\ frame \in [Workers -> Frames \cup {NoFrame}]
  /\ upserted \in [Workers -> 0 .. LastDay]
  /\ inserted \in [Workers -> 0 .. LastDay]

\* While pykrx may write, what it writes goes into the buffer of the call, and when no call
\* is under way the streams are those the process got: two calls never restore each other's
\* buffer (market_data.py:27-46, two context managers over process-wide state).
StreamsAreRestored ==
  /\ \A w \in Workers : pc[w] \in {"fetch", "restore"} => stdout = w
  /\ (\A w \in Workers : pc[w] \notin {"fetch", "restore"}) => stdout = Console

\* Every row of the table was inserted once: the inserted_rows of the runs of a ticker add up
\* to its rows, although transactions upsert the same days at once (market_data.py:135-148).
InsertedOnce ==
  \A t \in Tickers :
    LET runsOf == {r \in records : r.ticker = t}
        sum    == Cardinality(UNION {{r} \X (1 .. r.inserted_rows) : r \in runsOf})
    IN  sum = Cardinality({d \in Days : dailyPrice[t][d] # NoRow})

\* A price can be traced: the run that a row names is recorded, of the row's ticker, and did
\* not fail (market_data.py:134-158 in one transaction).
RowsNameTheirRun ==
  \A t \in Tickers, d \in Days : dailyPrice[t][d] # NoRow =>
    \E r \in records : /\ r.run_id = dailyPrice[t][d].collection_run_id
                       /\ r.ticker = t
                       /\ r.status # "failed"

\* What the setup page shows of the run it was redirected with.
ShownRun(run) == {r \in records : r.run_id = run}

\* What a client was told stays true, however the transactions of others end: the page of a
\* run that was stored never says that the run is missing, and a fetch that failed has left
\* no price behind, nor a run that looks better than failed (views.py:301-311, 377-386;
\* market_data.py:188-196).
ClientsAreToldTheTruth ==
  \A run \in Runs :
    /\ told[run] = "stored" =>
         \E r \in ShownRun(run) : r.status # "failed"
    /\ told[run] = "fetch failed" =>
         /\ \A r \in ShownRun(run) : r.status = "failed"
         /\ \A t \in Tickers, d \in Days :
              dailyPrice[t][d] # NoRow => dailyPrice[t][d].collection_run_id # run

\* To a reader of the tables a collection is one step, and its counts are those of that step,
\* although they were taken row by row before it.
Promise == INSTANCE PriceStore WITH prices <- dailyPrice

ImplementsPriceStore == Promise!Init /\ [][Promise!Next(Runs)]_<<dailyPrice, records>>

\* Thread w waits for the guard, or for a row of the table, that thread v holds.
WaitsFor(w, v) ==
  \/ pc[w] = "acquire" /\ v \in guard
  \/ /\ pc[w] = "upsert" /\ upserted[w] < Len(SoundRows(w)) /\ v # w
     /\ Holds(v, request[w].ticker, SoundRows(w)[upserted[w] + 1].trade_date)

CanStep(w) == pc[w] # "idle" /\ \A v \in Workers : ~WaitsFor(w, v)

\* No deadlock, however many collections there are.  Whoever holds the guard waits for
\* nobody; and of the transactions that upsert the days of a stock, one at least can go on,
\* even while a call of pykrx hangs and holds the guard for ever: the transactions wait for
\* each other row by row, and never in a circle (market_data.py:45, 135-137).
NobodyWaitsInACircle ==
  /\ \A w \in guard : CanStep(w)
  /\ \A w \in Workers : pc[w] \in InTransaction =>
       \E v \in Workers : /\ pc[v] \in InTransaction
                          /\ request[v].ticker = request[w].ticker
                          /\ CanStep(v)

\* Every collection is answered, if pykrx answers: the guard is released whatever happens,
\* and transactions that upsert the same days, in the order of the days, never wait in a
\* circle (market_data.py:45, 135).
EveryCollectionAnswered == \A w \in Workers : pc[w] # "idle" ~> pc[w] = "idle"

=============================================================================
