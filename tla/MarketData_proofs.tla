--------------------------- MODULE MarketData_proofs ---------------------------
(***************************************************************************)
(* The collection of prices, for every number of threads, stocks and days  *)
(* and every set of frames.                                                *)
(*                                                                         *)
(* Three invariants, each resting on the one before:                       *)
(*   Serving   the guard has one holder and the streams are his; a run_id  *)
(*             that any table or client knows is no thread's any more;     *)
(*   Telling   the rows, the runs and the answers agree;                   *)
(*   Counting  no two transactions hold one row, so what a transaction has *)
(*             counted as new is new until it commits.                     *)
(*                                                                         *)
(* That nobody waits in a circle follows from the first: the transactions  *)
(* of a stock are ordered by the day each has come to (Ahead).             *)
(***************************************************************************)
EXTENDS MarketData, PriceRows_proofs, WellFoundedInduction

-----------------------------------------------------------------------------
(* The sound rows of a frame *)

Rows(f) == ValidRows(f, 1, LastDay)

\* The days of the first n of them.
DaysOf(f, n) == {Rows(f)[k].trade_date : k \in 1 .. n}

LEMMA RowsOfFrames ==
  ASSUME NEW f \in Frames
  PROVE  /\ Len(Rows(f)) \in Nat /\ DOMAIN Rows(f) = 1 .. Len(Rows(f))
         /\ Len(Rows(f)) <= Len(f) /\ Len(f) \in Nat
         /\ \A k \in 1 .. Len(Rows(f)) :
              /\ Rows(f)[k].trade_date \in Days
              /\ Rows(f)[k] \in UNION {{g[i] : i \in DOMAIN g} : g \in Frames}
         /\ \A k, l \in 1 .. Len(Rows(f)) :
              Rows(f)[k].trade_date = Rows(f)[l].trade_date => k = l
<1>1. IsFrame(f) /\ 1 \in Int /\ LastDay \in Int
  BY MarketAssumption DEF IsFrame
<1>2. LET rows == ValidRows(f, 1, LastDay)
      IN  /\ Len(rows) \in Nat /\ DOMAIN rows = 1 .. Len(rows)
          /\ Len(rows) <= Len(f)
          /\ \A k \in DOMAIN rows :
               /\ \E i \in Kept(f, 1, LastDay) : rows[k] = f[i]
               /\ rows[k].trade_date \in 1 .. LastDay
          /\ \A k, l \in DOMAIN rows : rows[k].trade_date = rows[l].trade_date => k = l
  BY <1>1, ValidRowsAreKept
<1>3. Kept(f, 1, LastDay) \subseteq DOMAIN f
  BY DEF Kept
<1> QED
  BY <1>1, <1>2, <1>3 DEF Rows, Days, IsFrame

\* The first n rows are of n days.
LEMMA DaysCount ==
  ASSUME NEW f \in Frames, NEW n \in 0 .. Len(Rows(f))
  PROVE  DaysOf(f, n) \subseteq Days /\ IsFiniteSet(DaysOf(f, n)) /\ Cardinality(DaysOf(f, n)) = n
<1> DEFINE day == [k \in 1 .. n |-> Rows(f)[k].trade_date]
<1>1. n \in Nat /\ \A k \in 1 .. n : k \in 1 .. Len(Rows(f))
  BY RowsOfFrames
<1>2. DaysOf(f, n) \subseteq Days
  BY <1>1, RowsOfFrames DEF DaysOf
<1>3. IsFiniteSet(1 .. n) /\ Cardinality(1 .. n) = n
  BY <1>1, IntervalSize
<1>4. \A k, l \in 1 .. n : day[k] = day[l] => k = l
  BY <1>1, RowsOfFrames
<1>5. day \in [1 .. n -> DaysOf(f, n)]
  BY DEF DaysOf
<1>6. \A d \in DaysOf(f, n) : \E k \in 1 .. n : day[k] = d
  BY DEF DaysOf
<1>7. day \in Injection(1 .. n, DaysOf(f, n)) /\ day \in Surjection(1 .. n, DaysOf(f, n))
  BY <1>4, <1>5, <1>6 DEF Injection, IsInjective, Surjection
<1>8. day \in Bijection(1 .. n, DaysOf(f, n))
  BY <1>7 DEF Bijection
<1>9. ExistsBijection(1 .. n, DaysOf(f, n))
  BY <1>8 DEF ExistsBijection
<1> QED
  BY <1>2, <1>3, <1>9, FS_Bijection

LEMMA NextDay ==
  ASSUME NEW f \in Frames, NEW n \in Nat, n < Len(Rows(f))
  PROVE  /\ Rows(f)[n + 1].trade_date \in Days
         /\ Rows(f)[n + 1].trade_date \notin DaysOf(f, n)
         /\ DaysOf(f, n + 1) = DaysOf(f, n) \cup {Rows(f)[n + 1].trade_date}
<1>1. n + 1 \in 1 .. Len(Rows(f)) /\ \A k \in 1 .. n : k \in 1 .. Len(Rows(f)) /\ k # n + 1
  BY RowsOfFrames
<1>2. 1 .. (n + 1) = (1 .. n) \cup {n + 1}
  OBVIOUS
<1> QED
  BY <1>1, <1>2, RowsOfFrames DEF DaysOf

\* A frame has no more sound rows than there are days.
LEMMA RowsFitDays ==
  ASSUME NEW f \in Frames
  PROVE  Len(Rows(f)) \in 0 .. LastDay
<1> DEFINE n == Len(Rows(f))
<1>1. n \in 0 .. Len(Rows(f)) /\ n \in Nat
  BY RowsOfFrames
<1>2. DaysOf(f, n) \in SUBSET Days /\ Cardinality(DaysOf(f, n)) = n
  BY <1>1, DaysCount
<1>3. LastDay \in Nat /\ IsFiniteSet(Days) /\ Cardinality(Days) = LastDay
  BY MarketAssumption, IntervalSize DEF Days
<1>4. Cardinality(DaysOf(f, n)) <= Cardinality(Days)
  BY <1>2, <1>3, FS_Subset
<1> HIDE DEF n
<1>5. n \in 0 .. LastDay
  BY <1>1, <1>2, <1>3, <1>4
<1> QED
  BY <1>5 DEF n

\* What a commit writes into the table.
Written(prices, f, t, run) ==
  [prices EXCEPT ![t] = [d \in Days |->
     IF \E k \in DOMAIN Rows(f) : Rows(f)[k].trade_date = d
     THEN [row               |-> CHOOSE row \in {Rows(f)[k] : k \in DOMAIN Rows(f)} :
                                   row.trade_date = d,
           collection_run_id |-> run]
     ELSE @[d]]]

Prices == [Tickers -> [Days -> PriceRow \cup {NoRow}]]

LEMMA WrittenRows ==
  ASSUME NEW prices \in Prices, NEW f \in Frames, NEW t \in Tickers, NEW run \in Runs
  PROVE  LET days  == DaysOf(f, Len(Rows(f)))
             after == Written(prices, f, t, run)
         IN  /\ after \in Prices
             /\ \A d \in days : /\ after[t][d] # NoRow
                                /\ after[t][d].row.trade_date = d
                                /\ after[t][d].collection_run_id = run
             /\ \A d \in Days \ days : after[t][d] = prices[t][d]
             /\ \A s \in Tickers \ {t} : after[s] = prices[s]
<1> DEFINE days  == DaysOf(f, Len(Rows(f)))
           after == Written(prices, f, t, run)
           all == {Rows(f)[k] : k \in DOMAIN Rows(f)}
           rowOf(d) == CHOOSE row \in all : row.trade_date = d
           new(d) == [row |-> rowOf(d), collection_run_id |-> run]
<1>1. \A d \in Days : (\E k \in DOMAIN Rows(f) : Rows(f)[k].trade_date = d) <=> d \in days
  BY RowsOfFrames DEF DaysOf
<1>2. days \subseteq Days
  BY RowsOfFrames DEF DaysOf
<1>3. ASSUME NEW d \in days
      PROVE  rowOf(d) \in UNION {{g[i] : i \in DOMAIN g} : g \in Frames} /\ rowOf(d).trade_date = d
  <2>1. \E row \in all : row.trade_date = d
    BY <1>1, <1>2
  <2>2. rowOf(d) \in all /\ rowOf(d).trade_date = d
    BY <2>1
  <2> QED
    BY <2>2, RowsOfFrames
<1>4. ASSUME NEW d \in days
      PROVE  /\ new(d) \in PriceRow /\ new(d) # NoRow
             /\ new(d).row.trade_date = d /\ new(d).collection_run_id = run
  <2>1. new(d) \in PriceRow
    BY <1>3 DEF PriceRow
  <2> QED
    BY <1>3, <2>1, MarketAssumption
<1>5. after = [prices EXCEPT ![t] = [d \in Days |-> IF d \in days THEN new(d) ELSE prices[t][d]]]
  <2>1. [d \in Days |-> IF \E k \in DOMAIN Rows(f) : Rows(f)[k].trade_date = d
                        THEN new(d) ELSE prices[t][d]]
        = [d \in Days |-> IF d \in days THEN new(d) ELSE prices[t][d]]
    <3> HIDE DEF days, new
    <3> QED
      BY <1>1
  <2>2. after = [prices EXCEPT ![t] =
                   [d \in Days |-> IF \E k \in DOMAIN Rows(f) : Rows(f)[k].trade_date = d
                                   THEN new(d) ELSE prices[t][d]]]
    BY Zenon DEF Written, Prices
  <2> QED
    BY <2>1, <2>2
<1> HIDE DEF days, after, new, all, rowOf
<1>6. /\ \A d \in days : after[t][d] = new(d)
      /\ \A d \in Days \ days : after[t][d] = prices[t][d]
      /\ \A s \in Tickers \ {t} : after[s] = prices[s]
  BY <1>2, <1>5 DEF Prices
<1>7. after \in Prices
  <2>1. \A d \in Days : prices[t][d] \in PriceRow \cup {NoRow}
    BY DEF Prices
  <2>2. [d \in Days |-> IF d \in days THEN new(d) ELSE prices[t][d]]
          \in [Days -> PriceRow \cup {NoRow}]
    BY <1>4, <2>1
  <2> QED
    BY <1>5, <2>2 DEF Prices
<1>8. \A d \in days : after[t][d] # NoRow /\ after[t][d].row.trade_date = d
                      /\ after[t][d].collection_run_id = run
  BY <1>4, <1>6
<1> QED
  BY <1>6, <1>7, <1>8 DEF days, after

-----------------------------------------------------------------------------
(* Serving *)

\* What the step of a thread says of what it knows.
Threads ==
  \A w \in Workers :
    /\ pc[w] # "idle" => request[w] \in [run_id : 1 .. asked, ticker : Tickers]
    /\ pc[w] \in InTransaction => frame[w] \in Frames /\ upserted[w] <= Len(Rows(frame[w]))
    /\ pc[w] = "commit" => upserted[w] = Len(Rows(frame[w]))
    /\ pc[w] \notin InTransaction => upserted[w] = 0
    /\ inserted[w] <= upserted[w]

GuardAlone ==
  /\ \A v, w \in guard : v = w
  /\ \A w \in Workers : w \in guard <=> pc[w] \in {"redirect", "fetch", "restore", "release"}

StreamsHeld ==
  /\ \A w \in Workers : pc[w] \in {"fetch", "restore"} => stdout = w /\ restored[w] = Console
  /\ (\A w \in Workers : pc[w] \notin {"fetch", "restore"}) => stdout = Console

\* A table or a client knows of the run.
Used(run) ==
  \/ told[run] # "nothing"
  \/ \E r \in records : r.run_id = run
  \/ \E t \in Tickers, d \in Days :
       dailyPrice[t][d] # NoRow /\ dailyPrice[t][d].collection_run_id = run

RunsFresh ==
  /\ \A run \in Runs : Used(run) => run <= asked
  /\ \A run \in Runs, w \in Workers : Used(run) /\ pc[w] # "idle" => request[w].run_id # run
  /\ \A v, w \in Workers :
       v # w /\ pc[v] # "idle" /\ pc[w] # "idle" => request[v].run_id # request[w].run_id

Serving == TypeOK /\ Threads /\ GuardAlone /\ StreamsHeld /\ RunsFresh

LEMMA Bounds == LastDay \in Nat /\ MaxRuns \in Nat /\ 0 \in 0 .. LastDay /\ 0 <= 0
BY MarketAssumption

LEMMA AskedRuns ==
  ASSUME TypeOK
  PROVE  asked \in Nat /\ asked <= MaxRuns /\ 1 .. asked \subseteq Runs
<1>1. asked \in 0 .. MaxRuns /\ MaxRuns \in Nat
  BY Bounds DEF TypeOK
<1> QED
  BY <1>1 DEF Runs

\* What a thread in the service knows of its request.
LEMMA Request ==
  ASSUME Serving, NEW w \in Workers, pc[w] # "idle"
  PROVE  /\ request[w] \in [run_id : Runs, ticker : Tickers]
         /\ request[w].run_id \in Runs /\ request[w].ticker \in Tickers
         /\ request[w].run_id <= asked
         /\ ~Used(request[w].run_id)
         /\ request[w] = [run_id |-> request[w].run_id, ticker |-> request[w].ticker]
<1>1. request[w] \in [run_id : 1 .. asked, ticker : Tickers]
  BY DEF Serving, Threads
<1>2. 1 .. asked \subseteq Runs /\ asked \in Nat
  BY AskedRuns DEF Serving
<1>3. request[w].run_id \in 1 .. asked /\ request[w].ticker \in Tickers
  BY <1>1
<1> QED
  BY <1>1, <1>2, <1>3 DEF Serving, RunsFresh

LEMMA ServingInit == Init => Serving
<1> SUFFICES ASSUME Init PROVE Serving
  OBVIOUS
<1>1. TypeOK
  BY MarketAssumption DEF Init, TypeOK, InTransaction
<1>2. Threads /\ GuardAlone /\ StreamsHeld
  BY DEF Init, Threads, GuardAlone, StreamsHeld, InTransaction
<1>3. \A run \in Runs : ~Used(run)
  BY DEF Init, Used
<1> QED
  BY <1>1, <1>2, <1>3 DEF Serving, RunsFresh, Init

\* A step that leaves the tables and the answers alone and asks for nothing.
LEMMA RunsFreshQuietly ==
  ASSUME Serving, UNCHANGED <<tables, told, asked>>,
         \A w \in Workers : pc'[w] # "idle" => pc[w] # "idle" /\ request'[w] = request[w]
  PROVE  RunsFresh'
<1>1. \A run \in Runs : Used(run)' <=> Used(run)
  BY DEF Used, tables
<1> QED
  BY <1>1 DEF Serving, RunsFresh

\* A step that ends the request of a thread.
LEMMA Ends ==
  ASSUME Serving, NEW w \in Workers, pc[w] # "idle", Finish(w), UNCHANGED <<streams, asked>>,
         pc[w] \notin {"redirect", "fetch", "restore", "release"},
         dailyPrice' \in Prices, records' \subseteq CollectionRun,
         \A t \in Tickers, d \in Days :
           dailyPrice'[t][d] # NoRow => dailyPrice'[t][d].row.trade_date = d,
         NEW outcome \in {"nothing", "stored", "fetch failed", "database error"}, Tell(w, outcome),
         \A r \in records' : r \in records \/ r.run_id = request[w].run_id,
         \A t \in Tickers, d \in Days :
           dailyPrice'[t][d] # NoRow =>
             \/ dailyPrice[t][d] # NoRow
                /\ dailyPrice'[t][d].collection_run_id = dailyPrice[t][d].collection_run_id
             \/ dailyPrice'[t][d].collection_run_id = request[w].run_id
  PROVE  Serving'
<1>1. TypeOK'
  <2>1. told' \in [Runs -> {"nothing", "stored", "fetch failed", "database error"}]
    BY DEF Tell, Serving, TypeOK
  <2>2. /\ pc' \in [Workers -> {"idle", "acquire", "redirect", "fetch", "restore", "release",
                                "recordFailed"} \cup InTransaction]
        /\ request' \in [Workers -> [run_id : Runs, ticker : Tickers] \cup {NoRequest}]
        /\ frame' \in [Workers -> Frames \cup {NoFrame}]
    BY DEF Finish, Goto, Serving, TypeOK
  <2>3. upserted' \in [Workers -> 0 .. LastDay] /\ inserted' \in [Workers -> 0 .. LastDay]
    <3>1. 0 \in 0 .. LastDay
      BY Bounds
    <3> QED
      BY <3>1 DEF Finish, Serving, TypeOK
  <2> QED
    BY <2>1, <2>2, <2>3 DEF Serving, TypeOK, streams, Prices
<1>2. \A v \in Workers : v # w => /\ pc'[v] = pc[v] /\ request'[v] = request[v]
                                 /\ frame'[v] = frame[v] /\ upserted'[v] = upserted[v]
                                 /\ inserted'[v] = inserted[v]
  BY DEF Finish, Goto, Serving, TypeOK
<1>3. pc'[w] = "idle" /\ upserted'[w] = 0 /\ inserted'[w] = 0
  BY DEF Finish, Goto, Serving, TypeOK
<1>4. Threads'
  <2> SUFFICES ASSUME NEW v \in Workers
               PROVE  /\ pc'[v] # "idle" => request'[v] \in [run_id : 1 .. asked', ticker : Tickers]
                      /\ pc'[v] \in InTransaction =>
                           frame'[v] \in Frames /\ upserted'[v] <= Len(Rows(frame'[v]))
                      /\ pc'[v] = "commit" => upserted'[v] = Len(Rows(frame'[v]))
                      /\ pc'[v] \notin InTransaction => upserted'[v] = 0
                      /\ inserted'[v] <= upserted'[v]
    BY DEF Threads
  <2>1. CASE v = w
    BY <1>3, <2>1, Bounds, Zenon DEF InTransaction
  <2>2. CASE v # w
    <3>1. asked' = asked
      OBVIOUS
    <3> QED
      BY <1>2, <2>2, <3>1 DEF Threads, Serving
  <2> QED
    BY <2>1, <2>2
<1>5. GuardAlone' /\ StreamsHeld'
  BY <1>2, <1>3 DEF GuardAlone, StreamsHeld, Serving, streams
<1>6. \A run \in Runs : Used(run)' => Used(run) \/ run = request[w].run_id
  <2>1. \A run \in Runs : told'[run] # "nothing" => told[run] # "nothing" \/ run = request[w].run_id
    BY DEF Tell, Serving, TypeOK
  <2> QED
    BY <2>1 DEF Used
<1>7. RunsFresh'
  <2>1. request[w].run_id <= asked
    BY Request
  <2>2. \A run \in Runs : Used(run)' => run <= asked'
    BY <1>6, <2>1 DEF Serving, RunsFresh
  <2>3. ASSUME NEW run \in Runs, NEW v \in Workers, Used(run)', pc'[v] # "idle"
        PROVE  request'[v].run_id # run
    <3>1. v # w /\ pc[v] # "idle" /\ request'[v] = request[v]
      BY <1>2, <1>3, <2>3
    <3> QED
      BY <1>6, <2>3, <3>1 DEF Serving, RunsFresh
  <2>4. ASSUME NEW u \in Workers, NEW v \in Workers, u # v, pc'[u] # "idle", pc'[v] # "idle"
        PROVE  request'[u].run_id # request'[v].run_id
    <3>1. u # w /\ v # w
      BY <1>3, <2>4
    <3>2. /\ pc[u] # "idle" /\ request'[u] = request[u]
          /\ pc[v] # "idle" /\ request'[v] = request[v]
      BY <1>2, <2>4, <3>1
    <3> QED
      BY <2>4, <3>2 DEF Serving, RunsFresh
  <2> QED
    BY <2>2, <2>3, <2>4 DEF RunsFresh
<1> QED
  BY <1>1, <1>4, <1>5, <1>7 DEF Serving

LEMMA ServingCollect ==
  ASSUME Serving, NEW w \in Workers, NEW t \in Tickers, Collect(w, t) PROVE Serving'
<1>1. asked \in Nat /\ MaxRuns \in Nat /\ asked' = asked + 1 /\ asked' \in Runs
      /\ asked' \in 0 .. MaxRuns
  <2>1. asked \in Nat /\ MaxRuns \in Nat /\ asked' = asked + 1 /\ asked < MaxRuns
    BY Bounds, AskedRuns DEF Collect, Serving
  <2> QED
    BY <2>1 DEF Runs
<1>2. /\ request'[w] = [run_id |-> asked', ticker |-> t] /\ pc'[w] = "acquire"
      /\ \A v \in Workers : v # w => request'[v] = request[v] /\ pc'[v] = pc[v]
  BY <1>1 DEF Collect, Goto, Serving, TypeOK
<1>3. TypeOK'
  BY <1>1 DEF Collect, Goto, Serving, TypeOK, streams, tables
<1>4. Threads'
  <2>1. \A v \in Workers \ {w} : pc[v] # "idle" =>
          request[v] \in [run_id : 1 .. asked', ticker : Tickers]
    BY <1>1 DEF Serving, Threads
  <2>2. request'[w] \in [run_id : 1 .. asked', ticker : Tickers]
    BY <1>1, <1>2
  <2>3. frame' = frame /\ upserted' = upserted /\ inserted' = inserted /\ pc[w] = "idle"
    BY DEF Collect
  <2> QED
    BY <1>2, <2>1, <2>2, <2>3 DEF Serving, Threads, InTransaction
<1>5. GuardAlone' /\ StreamsHeld'
  BY <1>2 DEF Collect, Serving, GuardAlone, StreamsHeld, streams
<1>6. \A run \in Runs : Used(run)' <=> Used(run)
  BY DEF Collect, Used, tables
<1>7. \A run \in Runs : Used(run) => run <= asked /\ run # asked'
  BY <1>1 DEF Serving, RunsFresh, Runs
<1>8. ASSUME NEW v \in Workers, pc[v] # "idle"
      PROVE  request[v].run_id # asked'
  <2>1. request[v].run_id \in 1 .. asked
    BY <1>8 DEF Serving, Threads
  <2> QED
    BY <1>1, <2>1
<1>9. RunsFresh'
  <2>1. \A run \in Runs : Used(run)' => run <= asked'
    BY <1>1, <1>6, <1>7 DEF Runs
  <2>2. \A run \in Runs, v \in Workers : Used(run)' /\ pc'[v] # "idle" => request'[v].run_id # run
    BY <1>2, <1>6, <1>7 DEF Serving, RunsFresh
  <2>3. \A u, v \in Workers :
          u # v /\ pc'[u] # "idle" /\ pc'[v] # "idle" => request'[u].run_id # request'[v].run_id
    BY <1>2, <1>8 DEF Serving, RunsFresh
  <2> QED
    BY <2>1, <2>2, <2>3 DEF RunsFresh
<1> QED
  BY <1>3, <1>4, <1>5, <1>9 DEF Serving

\* The steps of fetch_ohlcv.
LEMMA ServingFetch ==
  ASSUME Serving, NEW w \in Workers,
         AcquireGuard(w) \/ Redirect(w) \/ Fetch(w) \/ Restore(w) \/ Release(w)
  PROVE  Serving'
<1>1. CASE AcquireGuard(w)
  <2>1. TypeOK' /\ Threads'
    BY <1>1 DEF AcquireGuard, Goto, Serving, TypeOK, Threads, InTransaction, tables
  <2>2. GuardAlone' /\ StreamsHeld'
    BY <1>1 DEF AcquireGuard, Goto, Serving, TypeOK, GuardAlone, StreamsHeld
  <2>3. RunsFresh'
    BY <1>1, RunsFreshQuietly DEF AcquireGuard, Goto, Serving, TypeOK
  <2> QED
    BY <2>1, <2>2, <2>3 DEF Serving
<1>2. CASE Redirect(w)
  <2>1. TypeOK' /\ Threads'
    BY <1>2 DEF Redirect, Goto, Serving, TypeOK, Threads, InTransaction, tables
  <2>2. \A v \in Workers : v # w => pc[v] \notin {"redirect", "fetch", "restore", "release"}
    BY <1>2 DEF Redirect, Serving, GuardAlone
  <2>3. stdout = Console
    BY <1>2, <2>2 DEF Redirect, Serving, StreamsHeld
  <2>4. GuardAlone' /\ StreamsHeld'
    BY <1>2, <2>2, <2>3 DEF Redirect, Goto, Serving, TypeOK, GuardAlone, StreamsHeld
  <2>5. RunsFresh'
    BY <1>2, RunsFreshQuietly DEF Redirect, Goto, Serving, TypeOK
  <2> QED
    BY <2>1, <2>4, <2>5 DEF Serving
<1>3. CASE Fetch(w)
  <2>1. TypeOK' /\ Threads'
    BY <1>3 DEF Fetch, Goto, Serving, TypeOK, Threads, InTransaction, tables, streams
  <2>2. GuardAlone' /\ StreamsHeld'
    BY <1>3 DEF Fetch, Goto, Serving, TypeOK, GuardAlone, StreamsHeld, streams
  <2>3. RunsFresh'
    BY <1>3, RunsFreshQuietly DEF Fetch, Goto, Serving, TypeOK
  <2> QED
    BY <2>1, <2>2, <2>3 DEF Serving
<1>4. CASE Restore(w)
  <2>1. TypeOK' /\ Threads'
    BY <1>4 DEF Restore, Goto, Serving, TypeOK, Threads, InTransaction, tables
  <2>2. \A v \in Workers : v # w => pc[v] \notin {"redirect", "fetch", "restore", "release"}
    BY <1>4 DEF Restore, Serving, GuardAlone
  <2>3. GuardAlone' /\ StreamsHeld'
    BY <1>4, <2>2 DEF Restore, Goto, Serving, TypeOK, GuardAlone, StreamsHeld
  <2>4. RunsFresh'
    BY <1>4, RunsFreshQuietly DEF Restore, Goto, Serving, TypeOK
  <2> QED
    BY <2>1, <2>3, <2>4 DEF Serving
<1>5. CASE Release(w)
  <2>1. TypeOK'
    BY <1>5 DEF Release, Goto, Serving, TypeOK, InTransaction, tables
  <2>2. Threads'
    <3>1. pc[w] = "release" /\ frame' = frame /\ upserted' = upserted /\ inserted' = inserted
          /\ request' = request /\ asked' = asked
      BY <1>5 DEF Release
    <3>2. frame[w] # NoFrame => frame[w] \in Frames /\ Len(Rows(frame[w])) \in Nat
      BY RowsOfFrames DEF Serving, TypeOK
    <3>3. upserted[w] = 0
      BY <3>1 DEF Serving, Threads, InTransaction
    <3>4. pc'[w] \in {"recordFailed", "upsert"} /\ (pc'[w] = "upsert" => frame[w] # NoFrame)
      BY <1>5 DEF Release, Goto, Serving, TypeOK
    <3>5. \A v \in Workers : v # w => pc'[v] = pc[v]
      BY <1>5 DEF Release, Goto, Serving, TypeOK
    <3> QED
      BY <3>1, <3>2, <3>3, <3>4, <3>5 DEF Serving, Threads, InTransaction
  <2>3. GuardAlone' /\ StreamsHeld'
    <3>1. /\ pc'[w] \in {"recordFailed", "upsert"} /\ pc[w] = "release"
          /\ \A v \in Workers : v # w => pc'[v] = pc[v]
          /\ guard' = guard \ {w} /\ stdout' = stdout /\ restored' = restored
      BY <1>5 DEF Release, Goto, Serving, TypeOK
    <3> QED
      BY <3>1 DEF Serving, GuardAlone, StreamsHeld
  <2>4. RunsFresh'
    BY <1>5, RunsFreshQuietly DEF Release, Goto, Serving, TypeOK
  <2> QED
    BY <2>1, <2>2, <2>3, <2>4 DEF Serving
<1> QED
  BY <1>1, <1>2, <1>3, <1>4, <1>5

LEMMA ServingUpserts ==
  ASSUME Serving, NEW w \in Workers, UpsertRow(w) \/ EndLoop(w)
  PROVE  Serving'
<1>1. CASE UpsertRow(w)
  <2>1. /\ frame[w] \in Frames /\ upserted[w] \in Nat /\ inserted[w] \in Nat
        /\ upserted[w] < Len(Rows(frame[w])) /\ inserted[w] <= upserted[w]
        /\ Len(Rows(frame[w])) \in Nat /\ Len(Rows(frame[w])) <= LastDay /\ LastDay \in Nat
    <3>1. pc[w] = "upsert" /\ upserted[w] < Len(Rows(frame[w]))
      BY <1>1 DEF UpsertRow, SoundRows, Rows
    <3>2. frame[w] \in Frames /\ inserted[w] <= upserted[w]
      BY <3>1 DEF Serving, Threads, InTransaction
    <3>3. upserted[w] \in 0 .. LastDay /\ inserted[w] \in 0 .. LastDay
      BY DEF Serving, TypeOK
    <3>4. Len(Rows(frame[w])) \in 0 .. LastDay
      BY <3>2, RowsFitDays
    <3> QED
      BY <3>1, <3>2, <3>3, <3>4, Bounds
  <2>2. /\ upserted'[w] = upserted[w] + 1 /\ inserted'[w] \in {inserted[w], inserted[w] + 1}
        /\ \A v \in Workers : v # w => upserted'[v] = upserted[v] /\ inserted'[v] = inserted[v]
    BY <1>1 DEF UpsertRow, Serving, TypeOK
  <2>3. upserted' \in [Workers -> 0 .. LastDay] /\ inserted' \in [Workers -> 0 .. LastDay]
    <3>1. upserted[w] + 1 \in 0 .. LastDay /\ inserted[w] + 1 \in 0 .. LastDay
      BY <2>1
    <3> QED
      BY <1>1, <3>1 DEF UpsertRow, Serving, TypeOK
  <2>4. TypeOK'
    BY <1>1, <2>3 DEF UpsertRow, Serving, TypeOK, streams, tables
  <2>5. pc' = pc /\ frame' = frame /\ request' = request /\ asked' = asked /\ pc[w] = "upsert"
    BY <1>1 DEF UpsertRow
  <2>6. inserted'[w] <= upserted'[w] /\ upserted'[w] <= Len(Rows(frame[w]))
    BY <2>1, <2>2
  <2>7. Threads'
    BY <2>2, <2>5, <2>6 DEF Serving, Threads, InTransaction
  <2>8. GuardAlone' /\ StreamsHeld'
    BY <1>1 DEF UpsertRow, Serving, GuardAlone, StreamsHeld, streams
  <2>9. RunsFresh'
    BY <1>1, RunsFreshQuietly DEF UpsertRow
  <2> QED
    BY <2>4, <2>7, <2>8, <2>9 DEF Serving
<1>2. CASE EndLoop(w)
  <2>1. TypeOK' /\ Threads'
    BY <1>2 DEF EndLoop, Goto, Serving, TypeOK, Threads, InTransaction, SoundRows, Rows, streams, tables
  <2>2. GuardAlone' /\ StreamsHeld'
    BY <1>2 DEF EndLoop, Goto, Serving, TypeOK, GuardAlone, StreamsHeld, streams
  <2>3. RunsFresh'
    BY <1>2, RunsFreshQuietly DEF EndLoop, Goto, Serving, TypeOK
  <2> QED
    BY <2>1, <2>2, <2>3 DEF Serving
<1> QED
  BY <1>1, <1>2

LEMMA ServingRestart ==
  ASSUME Serving, Restart PROVE Serving'
<1>1. TypeOK'
  <2>1. 0 \in 0 .. LastDay
    BY Bounds
  <2>2. upserted' \in [Workers -> 0 .. LastDay] /\ inserted' \in [Workers -> 0 .. LastDay]
    BY <2>1 DEF Restart
  <2> QED
    BY <2>2 DEF Restart, Serving, TypeOK, tables
<1>2. Threads' /\ GuardAlone' /\ StreamsHeld'
  BY DEF Restart, Threads, GuardAlone, StreamsHeld, InTransaction
<1>3. RunsFresh'
  BY RunsFreshQuietly DEF Restart
<1> QED
  BY <1>1, <1>2, <1>3 DEF Serving

\* What a commit does to the tables.
LEMMA CommittedTables ==
  ASSUME Serving, NEW w \in Workers, pc[w] = "commit", Committed(w)
  PROVE  /\ frame[w] \in Frames /\ upserted[w] = Len(Rows(frame[w]))
         /\ dailyPrice \in Prices /\ dailyPrice' \in Prices
         /\ dailyPrice' = Written(dailyPrice, frame[w], request[w].ticker, request[w].run_id)
         /\ \A d \in DaysOf(frame[w], upserted[w]) :
              /\ dailyPrice'[request[w].ticker][d] # NoRow
              /\ dailyPrice'[request[w].ticker][d].row.trade_date = d
              /\ dailyPrice'[request[w].ticker][d].collection_run_id = request[w].run_id
         /\ \A t \in Tickers, d \in Days :
              ~(t = request[w].ticker /\ d \in DaysOf(frame[w], upserted[w])) =>
                dailyPrice'[t][d] = dailyPrice[t][d]
         /\ records' = records \cup {Record(w, upserted[w] - inserted[w], Outcome(w))}
         /\ Outcome(w) \in {"success", "partial"}
         /\ upserted[w] - inserted[w] \in 0 .. LastDay
<1>1. frame[w] \in Frames /\ upserted[w] = Len(Rows(frame[w])) /\ inserted[w] <= upserted[w]
  BY DEF Serving, Threads, InTransaction
<1>2. request[w].ticker \in Tickers /\ request[w].run_id \in Runs
  BY Request
<1>3. dailyPrice \in Prices
  BY DEF Serving, TypeOK, Prices
<1>4. dailyPrice' = Written(dailyPrice, frame[w], request[w].ticker, request[w].run_id)
  BY Zenon DEF Committed, Stored, Written, SoundRows, Rows
<1>5. LET days  == DaysOf(frame[w], Len(Rows(frame[w])))
          after == Written(dailyPrice, frame[w], request[w].ticker, request[w].run_id)
      IN  /\ after \in Prices
          /\ \A d \in days : /\ after[request[w].ticker][d] # NoRow
                             /\ after[request[w].ticker][d].row.trade_date = d
                             /\ after[request[w].ticker][d].collection_run_id = request[w].run_id
          /\ \A d \in Days \ days :
               after[request[w].ticker][d] = dailyPrice[request[w].ticker][d]
          /\ \A s \in Tickers \ {request[w].ticker} : after[s] = dailyPrice[s]
  BY <1>1, <1>2, <1>3, WrittenRows
<1>6. records' = records \cup {Record(w, upserted[w] - inserted[w], Outcome(w))}
  BY DEF Committed
<1>7. Outcome(w) \in {"success", "partial"}
  BY DEF Outcome, DecideStatus
<1>8. upserted[w] - inserted[w] \in 0 .. LastDay
  <2>1. upserted[w] \in 0 .. LastDay /\ inserted[w] \in 0 .. LastDay /\ LastDay \in Nat
    BY Bounds DEF Serving, TypeOK
  <2> QED
    BY <1>1, <2>1
<1> QED
  BY <1>1, <1>3, <1>4, <1>5, <1>6, <1>7, <1>8

LEMMA RecordTyped ==
  ASSUME Serving, NEW w \in Workers, pc[w] # "idle", NEW n \in 0 .. LastDay,
         NEW status \in {"success", "partial", "failed"}
  PROVE  /\ Record(w, n, status) \in CollectionRun
         /\ Record(w, n, status).run_id = request[w].run_id
         /\ Record(w, n, status).ticker = request[w].ticker
         /\ Record(w, n, status).status = status
         /\ Record(w, n, status).inserted_rows = inserted[w]
         /\ inserted[w] \in 0 .. LastDay
<1>1. inserted[w] \in 0 .. LastDay
  BY DEF Serving, TypeOK
<1>2. request[w].run_id \in Runs /\ request[w].ticker \in Tickers
  BY Request
<1> QED
  BY <1>1, <1>2 DEF Record, CollectionRun

LEMMA ServingRecordFailed ==
  ASSUME Serving, NEW w \in Workers, RecordFailed(w) PROVE Serving'
<1>1. pc[w] = "recordFailed" /\ pc[w] # "idle" /\ Finish(w) /\ UNCHANGED <<streams, asked>>
      /\ Tell(w, "fetch failed") /\ dailyPrice' = dailyPrice
      /\ records' \in {records, records \cup {Record(w, 0, "failed")}}
  BY DEF RecordFailed
<1>2. Record(w, 0, "failed") \in CollectionRun /\ Record(w, 0, "failed").run_id = request[w].run_id
  BY <1>1, Bounds, RecordTyped
<1>3. records' \subseteq CollectionRun
      /\ \A r \in records' : r \in records \/ r.run_id = request[w].run_id
  BY <1>1, <1>2 DEF Serving, TypeOK
<1>4. dailyPrice' \in Prices
      /\ \A t \in Tickers, d \in Days :
           dailyPrice'[t][d] # NoRow => dailyPrice'[t][d].row.trade_date = d
  BY <1>1 DEF Serving, TypeOK, Prices
<1>5. pc[w] \notin {"redirect", "fetch", "restore", "release"}
  BY <1>1
<1> QED
  BY <1>1, <1>3, <1>4, <1>5, Ends

LEMMA ServingCommitted ==
  ASSUME Serving, NEW w \in Workers, pc[w] = "commit", Committed(w),
         Finish(w), UNCHANGED <<streams, asked>>,
         NEW outcome \in {"nothing", "stored", "fetch failed", "database error"}, Tell(w, outcome)
  PROVE  Serving'
<1>1. records' \subseteq CollectionRun
      /\ \A r \in records' : r \in records \/ r.run_id = request[w].run_id
  <2>1. /\ records' = records \cup {Record(w, upserted[w] - inserted[w], Outcome(w))}
        /\ Outcome(w) \in {"success", "partial"} /\ upserted[w] - inserted[w] \in 0 .. LastDay
    BY CommittedTables, Zenon
  <2>2. ASSUME NEW n \in 0 .. LastDay, NEW status \in {"success", "partial"}
        PROVE  /\ Record(w, n, status) \in CollectionRun
               /\ Record(w, n, status).run_id = request[w].run_id
    <3>1. status \in {"success", "partial", "failed"} /\ pc[w] # "idle"
      OBVIOUS
    <3> QED
      BY <3>1, RecordTyped
  <2>3. PICK n \in 0 .. LastDay : n = upserted[w] - inserted[w]
    BY <2>1, Zenon
  <2>4. PICK status \in {"success", "partial"} : status = Outcome(w)
    BY <2>1, Zenon
  <2>5. records' = records \cup {Record(w, n, status)}
    BY <2>1, <2>3, <2>4, Zenon
  <2>6. records \subseteq CollectionRun
    BY DEF Serving, TypeOK
  <2> QED
    BY <2>2, <2>5, <2>6
<1>2. dailyPrice' \in Prices
  BY CommittedTables
<1> DEFINE days == DaysOf(frame[w], upserted[w])
           ticker == request[w].ticker
<1>3. /\ \A d \in days : /\ dailyPrice'[ticker][d] # NoRow
                          /\ dailyPrice'[ticker][d].row.trade_date = d
                          /\ dailyPrice'[ticker][d].collection_run_id = request[w].run_id
      /\ \A t \in Tickers, d \in Days :
           ~(t = ticker /\ d \in days) => dailyPrice'[t][d] = dailyPrice[t][d]
  BY CommittedTables, Zenon
<1> HIDE DEF days, ticker
<1>4. \A t \in Tickers, d \in Days :
        dailyPrice'[t][d] # NoRow => dailyPrice'[t][d].row.trade_date = d
  <2>1. \A t \in Tickers, d \in Days :
          dailyPrice[t][d] # NoRow => dailyPrice[t][d].row.trade_date = d
    BY DEF Serving, TypeOK
  <2> SUFFICES ASSUME NEW t \in Tickers, NEW d \in Days, dailyPrice'[t][d] # NoRow
               PROVE  dailyPrice'[t][d].row.trade_date = d
    OBVIOUS
  <2>2. CASE t = ticker /\ d \in days
    BY <1>3, <2>2
  <2>3. CASE ~(t = ticker /\ d \in days)
    <3>1. dailyPrice'[t][d] = dailyPrice[t][d]
      BY <1>3, <2>3
    <3> QED
      BY <2>1, <3>1
  <2> QED
    BY <2>2, <2>3
<1>5. \A t \in Tickers, d \in Days :
        dailyPrice'[t][d] # NoRow =>
          \/ dailyPrice[t][d] # NoRow
             /\ dailyPrice'[t][d].collection_run_id = dailyPrice[t][d].collection_run_id
          \/ dailyPrice'[t][d].collection_run_id = request[w].run_id
  BY <1>3
<1>6. pc[w] # "idle" /\ pc[w] \notin {"redirect", "fetch", "restore", "release"}
  OBVIOUS
<1> QED
  BY <1>1, <1>2, <1>4, <1>5, <1>6, Ends

LEMMA ServingRolledBack ==
  ASSUME Serving, NEW w \in Workers, pc[w] \in InTransaction, UNCHANGED tables,
         Finish(w), UNCHANGED <<streams, asked>>,
         NEW outcome \in {"nothing", "stored", "fetch failed", "database error"}, Tell(w, outcome)
  PROVE  Serving'
<1>1. dailyPrice' = dailyPrice /\ records' = records
  BY DEF tables
<1>2. dailyPrice' \in Prices /\ records' \subseteq CollectionRun
      /\ \A t \in Tickers, d \in Days :
           dailyPrice'[t][d] # NoRow => dailyPrice'[t][d].row.trade_date = d
  BY <1>1 DEF Serving, TypeOK, Prices
<1>3. pc[w] # "idle" /\ pc[w] \notin {"redirect", "fetch", "restore", "release"}
  BY DEF InTransaction
<1> QED
  BY <1>1, <1>2, <1>3, Ends

LEMMA ServingNext == Serving /\ [Next]_vars => Serving'
<1> SUFFICES ASSUME Serving, [Next]_vars PROVE Serving'
  OBVIOUS
<1>1. ASSUME NEW w \in Workers, NEW t \in Tickers, Collect(w, t) PROVE Serving'
  BY <1>1, ServingCollect
<1>2. ASSUME NEW w \in Workers, Step(w) PROVE Serving'
  <2>1. CASE AcquireGuard(w) \/ Redirect(w) \/ Fetch(w) \/ Restore(w) \/ Release(w)
    BY <2>1, ServingFetch
  <2>2. CASE RecordFailed(w)
    BY <2>2, ServingRecordFailed
  <2>3. CASE UpsertRow(w) \/ EndLoop(w)
    BY <2>3, ServingUpserts
  <2>4. CASE Commit(w)
    BY <2>4, ServingCommitted DEF Commit
  <2> QED
    BY <1>2, <2>1, <2>2, <2>3, <2>4 DEF Step
<1>3. ASSUME NEW w \in Workers, Rollback(w) PROVE Serving'
  <2>1. PICK outcome \in {"nothing", "database error"} : Tell(w, outcome)
    BY <1>3 DEF Rollback
  <2>2. outcome \in {"nothing", "stored", "fetch failed", "database error"}
    OBVIOUS
  <2>3. pc[w] \in InTransaction /\ Finish(w) /\ UNCHANGED <<streams, asked>>
    BY <1>3 DEF Rollback
  <2>4. UNCHANGED tables \/ (pc[w] = "commit" /\ Committed(w))
    BY <1>3 DEF Rollback
  <2> QED
    BY <2>1, <2>2, <2>3, <2>4, ServingCommitted, ServingRolledBack
<1>4. CASE Restart
  BY <1>4, ServingRestart
<1>5. CASE UNCHANGED vars
  <2>1. TypeOK'
    BY <1>5 DEF vars, Serving, TypeOK
  <2>2. Threads' /\ GuardAlone' /\ StreamsHeld'
    BY <1>5 DEF vars, Serving, Threads, GuardAlone, StreamsHeld
  <2>3. RunsFresh'
    BY <1>5, RunsFreshQuietly DEF vars, tables
  <2> QED
    BY <2>1, <2>2, <2>3 DEF Serving
<1> QED
  BY <1>1, <1>2, <1>3, <1>4, <1>5 DEF Next

-----------------------------------------------------------------------------
(* Telling *)

Telling == RowsNameTheirRun /\ ClientsAreToldTheTruth

LEMMA TellingQuietly ==
  ASSUME Telling, UNCHANGED <<tables, told>> PROVE Telling'
<1>1. dailyPrice' = dailyPrice /\ records' = records /\ told' = told
  BY DEF tables
<1>2. RowsNameTheirRun'
  BY <1>1, Zenon DEF Telling, RowsNameTheirRun
<1>3. ClientsAreToldTheTruth'
  BY <1>1, Zenon DEF Telling, ClientsAreToldTheTruth, ShownRun
<1> QED
  BY <1>2, <1>3 DEF Telling

\* What a client is told when its request ends, and that the others' answers do not change.
LEMMA Told ==
  ASSUME Serving, NEW w \in Workers, pc[w] # "idle",
         NEW outcome \in {"nothing", "stored", "fetch failed", "database error"}, Tell(w, outcome)
  PROVE  \A run \in Runs :
           told'[run] = IF run = request[w].run_id THEN outcome ELSE told[run]
<1>1. told \in [Runs -> {"nothing", "stored", "fetch failed", "database error"}]
  BY DEF Serving, TypeOK
<1> QED
  BY <1>1 DEF Tell

LEMMA TellingRecordFailed ==
  ASSUME Serving, Telling, NEW w \in Workers, RecordFailed(w) PROVE Telling'
<1> DEFINE mine == request[w].run_id
           rec == Record(w, 0, "failed")
<1>1. pc[w] # "idle" /\ Tell(w, "fetch failed") /\ dailyPrice' = dailyPrice
      /\ records' \in {records, records \cup {rec}}
  BY DEF RecordFailed
<1>2. rec.run_id = mine /\ rec.status = "failed"
  BY DEF Record
<1>3. /\ \A r \in records : r.run_id # mine
      /\ \A t \in Tickers, d \in Days :
           dailyPrice[t][d] # NoRow => dailyPrice[t][d].collection_run_id # mine
  BY <1>1, Request DEF Used
<1>4. \A run \in Runs : told'[run] = IF run = mine THEN "fetch failed" ELSE told[run]
  BY <1>1, Told
<1> HIDE DEF mine, rec
<1>5. RowsNameTheirRun'
  <2>1. \A r \in records : r \in records'
    BY <1>1
  <2> QED
    BY <1>1, <2>1, Zenon DEF Telling, RowsNameTheirRun
<1>6. ClientsAreToldTheTruth'
  <2> SUFFICES ASSUME NEW run \in Runs
               PROVE  /\ told'[run] = "stored" =>
                           \E r \in records' : r.run_id = run /\ r.status # "failed"
                      /\ told'[run] = "fetch failed" =>
                           /\ \A r \in records' : r.run_id = run => r.status = "failed"
                           /\ \A t \in Tickers, d \in Days :
                                dailyPrice'[t][d] # NoRow => dailyPrice'[t][d].collection_run_id # run
    BY DEF ClientsAreToldTheTruth, ShownRun
  <2>1. CASE run = mine
    BY <1>1, <1>2, <1>3, <1>4, <2>1
  <2>2. CASE run # mine
    <3>1. told'[run] = told[run]
      BY <1>4, <2>2
    <3>2. \A r \in records' : r.run_id = run => r \in records
      BY <1>1, <1>2, <2>2
    <3> QED
      BY <1>1, <3>1, <3>2 DEF Telling, ClientsAreToldTheTruth, ShownRun
  <2> QED
    BY <2>1, <2>2
<1> QED
  BY <1>5, <1>6 DEF Telling

LEMMA TellingCommitted ==
  ASSUME Serving, Telling, NEW w \in Workers, pc[w] = "commit", Committed(w),
         NEW outcome \in {"nothing", "stored", "database error"}, Tell(w, outcome)
  PROVE  Telling'
<1> DEFINE mine == request[w].run_id
           ticker == request[w].ticker
           days == DaysOf(frame[w], upserted[w])
           rec == Record(w, upserted[w] - inserted[w], Outcome(w))
<1>1. /\ \A d \in days : dailyPrice'[ticker][d] # NoRow
                         /\ dailyPrice'[ticker][d].collection_run_id = mine
      /\ \A t \in Tickers, d \in Days :
           ~(t = ticker /\ d \in days) => dailyPrice'[t][d] = dailyPrice[t][d]
      /\ records' = records \cup {rec}
  BY CommittedTables, Zenon
<1>2. rec.run_id = mine /\ rec.ticker = ticker /\ rec.status # "failed"
  <2>1. Outcome(w) # "failed"
    BY CommittedTables
  <2> QED
    BY <2>1 DEF Record
<1>3. \A r \in records : r.run_id # mine
  BY Request DEF Used
<1>4. \A run \in Runs : told'[run] = IF run = mine THEN outcome ELSE told[run]
  BY Told
<1> HIDE DEF mine, ticker, days, rec
<1>5. RowsNameTheirRun'
  <2> SUFFICES ASSUME NEW t \in Tickers, NEW d \in Days, dailyPrice'[t][d] # NoRow
               PROVE  \E r \in records' : /\ r.run_id = dailyPrice'[t][d].collection_run_id
                                          /\ r.ticker = t
                                          /\ r.status # "failed"
    BY DEF RowsNameTheirRun
  <2>1. CASE t = ticker /\ d \in days
    BY <1>1, <1>2, <2>1
  <2>2. CASE ~(t = ticker /\ d \in days)
    <3>1. dailyPrice'[t][d] = dailyPrice[t][d]
      BY <1>1, <2>2
    <3>2. \A r \in records : r \in records'
      BY <1>1
    <3>3. PICK r \in records : /\ r.run_id = dailyPrice[t][d].collection_run_id
                               /\ r.ticker = t
                               /\ r.status # "failed"
      BY <2>2, <3>1, Zenon DEF Telling, RowsNameTheirRun
    <3> QED
      BY <3>1, <3>2, <3>3, Zenon
  <2> QED
    BY <2>1, <2>2
<1>6. ClientsAreToldTheTruth'
  <2> SUFFICES ASSUME NEW run \in Runs
               PROVE  /\ told'[run] = "stored" =>
                           \E r \in records' : r.run_id = run /\ r.status # "failed"
                      /\ told'[run] = "fetch failed" =>
                           /\ \A r \in records' : r.run_id = run => r.status = "failed"
                           /\ \A t \in Tickers, d \in Days :
                                dailyPrice'[t][d] # NoRow => dailyPrice'[t][d].collection_run_id # run
    BY DEF ClientsAreToldTheTruth, ShownRun
  <2>1. CASE run = mine
    BY <1>1, <1>2, <1>4, <2>1
  <2>2. CASE run # mine
    <3>1. told'[run] = told[run]
      BY <1>4, <2>2
    <3>2. /\ told[run] = "stored" =>
               \E r \in records : r.run_id = run /\ r.status # "failed"
          /\ told[run] = "fetch failed" =>
               /\ \A r \in records : r.run_id = run => r.status = "failed"
               /\ \A t \in Tickers, d \in Days :
                    dailyPrice[t][d] # NoRow => dailyPrice[t][d].collection_run_id # run
      BY DEF Telling, ClientsAreToldTheTruth, ShownRun
    <3>3. \A r \in records' : r.run_id = run => r \in records
      BY <1>1, <1>2, <2>2
    <3>4. ASSUME NEW t \in Tickers, NEW d \in Days, dailyPrice'[t][d] # NoRow,
                 dailyPrice'[t][d].collection_run_id = run
          PROVE  dailyPrice[t][d] # NoRow /\ dailyPrice[t][d].collection_run_id = run
      <4>1. ~(t = ticker /\ d \in days)
        BY <1>1, <2>2, <3>4
      <4>2. dailyPrice'[t][d] = dailyPrice[t][d]
        BY <1>1, <4>1
      <4> QED
        BY <3>4, <4>2
    <3> QED
      BY <1>1, <3>1, <3>2, <3>3, <3>4
  <2> QED
    BY <2>1, <2>2
<1> QED
  BY <1>5, <1>6 DEF Telling

LEMMA TellingRolledBack ==
  ASSUME Serving, Telling, NEW w \in Workers, pc[w] # "idle", UNCHANGED tables,
         NEW outcome \in {"nothing", "stored", "database error"}, outcome # "stored",
         Tell(w, outcome)
  PROVE  Telling'
<1>1. dailyPrice' = dailyPrice /\ records' = records
  BY DEF tables
<1>2. \A run \in Runs : told'[run] = told[run] \/ told'[run] \notin {"stored", "fetch failed"}
  BY Told
<1>3. RowsNameTheirRun'
  BY <1>1, Zenon DEF Telling, RowsNameTheirRun
<1>4. ClientsAreToldTheTruth'
  <2> SUFFICES ASSUME NEW run \in Runs
               PROVE  /\ told'[run] = "stored" =>
                           \E r \in records : r.run_id = run /\ r.status # "failed"
                      /\ told'[run] = "fetch failed" =>
                           /\ \A r \in records : r.run_id = run => r.status = "failed"
                           /\ \A t \in Tickers, d \in Days :
                                dailyPrice[t][d] # NoRow => dailyPrice[t][d].collection_run_id # run
    BY <1>1 DEF ClientsAreToldTheTruth, ShownRun
  <2>1. CASE told'[run] = told[run]
    BY <2>1 DEF Telling, ClientsAreToldTheTruth, ShownRun
  <2>2. CASE told'[run] \notin {"stored", "fetch failed"}
    BY <2>2
  <2> QED
    BY <1>2, <2>1, <2>2
<1> QED
  BY <1>3, <1>4 DEF Telling

LEMMA TellingNext == Serving /\ Telling /\ [Next]_vars => Telling'
<1> SUFFICES ASSUME Serving, Telling, [Next]_vars PROVE Telling'
  OBVIOUS
<1>1. ASSUME NEW w \in Workers, NEW t \in Tickers, Collect(w, t) PROVE Telling'
  BY <1>1, TellingQuietly DEF Collect
<1>2. ASSUME NEW w \in Workers, Step(w) PROVE Telling'
  <2>1. CASE AcquireGuard(w) \/ Redirect(w) \/ Fetch(w) \/ Restore(w) \/ Release(w)
    BY <2>1, TellingQuietly DEF AcquireGuard, Redirect, Fetch, Restore, Release
  <2>2. CASE RecordFailed(w)
    BY <2>2, TellingRecordFailed
  <2>3. CASE UpsertRow(w) \/ EndLoop(w)
    BY <2>3, TellingQuietly DEF UpsertRow, EndLoop
  <2>4. CASE Commit(w)
    BY <2>4, TellingCommitted DEF Commit
  <2> QED
    BY <1>2, <2>1, <2>2, <2>3, <2>4 DEF Step
<1>3. ASSUME NEW w \in Workers, Rollback(w) PROVE Telling'
  <2>1. PICK outcome \in {"nothing", "database error"} : Tell(w, outcome)
    BY <1>3 DEF Rollback
  <2>2. outcome \in {"nothing", "stored", "database error"} /\ outcome # "stored"
    OBVIOUS
  <2>3. pc[w] # "idle"
    BY <1>3 DEF Rollback, InTransaction
  <2>4. UNCHANGED tables \/ (pc[w] = "commit" /\ Committed(w))
    BY <1>3 DEF Rollback
  <2> QED
    BY <2>1, <2>2, <2>3, <2>4, TellingCommitted, TellingRolledBack
<1>4. CASE Restart
  BY <1>4, TellingQuietly DEF Restart
<1>5. CASE UNCHANGED vars
  BY <1>5, TellingQuietly DEF vars, tables
<1> QED
  BY <1>1, <1>2, <1>3, <1>4, <1>5 DEF Next

-----------------------------------------------------------------------------
(* Counting *)

LEMMA DisjointUnion ==
  ASSUME NEW S, NEW T, IsFiniteSet(S), IsFiniteSet(T), S \cap T = {}
  PROVE  /\ IsFiniteSet(S \cup T)
         /\ Cardinality(S \cup T) = Cardinality(S) + Cardinality(T)
<1>1. /\ IsFiniteSet(S \cup T)
      /\ Cardinality(S \cup T) = Cardinality(S) + Cardinality(T) - Cardinality(S \cap T)
  BY FS_Union
<1>2. Cardinality(S \cap T) = 0
  BY FS_EmptySet
<1>3. Cardinality(S) \in Nat /\ Cardinality(T) \in Nat
  BY FS_CardinalityType
<1> QED
  BY <1>1, <1>2, <1>3

LEMMA PairsCount ==
  ASSUME NEW r, NEW n \in Nat
  PROVE  IsFiniteSet({r} \X (1 .. n)) /\ Cardinality({r} \X (1 .. n)) = n
<1> DEFINE pair == [k \in 1 .. n |-> <<r, k>>]
           pairs == {r} \X (1 .. n)
<1>1. pair \in [1 .. n -> pairs] /\ \A k, l \in 1 .. n : pair[k] = pair[l] => k = l
  OBVIOUS
<1>2. \A x \in pairs : \E k \in 1 .. n : pair[k] = x
  OBVIOUS
<1> HIDE DEF pair, pairs
<1>3. pair \in Injection(1 .. n, pairs) /\ pair \in Surjection(1 .. n, pairs)
  BY <1>1, <1>2 DEF Injection, IsInjective, Surjection
<1>4. ExistsBijection(1 .. n, pairs)
  BY <1>3 DEF ExistsBijection, Bijection
<1>5. IsFiniteSet(1 .. n) /\ Cardinality(1 .. n) = n
  BY IntervalSize
<1>6. IsFiniteSet(pairs) /\ Cardinality(pairs) = n
  BY <1>4, <1>5, FS_Bijection
<1> QED
  BY <1>6 DEF pairs

\* One slot for every row a run of the ticker has inserted.
Slots(recs, t) ==
  UNION {{r} \X (1 .. r.inserted_rows) : r \in {r \in recs : r.ticker = t}}

LEMMA SlotsOfOneMore ==
  ASSUME NEW recs, NEW rec \in CollectionRun, rec \notin recs, recs \subseteq CollectionRun, NEW t,
         IsFiniteSet(Slots(recs, t))
  PROVE  /\ IsFiniteSet(Slots(recs \cup {rec}, t))
         /\ Cardinality(Slots(recs \cup {rec}, t))
              = Cardinality(Slots(recs, t)) + IF rec.ticker = t THEN rec.inserted_rows ELSE 0
<1> DEFINE own == {rec} \X (1 .. rec.inserted_rows)
<1>1. rec.inserted_rows \in Nat
  BY Bounds DEF CollectionRun
<1>2. IsFiniteSet(own) /\ Cardinality(own) = rec.inserted_rows
  BY <1>1, PairsCount
<1>3. Cardinality(Slots(recs, t)) \in Nat
  BY FS_CardinalityType
<1>4. CASE rec.ticker = t
  <2>1. Slots(recs \cup {rec}, t) = Slots(recs, t) \cup own
    <3>1. {r \in recs \cup {rec} : r.ticker = t} = {r \in recs : r.ticker = t} \cup {rec}
      BY <1>4
    <3> QED
      BY <3>1 DEF Slots
  <2>2. Slots(recs, t) \cap own = {}
    BY DEF Slots
  <2> HIDE DEF own
  <2>3. /\ IsFiniteSet(Slots(recs, t) \cup own)
        /\ Cardinality(Slots(recs, t) \cup own) = Cardinality(Slots(recs, t)) + Cardinality(own)
    BY <1>2, <2>2, DisjointUnion
  <2> QED
    BY <1>2, <1>4, <2>1, <2>3
<1>5. CASE rec.ticker # t
  <2>1. {r \in recs \cup {rec} : r.ticker = t} = {r \in recs : r.ticker = t}
    BY <1>5
  <2>2. Slots(recs \cup {rec}, t) = Slots(recs, t)
    BY <2>1 DEF Slots
  <2> QED
    BY <1>3, <1>5, <2>2
<1> QED
  BY <1>4, <1>5

\* The days of the first n rows of a frame that the table does not have.
NewDays(prices, t, f, n) == {d \in DaysOf(f, n) : prices[t][d] = NoRow}

LEMMA NewDaysCount ==
  ASSUME NEW prices, NEW t, NEW f \in Frames
  PROVE  /\ NewDays(prices, t, f, 0) = {} /\ DaysOf(f, 0) = {}
         /\ Cardinality(NewDays(prices, t, f, 0)) = 0
         /\ \A n \in Nat : n < Len(Rows(f)) =>
              Cardinality(NewDays(prices, t, f, n + 1)) = Cardinality(NewDays(prices, t, f, n))
                + IF prices[t][Rows(f)[n + 1].trade_date] = NoRow THEN 1 ELSE 0
         /\ \A n \in 0 .. Len(Rows(f)) :
              IsFiniteSet(NewDays(prices, t, f, n)) /\ NewDays(prices, t, f, n) \subseteq Days
<1>1. DaysOf(f, 0) = {}
  BY DEF DaysOf
<1>2. NewDays(prices, t, f, 0) = {}
  BY <1>1 DEF NewDays
<1>3. ASSUME NEW n \in 0 .. Len(Rows(f))
      PROVE  IsFiniteSet(NewDays(prices, t, f, n)) /\ NewDays(prices, t, f, n) \subseteq Days
  <2>1. DaysOf(f, n) \subseteq Days /\ IsFiniteSet(DaysOf(f, n))
    BY DaysCount
  <2>2. NewDays(prices, t, f, n) \in SUBSET DaysOf(f, n)
    BY DEF NewDays
  <2> QED
    BY <2>1, <2>2, FS_Subset
<1>4. ASSUME NEW n \in Nat, n < Len(Rows(f))
      PROVE  Cardinality(NewDays(prices, t, f, n + 1)) = Cardinality(NewDays(prices, t, f, n))
               + IF prices[t][Rows(f)[n + 1].trade_date] = NoRow THEN 1 ELSE 0
  <2> DEFINE day == Rows(f)[n + 1].trade_date
             old == NewDays(prices, t, f, n)
             now == NewDays(prices, t, f, n + 1)
  <2>1. n \in 0 .. Len(Rows(f))
    BY <1>4, RowsOfFrames
  <2>2. IsFiniteSet(old)
    BY <1>3, <2>1
  <2>3. Cardinality(old) \in Nat
    BY <2>2, FS_CardinalityType
  <2>4. day \notin DaysOf(f, n) /\ DaysOf(f, n + 1) = DaysOf(f, n) \cup {day}
    BY <1>4, NextDay
  <2> HIDE DEF day
  <2>5. CASE prices[t][day] = NoRow
    <3>1. now = old \cup {day} /\ day \notin old
      BY <2>4, <2>5 DEF NewDays
    <3> HIDE DEF old, now
    <3>2. Cardinality(now) = Cardinality(old) + 1
      BY <2>2, <3>1, FS_AddElement
    <3> QED
      BY <2>5, <3>2 DEF day, old, now
  <2>6. CASE prices[t][day] # NoRow
    <3>1. now = old
      BY <2>4, <2>6 DEF NewDays
    <3> HIDE DEF old, now
    <3>2. Cardinality(now) = Cardinality(old) + 0
      BY <2>3, <3>1
    <3> QED
      BY <2>6, <3>2 DEF day, old, now
  <2> QED
    BY <2>5, <2>6
<1> QED
  BY <1>1, <1>2, <1>3, <1>4, FS_EmptySet

\* The rows a transaction holds, and those of them that are new.
Held(w) == DaysOf(frame[w], upserted[w])
New(w) == NewDays(dailyPrice, request[w].ticker, frame[w], upserted[w])

HeldAlone ==
  \A v, w \in Workers :
    /\ v # w
    /\ pc[v] \in InTransaction /\ pc[w] \in InTransaction
    /\ request[v].ticker = request[w].ticker
    => Held(v) \cap Held(w) = {}

Counted == \A w \in Workers : pc[w] \in InTransaction => inserted[w] = Cardinality(New(w))

Filled(prices, t) == {d \in Days : prices[t][d] # NoRow}

SlotsCounted ==
  \A t \in Tickers :
    /\ IsFiniteSet(Slots(records, t))
    /\ Cardinality(Slots(records, t)) = Cardinality(Filled(dailyPrice, t))

Counting == HeldAlone /\ Counted /\ SlotsCounted

\* A step that writes no table, and leaves every transaction as it is or at its beginning.
LEMMA CountingQuietly ==
  ASSUME Serving, Counting, UNCHANGED tables,
         \A w \in Workers : pc'[w] \in InTransaction =>
           \/ /\ pc[w] \in InTransaction /\ request'[w] = request[w] /\ frame'[w] = frame[w]
              /\ upserted'[w] = upserted[w] /\ inserted'[w] = inserted[w]
           \/ frame'[w] \in Frames /\ upserted'[w] = 0 /\ inserted'[w] = 0
  PROVE  Counting'
<1>1. dailyPrice' = dailyPrice /\ records' = records
  BY DEF tables
<1>2. SlotsCounted'
  BY <1>1 DEF Counting, SlotsCounted
<1>3. HeldAlone'
  <2> SUFFICES ASSUME NEW v \in Workers, NEW w \in Workers, v # w,
                      pc'[v] \in InTransaction, pc'[w] \in InTransaction,
                      request'[v].ticker = request'[w].ticker
               PROVE  DaysOf(frame'[v], upserted'[v]) \cap DaysOf(frame'[w], upserted'[w]) = {}
    BY DEF HeldAlone, Held
  <2>1. CASE frame'[v] \in Frames /\ upserted'[v] = 0
    BY <2>1, NewDaysCount
  <2>2. CASE frame'[w] \in Frames /\ upserted'[w] = 0
    BY <2>2, NewDaysCount
  <2>3. CASE /\ pc[v] \in InTransaction /\ request'[v] = request[v]
             /\ frame'[v] = frame[v] /\ upserted'[v] = upserted[v]
             /\ pc[w] \in InTransaction /\ request'[w] = request[w]
             /\ frame'[w] = frame[w] /\ upserted'[w] = upserted[w]
    BY <2>3 DEF Counting, HeldAlone, Held
  <2> QED
    BY <2>1, <2>2, <2>3
<1>4. Counted'
  <2> SUFFICES ASSUME NEW w \in Workers, pc'[w] \in InTransaction
               PROVE  inserted'[w] = Cardinality(NewDays(dailyPrice, request'[w].ticker,
                                                         frame'[w], upserted'[w]))
    BY <1>1 DEF Counted, New
  <2>1. CASE frame'[w] \in Frames /\ upserted'[w] = 0 /\ inserted'[w] = 0
    BY <2>1, NewDaysCount
  <2>2. CASE /\ pc[w] \in InTransaction /\ request'[w] = request[w] /\ frame'[w] = frame[w]
             /\ upserted'[w] = upserted[w] /\ inserted'[w] = inserted[w]
    BY <2>2 DEF Counting, Counted, New
  <2> QED
    BY <2>1, <2>2
<1> QED
  BY <1>2, <1>3, <1>4 DEF Counting

LEMMA CountingUpsert ==
  ASSUME Serving, Counting, NEW w \in Workers, UpsertRow(w) PROVE Counting'
<1> DEFINE f == frame[w]
           n == upserted[w]
           t == request[w].ticker
           day == Rows(frame[w])[upserted[w] + 1].trade_date
<1>1. pc[w] = "upsert" /\ n < Len(Rows(f)) /\ f \in Frames /\ n \in Nat
  <2>1. pc[w] = "upsert" /\ n < Len(Rows(f))
    BY DEF UpsertRow, SoundRows, Rows
  <2>2. f \in Frames
    BY <2>1 DEF Serving, Threads, InTransaction
  <2>3. n \in 0 .. LastDay
    BY DEF Serving, TypeOK
  <2> QED
    BY <2>1, <2>2, <2>3
<1>2. /\ pc' = pc /\ request' = request /\ frame' = frame
      /\ dailyPrice' = dailyPrice /\ records' = records
      /\ upserted'[w] = n + 1
      /\ \A v \in Workers : v # w => upserted'[v] = upserted[v] /\ inserted'[v] = inserted[v]
  BY DEF UpsertRow, tables, Serving, TypeOK
<1>3. inserted'[w] = inserted[w] + IF dailyPrice[t][day] = NoRow THEN 1 ELSE 0
  <2>1. inserted \in [Workers -> 0 .. LastDay] /\ inserted[w] + 0 = inserted[w]
    <3>1. inserted \in [Workers -> 0 .. LastDay]
      BY DEF Serving, TypeOK
    <3>2. inserted[w] \in 0 .. LastDay
      BY <3>1
    <3> QED
      BY <3>1, <3>2
  <2>2. inserted' = IF dailyPrice[t][day] = NoRow
                    THEN [inserted EXCEPT ![w] = @ + 1] ELSE inserted
    BY DEF UpsertRow, SoundRows, Rows
  <2> HIDE DEF t, day
  <2> QED
    BY <2>1, <2>2
<1>4. \A v \in Workers \ {w} : pc[v] \in InTransaction /\ request[v].ticker = t => day \notin Held(v)
  <2> SUFFICES ASSUME NEW v \in Workers \ {w}, pc[v] \in InTransaction, request[v].ticker = t,
                      day \in Held(v)
               PROVE  FALSE
    OBVIOUS
  <2>1. \E k \in 1 .. upserted[v] : Rows(frame[v])[k].trade_date = day
    BY DEF Held, DaysOf
  <2>2. Holds(v, t, day)
    BY <2>1 DEF Holds, SoundRows, Rows
  <2>3. ~Holds(v, t, day)
    BY DEF UpsertRow, SoundRows, Rows
  <2> QED
    BY <2>2, <2>3
<1>5. DaysOf(f, n + 1) = DaysOf(f, n) \cup {day}
  BY <1>1, NextDay
<1> HIDE DEF f, n, t, day
<1>6. HeldAlone'
  <2>1. ASSUME NEW v \in Workers, v # w, pc[v] \in InTransaction, request[v].ticker = t
        PROVE  Held(v) \cap DaysOf(f, n + 1) = {}
    <3>1. Held(v) \cap DaysOf(f, n) = {}
      BY <1>1, <2>1 DEF Counting, HeldAlone, Held, InTransaction, f, n, t
    <3> QED
      BY <1>4, <1>5, <2>1, <3>1
  <2> SUFFICES ASSUME NEW u \in Workers, NEW v \in Workers, u # v,
                      pc[u] \in InTransaction, pc[v] \in InTransaction,
                      request[u].ticker = request[v].ticker
               PROVE  DaysOf(frame[u], upserted'[u]) \cap DaysOf(frame[v], upserted'[v]) = {}
    BY <1>2 DEF HeldAlone, Held
  <2>2. CASE u = w
    BY <1>2, <2>1, <2>2 DEF Held, f, t
  <2>3. CASE v = w
    BY <1>2, <2>1, <2>3 DEF Held, f, t
  <2>4. CASE u # w /\ v # w
    BY <1>2, <2>4 DEF Counting, HeldAlone, Held
  <2> QED
    BY <2>2, <2>3, <2>4
<1>7. Counted'
  <2> SUFFICES ASSUME NEW v \in Workers, pc[v] \in InTransaction
               PROVE  inserted'[v] = Cardinality(NewDays(dailyPrice, request[v].ticker,
                                                         frame[v], upserted'[v]))
    BY <1>2 DEF Counted, New
  <2>1. CASE v # w
    BY <1>2, <2>1 DEF Counting, Counted, New
  <2>2. CASE v = w
    <3>1. inserted[w] = Cardinality(NewDays(dailyPrice, t, f, n))
      BY <2>2 DEF Counting, Counted, New, f, n, t
    <3>2. Cardinality(NewDays(dailyPrice, t, f, n + 1))
            = Cardinality(NewDays(dailyPrice, t, f, n))
                + IF dailyPrice[t][day] = NoRow THEN 1 ELSE 0
      BY <1>1, NewDaysCount DEF day, f, n
    <3>3. inserted'[w] = Cardinality(NewDays(dailyPrice, t, f, n + 1))
      BY <1>3, <3>1, <3>2, Zenon
    <3> QED
      BY <1>2, <2>2, <3>3 DEF f, t
  <2> QED
    BY <2>1, <2>2
<1>8. SlotsCounted'
  BY <1>2 DEF Counting, SlotsCounted
<1> QED
  BY <1>6, <1>7, <1>8 DEF Counting

LEMMA CountingRecordFailed ==
  ASSUME Serving, Counting, NEW w \in Workers, RecordFailed(w) PROVE Counting'
<1> DEFINE rec == Record(w, 0, "failed")
<1>1. pc[w] = "recordFailed" /\ Finish(w) /\ dailyPrice' = dailyPrice
      /\ (records' = records \/ records' = records \cup {rec})
  BY DEF RecordFailed
<1>2. \A v \in Workers : pc'[v] \in InTransaction =>
        /\ pc[v] \in InTransaction /\ request'[v] = request[v] /\ frame'[v] = frame[v]
        /\ upserted'[v] = upserted[v] /\ inserted'[v] = inserted[v]
  BY <1>1 DEF Finish, Goto, Serving, TypeOK, InTransaction
<1>3. HeldAlone'
  BY <1>2 DEF Counting, HeldAlone, Held
<1>4. Counted'
  BY <1>1, <1>2 DEF Counting, Counted, New
<1>5. rec \in CollectionRun /\ rec.run_id = request[w].run_id /\ rec.inserted_rows = inserted[w]
  BY <1>1, Bounds, RecordTyped
<1>6. inserted[w] = 0
  <2>1. inserted[w] \in 0 .. LastDay /\ LastDay \in Nat
    BY Bounds DEF Serving, TypeOK
  <2>2. inserted[w] <= 0
    BY <1>1 DEF Serving, Threads, InTransaction
  <2> QED
    BY <2>1, <2>2
<1>7. rec \notin records /\ records \subseteq CollectionRun
  <2>1. \A r \in records : r.run_id # request[w].run_id
    BY <1>1, Request DEF Used
  <2> QED
    BY <1>5, <2>1 DEF Serving, TypeOK
<1> HIDE DEF rec
<1>8. SlotsCounted'
  <2> SUFFICES ASSUME NEW t \in Tickers
               PROVE  /\ IsFiniteSet(Slots(records', t))
                      /\ Cardinality(Slots(records', t)) = Cardinality(Filled(dailyPrice, t))
    BY <1>1 DEF SlotsCounted
  <2>1. /\ IsFiniteSet(Slots(records, t))
        /\ Cardinality(Slots(records, t)) = Cardinality(Filled(dailyPrice, t))
    BY DEF Counting, SlotsCounted
  <2>2. Cardinality(Slots(records, t)) \in Nat
    BY <2>1, FS_CardinalityType
  <2>3. CASE records' = records \cup {rec}
    <3>1. /\ IsFiniteSet(Slots(records \cup {rec}, t))
          /\ Cardinality(Slots(records \cup {rec}, t))
               = Cardinality(Slots(records, t)) + IF rec.ticker = t THEN rec.inserted_rows ELSE 0
      BY <1>5, <1>7, <2>1, SlotsOfOneMore
    <3>2. Cardinality(Slots(records \cup {rec}, t)) = Cardinality(Slots(records, t))
      BY <1>5, <1>6, <2>2, <3>1
    <3> QED
      BY <2>1, <2>3, <3>1, <3>2, Zenon
  <2> QED
    BY <1>1, <2>1, <2>3
<1> QED
  BY <1>3, <1>4, <1>8 DEF Counting

LEMMA CountingCommitted ==
  ASSUME Serving, Counting, NEW w \in Workers, pc[w] = "commit", Committed(w), Finish(w)
  PROVE  Counting'
<1> DEFINE f == frame[w]
           n == upserted[w]
           ticker == request[w].ticker
           days == DaysOf(frame[w], upserted[w])
           rec == Record(w, upserted[w] - inserted[w], Outcome(w))
<1>1. /\ f \in Frames /\ n = Len(Rows(f))
      /\ \A d \in days : dailyPrice'[ticker][d] # NoRow
      /\ \A t \in Tickers, d \in Days :
           ~(t = ticker /\ d \in days) => dailyPrice'[t][d] = dailyPrice[t][d]
      /\ records' = records \cup {rec}
  BY CommittedTables, Zenon
<1>2. /\ pc'[w] = "idle"
      /\ \A v \in Workers : v # w =>
           /\ pc'[v] = pc[v] /\ request'[v] = request[v] /\ frame'[v] = frame[v]
           /\ upserted'[v] = upserted[v] /\ inserted'[v] = inserted[v]
  BY DEF Finish, Goto, Serving, TypeOK
<1>3. HeldAlone'
  BY <1>2 DEF Counting, HeldAlone, Held, InTransaction
<1>4. ASSUME NEW v \in Workers, v # w, pc[v] \in InTransaction
      PROVE  NewDays(dailyPrice', request[v].ticker, frame[v], upserted[v]) = New(v)
  <2>1. request[v].ticker \in Tickers /\ frame[v] \in Frames
        /\ upserted[v] \in 0 .. Len(Rows(frame[v]))
    <3>1. pc[v] # "idle" /\ frame[v] \in Frames /\ upserted[v] <= Len(Rows(frame[v]))
      BY <1>4 DEF Serving, Threads, InTransaction
    <3>2. upserted[v] \in 0 .. LastDay /\ Len(Rows(frame[v])) \in 0 .. LastDay
      BY <3>1, RowsFitDays DEF Serving, TypeOK
    <3>3. upserted[v] \in 0 .. Len(Rows(frame[v]))
      BY <3>1, <3>2
    <3>4. request[v].ticker \in Tickers
      BY <3>1, Request
    <3> QED
      BY <3>1, <3>3, <3>4
  <2>2. Held(v) \subseteq Days
    BY <2>1, DaysCount DEF Held
  <2>3. request[v].ticker = ticker => Held(v) \cap days = {}
    BY <1>4 DEF Counting, HeldAlone, Held, InTransaction
  <2>4. \A d \in Held(v) : dailyPrice'[request[v].ticker][d] = dailyPrice[request[v].ticker][d]
    BY <1>1, <2>1, <2>2, <2>3
  <2> QED
    BY <2>4 DEF New, NewDays, Held
<1>5. Counted'
  <2> SUFFICES ASSUME NEW v \in Workers, pc'[v] \in InTransaction
               PROVE  inserted'[v] = Cardinality(NewDays(dailyPrice', request'[v].ticker,
                                                         frame'[v], upserted'[v]))
    BY DEF Counted, New
  <2>1. v # w
    BY <1>2 DEF InTransaction
  <2> QED
    BY <1>2, <1>4, <2>1 DEF Counting, Counted
<1>6. /\ rec \in CollectionRun /\ rec.run_id = request[w].run_id /\ rec.ticker = ticker
      /\ rec.inserted_rows = inserted[w]
  <2>1. PICK m \in 0 .. LastDay : m = upserted[w] - inserted[w]
    BY CommittedTables, Zenon
  <2>2. PICK status \in {"success", "partial", "failed"} : status = Outcome(w)
    <3>1. Outcome(w) \in {"success", "partial"}
      BY CommittedTables, Zenon
    <3> QED
      BY <3>1
  <2>3. rec = Record(w, m, status)
    BY <2>1, <2>2, Zenon
  <2>4. pc[w] # "idle"
    OBVIOUS
  <2> HIDE DEF rec
  <2> QED
    BY <2>3, <2>4, RecordTyped
<1>7. rec \notin records /\ records \subseteq CollectionRun
  <2>1. \A r \in records : r.run_id # request[w].run_id
    BY Request DEF Used
  <2> HIDE DEF rec
  <2> QED
    BY <1>6, <2>1 DEF Serving, TypeOK
<1>8. inserted[w] = Cardinality(NewDays(dailyPrice, ticker, f, n))
  BY DEF Counting, Counted, New, InTransaction
<1>9. days \subseteq Days /\ IsFiniteSet(NewDays(dailyPrice, ticker, f, n))
      /\ NewDays(dailyPrice, ticker, f, n) = {d \in days : dailyPrice[ticker][d] = NoRow}
  <2>1. n \in 0 .. Len(Rows(f))
    BY <1>1, RowsOfFrames
  <2>2. days \subseteq Days
    BY <1>1, <2>1, DaysCount
  <2>3. IsFiniteSet(NewDays(dailyPrice, ticker, f, n))
    BY <1>1, <2>1, NewDaysCount
  <2> QED
    BY <2>2, <2>3 DEF NewDays
<1>10. ticker \in Tickers
  BY Request
<1> HIDE DEF f, n, ticker, days, rec
<1>11. ASSUME NEW t \in Tickers
       PROVE  /\ IsFiniteSet(Filled(dailyPrice, t)) /\ Cardinality(Filled(dailyPrice, t)) \in Nat
              /\ Cardinality(Filled(dailyPrice', t)) = Cardinality(Filled(dailyPrice, t))
                   + IF ticker = t THEN inserted[w] ELSE 0
  <2>1. IsFiniteSet(Days)
    BY Bounds, IntervalSize DEF Days
  <2>2. Filled(dailyPrice, t) \in SUBSET Days
    BY DEF Filled
  <2>3. IsFiniteSet(Filled(dailyPrice, t)) /\ Cardinality(Filled(dailyPrice, t)) \in Nat
    BY <2>1, <2>2, FS_Subset, FS_CardinalityType
  <2>4. CASE ticker = t
    <3> DEFINE new == {d \in days : dailyPrice[ticker][d] = NoRow}
    <3>1. Filled(dailyPrice', t) = Filled(dailyPrice, t) \cup new
      BY <1>1, <1>9, <2>4 DEF Filled
    <3>2. Filled(dailyPrice, t) \cap new = {}
      BY <2>4 DEF Filled
    <3>3. IsFiniteSet(new) /\ Cardinality(new) = inserted[w]
      BY <1>8, <1>9
    <3> HIDE DEF new
    <3>4. Cardinality(Filled(dailyPrice, t) \cup new)
            = Cardinality(Filled(dailyPrice, t)) + Cardinality(new)
      BY <2>3, <3>2, <3>3, DisjointUnion
    <3> QED
      BY <2>3, <2>4, <3>1, <3>3, <3>4
  <2>5. CASE ticker # t
    <3>1. Filled(dailyPrice', t) = Filled(dailyPrice, t)
      BY <1>1, <2>5 DEF Filled
    <3> QED
      BY <2>3, <2>5, <3>1
  <2> QED
    BY <2>4, <2>5
<1>12. SlotsCounted'
  <2> SUFFICES ASSUME NEW t \in Tickers
               PROVE  /\ IsFiniteSet(Slots(records', t))
                      /\ Cardinality(Slots(records', t)) = Cardinality(Filled(dailyPrice', t))
    BY DEF SlotsCounted
  <2>1. /\ IsFiniteSet(Slots(records, t))
        /\ Cardinality(Slots(records, t)) = Cardinality(Filled(dailyPrice, t))
    BY DEF Counting, SlotsCounted
  <2>2. /\ IsFiniteSet(Slots(records \cup {rec}, t))
        /\ Cardinality(Slots(records \cup {rec}, t))
             = Cardinality(Slots(records, t)) + IF rec.ticker = t THEN rec.inserted_rows ELSE 0
    BY <1>6, <1>7, <2>1, SlotsOfOneMore
  <2> QED
    BY <1>1, <1>6, <1>11, <2>1, <2>2
<1> QED
  BY <1>3, <1>5, <1>12 DEF Counting

LEMMA CountingNext == Serving /\ Counting /\ [Next]_vars => Counting'
<1> SUFFICES ASSUME Serving, Counting, [Next]_vars PROVE Counting'
  OBVIOUS
<1>1. ASSUME NEW w \in Workers, NEW t \in Tickers, Collect(w, t) PROVE Counting'
  BY <1>1, CountingQuietly DEF Collect, Goto, Serving, TypeOK, InTransaction
<1>2. ASSUME NEW w \in Workers, Step(w) PROVE Counting'
  <2>1. CASE AcquireGuard(w)
    BY <2>1, CountingQuietly DEF AcquireGuard, Goto, Serving, TypeOK, InTransaction
  <2>2. CASE Redirect(w)
    BY <2>2, CountingQuietly DEF Redirect, Goto, Serving, TypeOK, InTransaction
  <2>3. CASE Fetch(w)
    BY <2>3, CountingQuietly DEF Fetch, Goto, Serving, TypeOK, InTransaction
  <2>4. CASE Restore(w)
    BY <2>4, CountingQuietly DEF Restore, Goto, Serving, TypeOK, InTransaction
  <2>5. CASE Release(w)
    <3>1. /\ UNCHANGED tables /\ request' = request /\ frame' = frame
          /\ upserted' = upserted /\ inserted' = inserted
          /\ pc[w] = "release" /\ (pc'[w] \in InTransaction => frame[w] \in Frames)
          /\ \A v \in Workers : v # w => pc'[v] = pc[v]
      BY <2>5 DEF Release, Goto, Serving, TypeOK, InTransaction
    <3>2. upserted[w] = 0 /\ inserted[w] = 0
      <4>1. inserted[w] \in 0 .. LastDay /\ LastDay \in Nat
        BY Bounds DEF Serving, TypeOK
      <4>2. upserted[w] = 0 /\ inserted[w] <= upserted[w]
        BY <3>1 DEF Serving, Threads, InTransaction
      <4> QED
        BY <4>1, <4>2
    <3> QED
      BY <3>1, <3>2, CountingQuietly
  <2>6. CASE RecordFailed(w)
    BY <2>6, CountingRecordFailed
  <2>7. CASE UpsertRow(w)
    BY <2>7, CountingUpsert
  <2>8. CASE EndLoop(w)
    BY <2>8, CountingQuietly DEF EndLoop, Goto, Serving, TypeOK, InTransaction
  <2>9. CASE Commit(w)
    BY <2>9, CountingCommitted DEF Commit
  <2> QED
    BY <1>2, <2>1, <2>2, <2>3, <2>4, <2>5, <2>6, <2>7, <2>8, <2>9 DEF Step
<1>3. ASSUME NEW w \in Workers, Rollback(w) PROVE Counting'
  <2>1. CASE UNCHANGED tables
    BY <1>3, <2>1, CountingQuietly DEF Rollback, Finish, Goto, Serving, TypeOK, InTransaction
  <2>2. CASE pc[w] = "commit" /\ Committed(w)
    BY <1>3, <2>2, CountingCommitted DEF Rollback
  <2> QED
    BY <1>3, <2>1, <2>2 DEF Rollback
<1>4. CASE Restart
  BY <1>4, CountingQuietly DEF Restart, InTransaction
<1>5. CASE UNCHANGED vars
  BY <1>5, CountingQuietly DEF vars, tables
<1> QED
  BY <1>1, <1>2, <1>3, <1>4, <1>5 DEF Next

-----------------------------------------------------------------------------
(* The theorems *)

LEMMA TellingInit == Init => Telling
BY DEF Init, Telling, RowsNameTheirRun, ClientsAreToldTheTruth

LEMMA CountingInit == Init => Counting
<1> SUFFICES ASSUME Init PROVE Counting
  OBVIOUS
<1>1. HeldAlone /\ Counted
  BY DEF Init, HeldAlone, Counted, InTransaction
<1>2. ASSUME NEW t \in Tickers PROVE Slots(records, t) = {} /\ Filled(dailyPrice, t) = {}
  BY DEF Init, Slots, Filled
<1>3. SlotsCounted
  BY <1>2, FS_EmptySet DEF SlotsCounted
<1> QED
  BY <1>1, <1>3 DEF Counting

\* The three invariants hold in every reachable state, for all the parameters
\* (market_data.py:24-196).
THEOREM Invariants == Spec => [](Serving /\ Telling /\ Counting)
<1>1. Init => Serving /\ Telling /\ Counting
  BY ServingInit, TellingInit, CountingInit
<1>2. (Serving /\ Telling /\ Counting) /\ [Next]_vars => (Serving /\ Telling /\ Counting)'
  BY ServingNext, TellingNext, CountingNext
<1> QED
  BY <1>1, <1>2, PTL DEF Spec

\* Every table and every thread stays of its type, however many rows a frame has: a
\* transaction upserts no more rows than there are days (market_data.py:62-109, 135-148).
THEOREM TypeCorrect == Spec => []TypeOK
<1>1. Serving => TypeOK
  BY DEF Serving
<1> QED
  BY <1>1, Invariants, PTL

\* The streams of the process are put back whatever the threads do (market_data.py:27-46).
THEOREM StreamsComeBack == Spec => []StreamsAreRestored
<1>1. Serving => StreamsAreRestored
  BY DEF Serving, StreamsHeld, StreamsAreRestored
<1> QED
  BY <1>1, Invariants, PTL

\* Every price names a recorded run of its stock that did not fail (market_data.py:134-158).
THEOREM PricesAreTraced == Spec => []RowsNameTheirRun
<1>1. Telling => RowsNameTheirRun
  BY DEF Telling
<1> QED
  BY <1>1, Invariants, PTL

\* What the client of a collection was told stays true (views.py:301-311, 377-386).
THEOREM AnswersStayTrue == Spec => []ClientsAreToldTheTruth
<1>1. Telling => ClientsAreToldTheTruth
  BY DEF Telling
<1> QED
  BY <1>1, Invariants, PTL

\* The inserted_rows of the runs of a stock add up to its rows, however many transactions
\* upsert the same days (market_data.py:135-148).
THEOREM RowsAreInsertedOnce == Spec => []InsertedOnce
<1>1. Counting => InsertedOnce
  BY DEF Counting, SlotsCounted, InsertedOnce, Slots, Filled
<1> QED
  BY <1>1, Invariants, PTL

-----------------------------------------------------------------------------
(* No deadlock, and an end *)

\* The rows of a frame come in the order of their days, no two of one day.
LEMMA RowsAscend ==
  ASSUME NEW f \in Frames, NEW k \in 1 .. Len(Rows(f)), NEW l \in 1 .. Len(Rows(f)), k < l
  PROVE  Rows(f)[k].trade_date < Rows(f)[l].trade_date
<1>1. IsFrame(f) /\ 1 \in Int /\ LastDay \in Int
  BY MarketAssumption DEF IsFrame
<1>2. /\ DOMAIN Rows(f) = 1 .. Len(Rows(f))
      /\ \A m, n \in DOMAIN Rows(f) : m < n =>
           \E i, j \in Kept(f, 1, LastDay) : i < j /\ Rows(f)[m] = f[i] /\ Rows(f)[n] = f[j]
  <2>1. LET rows == ValidRows(f, 1, LastDay)
        IN  /\ DOMAIN rows = 1 .. Len(rows)
            /\ \A m, n \in DOMAIN rows : m < n =>
                 \E i, j \in Kept(f, 1, LastDay) : i < j /\ rows[m] = f[i] /\ rows[n] = f[j]
    BY <1>1, ValidRowsAreKept
  <2> QED
    BY <2>1 DEF Rows
<1>3. PICK i \in Kept(f, 1, LastDay), j \in Kept(f, 1, LastDay) :
        i < j /\ Rows(f)[k] = f[i] /\ Rows(f)[l] = f[j]
  BY <1>2
<1>4. f[i].trade_date <= f[j].trade_date
  BY <1>3, FramesAreSorted DEF Kept
<1>5. /\ Rows(f)[k].trade_date # Rows(f)[l].trade_date
      /\ Rows(f)[k].trade_date \in Days /\ Rows(f)[l].trade_date \in Days
  BY RowsOfFrames
<1>6. LastDay \in Nat
  BY Bounds
<1> QED
  BY <1>3, <1>4, <1>5, <1>6 DEF Days

\* How far the transaction of a thread has come: the day it writes next.
Ahead(w) ==
  IF upserted[w] < Len(Rows(frame[w])) THEN Rows(frame[w])[upserted[w] + 1].trade_date
  ELSE LastDay + 1

LEMMA Progress ==
  ASSUME Serving, NEW w \in Workers, pc[w] \in InTransaction
  PROVE  /\ frame[w] \in Frames
         /\ upserted[w] \in Nat /\ upserted[w] <= LastDay /\ LastDay \in Nat
         /\ upserted[w] <= Len(Rows(frame[w])) /\ Len(Rows(frame[w])) \in Nat
         /\ Len(Rows(frame[w])) <= LastDay
         /\ \A l \in 1 .. Len(Rows(frame[w])) : Rows(frame[w])[l].trade_date \in Days
<1>1. frame[w] \in Frames /\ upserted[w] <= Len(Rows(frame[w]))
  BY DEF Serving, Threads
<1>2. upserted[w] \in 0 .. LastDay /\ LastDay \in Nat
  BY Bounds DEF Serving, TypeOK
<1>3. Len(Rows(frame[w])) \in 0 .. LastDay
  BY <1>1, RowsFitDays
<1>4. \A l \in 1 .. Len(Rows(frame[w])) : Rows(frame[w])[l].trade_date \in Days
  BY <1>1, RowsOfFrames
<1> QED
  BY <1>1, <1>2, <1>3, <1>4

\* Who waits for a row waits for a transaction that is further on.
LEMMA WaitsForFurther ==
  ASSUME Serving, NEW w \in Workers, pc[w] \in InTransaction, NEW v \in Workers, WaitsFor(w, v)
  PROVE  /\ pc[v] \in InTransaction
         /\ request[v].ticker = request[w].ticker
         /\ Ahead(w) < Ahead(v)
<1> DEFINE rows == Rows(frame[v])
           day == Rows(frame[w])[upserted[w] + 1].trade_date
<1>1. /\ upserted[w] < Len(Rows(frame[w])) /\ Ahead(w) = day
      /\ pc[v] \in InTransaction /\ request[v].ticker = request[w].ticker
      /\ \E k \in 1 .. upserted[v] : rows[k].trade_date = day
  BY DEF WaitsFor, Holds, InTransaction, SoundRows, Rows, Ahead
<1>2. PICK k \in 1 .. upserted[v] : rows[k].trade_date = day
  BY <1>1
<1>3. /\ frame[v] \in Frames /\ upserted[v] \in Nat /\ upserted[v] <= Len(rows)
      /\ Len(rows) \in Nat /\ LastDay \in Nat
      /\ \A l \in 1 .. Len(rows) : rows[l].trade_date \in Days
  BY <1>1, Progress
<1>4. k \in 1 .. Len(rows) /\ day \in Days
  BY <1>2, <1>3
<1> HIDE DEF day
<1>5. CASE upserted[v] < Len(rows)
  <2>1. upserted[v] + 1 \in 1 .. Len(rows) /\ k < upserted[v] + 1
    BY <1>2, <1>3, <1>5
  <2>2. rows[k].trade_date < rows[upserted[v] + 1].trade_date
    BY <1>3, <1>4, <2>1, RowsAscend
  <2>3. Ahead(v) = rows[upserted[v] + 1].trade_date
    BY <1>5 DEF Ahead
  <2> QED
    BY <1>1, <1>2, <2>2, <2>3
<1>6. CASE ~ (upserted[v] < Len(rows))
  <2>1. Ahead(v) = LastDay + 1
    BY <1>6 DEF Ahead
  <2>2. day < LastDay + 1
    BY <1>3, <1>4 DEF Days
  <2> QED
    BY <1>1, <2>1, <2>2
<1> QED
  BY <1>5, <1>6

LEMMA AheadType ==
  ASSUME Serving, NEW w \in Workers, pc[w] \in InTransaction
  PROVE  Ahead(w) \in Nat /\ Ahead(w) <= LastDay + 1
<1>1. /\ frame[w] \in Frames /\ upserted[w] \in Nat /\ LastDay \in Nat
      /\ Len(Rows(frame[w])) \in Nat
      /\ \A l \in 1 .. Len(Rows(frame[w])) : Rows(frame[w])[l].trade_date \in Days
  BY Progress
<1>2. CASE upserted[w] < Len(Rows(frame[w]))
  <2>1. upserted[w] + 1 \in 1 .. Len(Rows(frame[w]))
    BY <1>1, <1>2
  <2>2. Ahead(w) \in Days
    BY <1>1, <1>2, <2>1 DEF Ahead
  <2> QED
    BY <1>1, <2>2 DEF Days
<1>3. CASE ~ (upserted[w] < Len(Rows(frame[w])))
  BY <1>1, <1>3 DEF Ahead
<1> QED
  BY <1>2, <1>3

\* Of the transactions of a stock, the one that has come furthest waits for nobody.
LEMMA FurthestGoesOn ==
  ASSUME Serving, NEW w \in Workers, pc[w] \in InTransaction
  PROVE  \E v \in Workers : /\ pc[v] \in InTransaction
                            /\ request[v].ticker = request[w].ticker
                            /\ CanStep(v)
<1> DEFINE T == {v \in Workers : pc[v] \in InTransaction /\ request[v].ticker = request[w].ticker}
           Left == {LastDay + 1 - Ahead(v) : v \in T}
<1>1. LastDay \in Nat /\ \A v \in T : Ahead(v) \in Nat /\ Ahead(v) <= LastDay + 1
  BY AheadType, Bounds
<1>2. Left \subseteq Nat /\ Left # {}
  <2>1. \A v \in T : LastDay + 1 - Ahead(v) \in Nat
    BY <1>1
  <2>2. w \in T
    OBVIOUS
  <2> QED
    BY <2>1, <2>2
<1>3. PICK n \in Left : \A m \in Left : ~ (<<m, n>> \in OpToRel(<, Nat))
  BY <1>2, NatLessThanWellFounded, WFMin
<1>4. \A m \in Left : ~ (m < n)
  BY <1>2, <1>3 DEF OpToRel
<1>5. PICK v \in T : n = LastDay + 1 - Ahead(v)
  OBVIOUS
<1>6. ASSUME NEW x \in Workers PROVE ~WaitsFor(v, x)
  <2> SUFFICES ASSUME WaitsFor(v, x) PROVE FALSE
    OBVIOUS
  <2>1. x \in T /\ Ahead(v) < Ahead(x)
    BY WaitsForFurther
  <2>2. ~ (LastDay + 1 - Ahead(x) < LastDay + 1 - Ahead(v))
    BY <1>4, <1>5, <2>1
  <2> QED
    BY <1>1, <2>1, <2>2
<1>7. CanStep(v)
  BY <1>6 DEF CanStep, InTransaction
<1> QED
  BY <1>7

\* Collections never wait in a circle, for any number of threads and stocks: each transaction
\* writes its rows in the order of the days, so who waits for a row waits for one that has
\* come further, and a call of pykrx that hangs stops nobody who has left the guard
\* (market_data.py:45, 135-137).
THEOREM NoDeadlock == Spec => []NobodyWaitsInACircle
<1>1. Serving => NobodyWaitsInACircle
  <2> SUFFICES ASSUME Serving PROVE NobodyWaitsInACircle
    OBVIOUS
  <2>1. ASSUME NEW w \in guard PROVE CanStep(w)
    <3>1. w \in Workers /\ pc[w] \in {"redirect", "fetch", "restore", "release"}
      BY DEF Serving, TypeOK, GuardAlone
    <3> QED
      BY <3>1 DEF CanStep, WaitsFor
  <2> QED
    BY <2>1, FurthestGoesOn DEF NobodyWaitsInACircle
<1> QED
  BY <1>1, Invariants, PTL

\* The steps a collection takes at most until it is answered.
StepsLeft(w) ==
  CASE pc[w] = "acquire"                     -> LastDay + 7
    [] pc[w] = "redirect"                    -> LastDay + 6
    [] pc[w] = "fetch"                       -> LastDay + 5
    [] pc[w] = "restore"                     -> LastDay + 4
    [] pc[w] = "release"                     -> LastDay + 3
    [] pc[w] = "upsert"                      -> Len(Rows(frame[w])) - upserted[w] + 2
    [] pc[w] \in {"commit", "recordFailed"}  -> 1
    [] pc[w] = "idle"                        -> 0

LEMMA StepsLeftType ==
  ASSUME Serving, NEW w \in Workers
  PROVE  /\ StepsLeft(w) \in 0 .. LastDay + 7
         /\ pc[w] # "idle" => StepsLeft(w) > 0
<1>1. LastDay \in Nat
  BY Bounds
<1>2. /\ pc[w] \in InTransaction => /\ upserted[w] \in Nat /\ Len(Rows(frame[w])) \in Nat
                                    /\ upserted[w] <= Len(Rows(frame[w]))
                                    /\ Len(Rows(frame[w])) <= LastDay
      /\ pc[w] \in {"idle", "acquire", "redirect", "fetch", "restore", "release",
                    "recordFailed"} \cup InTransaction
  BY Progress DEF Serving, TypeOK
<1> QED
  BY <1>1, <1>2 DEF StepsLeft, InTransaction

\* A step of the thread itself brings it nearer to its answer.
LEMMA OwnStepAdvances ==
  ASSUME Serving, NEW w \in Workers, Step(w)
  PROVE  StepsLeft(w)' < StepsLeft(w) /\ StepsLeft(w)' <= StepsLeft(w)
<1>1. LastDay \in Nat
  BY Bounds
<1>2. pc \in [Workers -> {"idle", "acquire", "redirect", "fetch", "restore", "release",
                         "recordFailed"} \cup InTransaction]
      /\ upserted \in [Workers -> 0 .. LastDay]
  BY DEF Serving, TypeOK
<1>3. CASE AcquireGuard(w) \/ Redirect(w) \/ Fetch(w) \/ Restore(w)
  BY <1>1, <1>2, <1>3 DEF StepsLeft, AcquireGuard, Redirect, Fetch, Restore, Goto
<1>4. CASE Release(w)
  <2>1. pc[w] = "release" /\ frame' = frame /\ upserted' = upserted
        /\ pc'[w] = IF frame[w] = NoFrame THEN "recordFailed" ELSE "upsert"
    BY <1>2, <1>4 DEF Release, Goto
  <2>2. upserted[w] = 0
    BY <2>1 DEF Serving, Threads, InTransaction
  <2>3. frame[w] # NoFrame => Len(Rows(frame[w])) \in 0 .. LastDay
    BY RowsFitDays DEF Serving, TypeOK
  <2> QED
    BY <1>1, <2>1, <2>2, <2>3 DEF StepsLeft
<1>5. CASE RecordFailed(w) \/ Commit(w)
  <2>1. pc[w] \in {"commit", "recordFailed"} /\ pc'[w] = "idle"
    BY <1>2, <1>5 DEF RecordFailed, Commit, Finish, Goto
  <2>2. StepsLeft(w) = 1 /\ StepsLeft(w)' = 0
    BY <2>1 DEF StepsLeft
  <2> QED
    BY <2>2
<1>6. CASE UpsertRow(w)
  <2>1. pc[w] = "upsert" /\ frame' = frame /\ pc' = pc /\ upserted'[w] = upserted[w] + 1
    BY <1>2, <1>6 DEF UpsertRow
  <2>2. upserted[w] \in Nat /\ Len(Rows(frame[w])) \in Nat
    BY <2>1, Progress DEF InTransaction
  <2> QED
    BY <2>1, <2>2 DEF StepsLeft
<1>7. CASE EndLoop(w)
  <2>1. pc[w] = "upsert" /\ pc'[w] = "commit"
    BY <1>2, <1>7 DEF EndLoop, Goto
  <2>2. upserted[w] \in Nat /\ Len(Rows(frame[w])) \in Nat /\ upserted[w] <= Len(Rows(frame[w]))
    BY <2>1, Progress DEF InTransaction
  <2> QED
    BY <2>1, <2>2 DEF StepsLeft
<1> QED
  BY <1>3, <1>4, <1>5, <1>6, <1>7 DEF Step

\* No step of another thread, and nothing that ends a request, takes it back.
LEMMA NoStepTakesBack ==
  ASSUME Serving, [Next]_vars, NEW w \in Workers, pc[w] # "idle"
  PROVE  StepsLeft(w)' <= StepsLeft(w)
<1>1. LastDay \in Nat /\ StepsLeft(w) \in Nat /\ StepsLeft(w) > 0
  BY Bounds, StepsLeftType
<1>2. CASE pc'[w] = pc[w] /\ frame'[w] = frame[w] /\ upserted'[w] = upserted[w]
  <2>1. StepsLeft(w)' = StepsLeft(w)
    BY <1>2 DEF StepsLeft
  <2> QED
    BY <1>1, <2>1
<1>3. CASE pc'[w] = "idle"
  <2>1. StepsLeft(w)' = 0
    BY <1>3 DEF StepsLeft
  <2> QED
    BY <1>1, <2>1
<1>4. CASE Step(w)
  BY <1>4, OwnStepAdvances
<1>5. ASSUME NEW v \in Workers, NEW t \in Tickers, Collect(v, t)
      PROVE  pc'[w] = pc[w] /\ frame'[w] = frame[w] /\ upserted'[w] = upserted[w]
  BY <1>5 DEF Collect, Goto, Serving, TypeOK
<1>6. ASSUME NEW v \in Workers \ {w}, Step(v) \/ Rollback(v)
      PROVE  pc'[w] = pc[w] /\ frame'[w] = frame[w] /\ upserted'[w] = upserted[w]
  BY <1>6 DEF Step, Rollback, AcquireGuard, Redirect, Fetch, Restore, Release, RecordFailed,
              UpsertRow, EndLoop, Commit, Finish, Goto, Serving, TypeOK
<1>7. ASSUME Rollback(w) PROVE pc'[w] = "idle"
  BY <1>7 DEF Rollback, Finish, Goto, Serving, TypeOK
<1>8. ASSUME Restart PROVE pc'[w] = "idle"
  BY <1>8 DEF Restart
<1>9. ASSUME UNCHANGED vars PROVE pc' = pc /\ frame' = frame /\ upserted' = upserted
  BY <1>9 DEF vars
<1> QED
  BY <1>2, <1>3, <1>4, <1>5, <1>6, <1>7, <1>8, <1>9 DEF Next

StepsAreBounded ==
  /\ \A w \in Workers : StepsLeft(w) \in 0 .. LastDay + 7
  /\ \A w \in Workers : StepsLeft(w) = 0 => pc[w] = "idle"

EveryStepAdvances ==
  [][\A w \in Workers : pc[w] # "idle" =>
       /\ StepsLeft(w)' <= StepsLeft(w)
       /\ Step(w) => StepsLeft(w)' < StepsLeft(w)]_vars

\* A collection is answered after at most LastDay + 7 steps of its own thread, the loop over
\* the rows included, and what other threads do never makes them more.  With NoDeadlock this
\* is all that EveryCollectionAnswered needs beside fairness (market_data.py:126-196).
THEOREM CollectionsEnd == Spec => []StepsAreBounded /\ EveryStepAdvances
<1>1. Serving => StepsAreBounded
  BY StepsLeftType DEF StepsAreBounded
<1>2. Serving /\ [Next]_vars =>
        [\A w \in Workers : pc[w] # "idle" =>
           /\ StepsLeft(w)' <= StepsLeft(w)
           /\ Step(w) => StepsLeft(w)' < StepsLeft(w)]_vars
  BY NoStepTakesBack, OwnStepAdvances
<1> QED
  BY <1>1, <1>2, Invariants, PTL DEF Spec, EveryStepAdvances

-----------------------------------------------------------------------------
(* Refinement *)

\* PriceStore counts as FiniteSets does.
LEMMA SameCount == \A S : Promise!Cardinality(S) = Cardinality(S)
BY DEF Promise!Cardinality, Cardinality

LEMMA FreshRun ==
  ASSUME Serving, NEW w \in Workers, pc[w] # "idle"
  PROVE  Promise!Fresh(request[w].run_id)
BY Request DEF Used, Promise!Fresh

\* A commit stores the rows of its days in one step, and counts them rightly.
LEMMA CommitStores ==
  ASSUME Serving, Counting, NEW w \in Workers, pc[w] = "commit", Committed(w)
  PROVE  Promise!Next(Runs)
<1> DEFINE run == request[w].run_id
           ticker == request[w].ticker
           days == DaysOf(frame[w], upserted[w])
           new == {d \in days : dailyPrice[ticker][d] = NoRow}
<1>1. /\ frame[w] \in Frames /\ upserted[w] = Len(Rows(frame[w]))
      /\ dailyPrice \in Prices /\ dailyPrice' \in Prices
      /\ \A d \in days : /\ dailyPrice'[ticker][d] # NoRow
                         /\ dailyPrice'[ticker][d].collection_run_id = run
      /\ \A t \in Tickers, d \in Days :
           ~(t = ticker /\ d \in days) => dailyPrice'[t][d] = dailyPrice[t][d]
      /\ records' = records \cup {Record(w, upserted[w] - inserted[w], Outcome(w))}
      /\ Outcome(w) \in {"success", "partial"}
  BY CommittedTables, Zenon
<1>2. run \in Runs /\ ticker \in Tickers
  BY Request
<1>3. upserted[w] \in 0 .. Len(Rows(frame[w]))
  BY <1>1, RowsOfFrames
<1>4. days \subseteq Days /\ IsFiniteSet(days) /\ Cardinality(days) = upserted[w]
  BY <1>1, <1>3, DaysCount
<1>5. inserted[w] = Cardinality(new)
  BY DEF Counting, Counted, New, NewDays, InTransaction
<1> HIDE DEF run, ticker, days
<1>6. Cardinality(days \ new) = upserted[w] - inserted[w]
  <2>1. new \in SUBSET days /\ (days \ new) \in SUBSET days
    OBVIOUS
  <2>2. IsFiniteSet(new) /\ IsFiniteSet(days \ new)
    BY <1>4, <2>1, FS_Subset
  <2>3. new \cap (days \ new) = {} /\ new \cup (days \ new) = days
    OBVIOUS
  <2>4. Cardinality(days) = Cardinality(new) + Cardinality(days \ new)
    BY <2>2, <2>3, DisjointUnion
  <2>5. Cardinality(new) \in Nat /\ Cardinality(days \ new) \in Nat
    BY <2>2, FS_CardinalityType
  <2> HIDE DEF new
  <2> QED
    BY <1>4, <1>5, <2>4, <2>5
<1>7. dailyPrice' = [dailyPrice EXCEPT ![ticker] = [d \in Days |->
                       IF d \in days THEN dailyPrice'[ticker][d] ELSE @[d]]]
  <2> DEFINE after == [dailyPrice EXCEPT ![ticker] = [d \in Days |->
                         IF d \in days THEN dailyPrice'[ticker][d] ELSE dailyPrice[ticker][d]]]
  <2>1. after[ticker] = [d \in Days |->
                           IF d \in days THEN dailyPrice'[ticker][d] ELSE dailyPrice[ticker][d]]
        /\ \A t \in Tickers : t # ticker => after[t] = dailyPrice[t]
    BY <1>1, <1>2 DEF Prices
  <2>2. after = [t \in Tickers |-> after[t]]
    BY <1>1, <1>2 DEF Prices
  <2> HIDE DEF after
  <2>3. /\ dailyPrice' = [t \in Tickers |-> dailyPrice'[t]]
        /\ \A t \in Tickers : dailyPrice'[t] = [d \in Days |-> dailyPrice'[t][d]]
        /\ \A t \in Tickers : dailyPrice[t] = [d \in Days |-> dailyPrice[t][d]]
    BY <1>1 DEF Prices
  <2>4. ASSUME NEW t \in Tickers PROVE dailyPrice'[t] = after[t]
    <3>1. CASE t = ticker
      <4>1. \A d \in Days : dailyPrice'[ticker][d] =
              IF d \in days THEN dailyPrice'[ticker][d] ELSE dailyPrice[ticker][d]
        BY <1>1, <1>2
      <4> QED
        BY <1>2, <2>1, <2>3, <3>1, <4>1
    <3>2. CASE t # ticker
      <4>1. \A d \in Days : dailyPrice'[t][d] = dailyPrice[t][d]
        BY <1>1, <3>2
      <4>2. [d \in Days |-> dailyPrice'[t][d]] = [d \in Days |-> dailyPrice[t][d]]
        BY <4>1, Zenon
      <4>3. dailyPrice'[t] = dailyPrice[t]
        BY <2>3, <4>2, Zenon
      <4> QED
        BY <2>1, <3>2, <4>3
    <3> QED
      BY <3>1, <3>2
  <2>5. dailyPrice' = after
    <3>1. [t \in Tickers |-> dailyPrice'[t]] = [t \in Tickers |-> after[t]]
      BY <2>4, Zenon
    <3>2. dailyPrice' = [t \in Tickers |-> dailyPrice'[t]]
      BY <2>3, Zenon
    <3> QED
      BY <2>2, <3>1, <3>2
  <2> QED
    BY <2>5 DEF after
<1>8. records' = records \cup
        {[run_id |-> run, ticker |-> ticker, inserted_rows |-> Promise!Cardinality(new),
          updated_rows |-> Promise!Cardinality(days \ new), status |-> Outcome(w)]}
  <2> HIDE DEF new
  <2>1. Promise!Cardinality(new) = inserted[w]
        /\ Promise!Cardinality(days \ new) = upserted[w] - inserted[w]
    BY <1>5, <1>6, SameCount, Zenon
  <2> QED
    BY <1>1, <2>1, Zenon DEF Record, run, ticker
<1>9. Promise!Fresh(run)
  BY FreshRun DEF run
<1>10. Promise!Store(run, ticker, days)
  <2>1. \A d \in days : dailyPrice'[ticker][d] # NoRow /\ dailyPrice'[ticker][d].collection_run_id = run
    BY <1>1
  <2>2. \E status \in {"success", "partial"} :
          records' = records \cup
            {[run_id |-> run, ticker |-> ticker, inserted_rows |-> Promise!Cardinality(new),
              updated_rows |-> Promise!Cardinality(days \ new), status |-> status]}
    BY <1>1, <1>8, Zenon
  <2> SUFFICES
        /\ Promise!Fresh(run)
        /\ dailyPrice' = [dailyPrice EXCEPT ![ticker] = [d \in Days |->
                           IF d \in days THEN dailyPrice'[ticker][d] ELSE @[d]]]
        /\ \A d \in days : /\ dailyPrice'[ticker][d] # NoRow
                            /\ dailyPrice'[ticker][d].collection_run_id = run
        /\ \E status \in {"success", "partial"} :
             records' = records \cup
               {[run_id |-> run, ticker |-> ticker, inserted_rows |-> Promise!Cardinality(new),
                 updated_rows |-> Promise!Cardinality(days \ new), status |-> status]}
    BY DEF Promise!Store
  <2> HIDE DEF new
  <2> QED
    BY <1>7, <1>9, <2>1, <2>2
<1>11. days \in SUBSET Days
  BY <1>4
<1> HIDE DEF new
<1> QED
  BY <1>2, <1>10, <1>11 DEF Promise!Next

LEMMA FailureIsRecorded ==
  ASSUME Serving, NEW w \in Workers, RecordFailed(w)
  PROVE  Promise!Next(Runs) \/ UNCHANGED <<dailyPrice, records>>
<1>1. /\ pc[w] = "recordFailed" /\ dailyPrice' = dailyPrice
      /\ (records' = records \/ records' = records \cup {Record(w, 0, "failed")})
  BY DEF RecordFailed
<1>2. inserted[w] = 0
  <2>1. inserted[w] \in 0 .. LastDay /\ LastDay \in Nat
    BY Bounds DEF Serving, TypeOK
  <2>2. inserted[w] <= 0
    BY <1>1 DEF Serving, Threads, InTransaction
  <2> QED
    BY <2>1, <2>2
<1>3. request[w].run_id \in Runs /\ request[w].ticker \in Tickers /\ Promise!Fresh(request[w].run_id)
  BY <1>1, Request, FreshRun
<1>4. CASE records' = records \cup {Record(w, 0, "failed")}
  <2>1. Promise!Fail(request[w].run_id, request[w].ticker)
    BY <1>1, <1>2, <1>3, <1>4 DEF Promise!Fail, Record
  <2> QED
    BY <1>3, <2>1 DEF Promise!Next
<1> QED
  BY <1>1, <1>4

LEMMA StepsOfStore ==
  Serving /\ Counting /\ [Next]_vars => [Promise!Next(Runs)]_<<dailyPrice, records>>
<1> SUFFICES ASSUME Serving, Counting, [Next]_vars
             PROVE  Promise!Next(Runs) \/ UNCHANGED <<dailyPrice, records>>
  OBVIOUS
<1>1. ASSUME NEW w \in Workers, NEW t \in Tickers, Collect(w, t)
      PROVE  UNCHANGED <<dailyPrice, records>>
  BY <1>1 DEF Collect, tables
<1>2. ASSUME NEW w \in Workers, Step(w)
      PROVE  Promise!Next(Runs) \/ UNCHANGED <<dailyPrice, records>>
  <2>1. CASE AcquireGuard(w) \/ Redirect(w) \/ Fetch(w) \/ Restore(w) \/ Release(w)
             \/ UpsertRow(w) \/ EndLoop(w)
    BY <2>1 DEF AcquireGuard, Redirect, Fetch, Restore, Release, UpsertRow, EndLoop, tables
  <2>2. CASE RecordFailed(w)
    BY <2>2, FailureIsRecorded
  <2>3. CASE Commit(w)
    BY <2>3, CommitStores DEF Commit
  <2> QED
    BY <1>2, <2>1, <2>2, <2>3 DEF Step
<1>3. ASSUME NEW w \in Workers, Rollback(w)
      PROVE  Promise!Next(Runs) \/ UNCHANGED <<dailyPrice, records>>
  BY <1>3, CommitStores DEF Rollback, tables
<1>4. CASE Restart
  BY <1>4 DEF Restart, tables
<1>5. CASE UNCHANGED vars
  BY <1>5 DEF vars
<1> QED
  BY <1>1, <1>2, <1>3, <1>4, <1>5 DEF Next

\* Collections that interleave row by row implement PriceStore, where each is one step that
\* counts its rows as it stores them (market_data.py:126-182).
THEOREM Refinement == Spec => ImplementsPriceStore
<1>1. Init => Promise!Init
  BY DEF Init, Promise!Init
<1> QED
  BY <1>1, StepsOfStore, Invariants, PTL DEF Spec, ImplementsPriceStore

\* Run r is recorded in this step, and was not before.
RecordedNow(r, t) ==
  /\ \A record \in records : record.run_id # r
  /\ \E record \in records' : record.run_id = r /\ record.ticker = t

PricesChangeWithTheirRun ==
  [][/\ records \subseteq records'
     /\ \A t \in Tickers, d \in Days :
          \/ dailyPrice'[t][d] = dailyPrice[t][d]
          \/ /\ dailyPrice'[t][d] # NoRow
             /\ RecordedNow(dailyPrice'[t][d].collection_run_id, t)]_vars

\* A stored price never goes, nor does the record of a run; and a price appears or is
\* overwritten only in the step that records the run it names, which no page and no order
\* can have seen before.  This is what Portfolio and VirtualOrders take from the collection
\* of prices (market_data.py:134-158).
THEOREM PricesStay == Spec => PricesChangeWithTheirRun
<1> DEFINE PriceKept(t, d) == \/ dailyPrice'[t][d] = dailyPrice[t][d]
                              \/ /\ dailyPrice'[t][d] # NoRow
                                 /\ RecordedNow(dailyPrice'[t][d].collection_run_id, t)
<1>1. ASSUME dailyPrice \in Prices, NEW run \in Runs, NEW s \in Tickers,
             NEW stored \in SUBSET Days, Promise!Store(run, s, stored)
      PROVE  records \subseteq records' /\ \A t \in Tickers, d \in Days : PriceKept(t, d)
  <2>1. PICK record : record.run_id = run /\ record.ticker = s
                      /\ records' = records \cup {record}
    BY <1>1 DEF Promise!Store
  <2>2. RecordedNow(run, s)
    BY <1>1, <2>1 DEF RecordedNow, Promise!Store, Promise!Fresh
  <2>3. \A d \in stored : dailyPrice'[s][d] # NoRow /\ dailyPrice'[s][d].collection_run_id = run
    BY <1>1 DEF Promise!Store
  <2>4. \A t \in Tickers, d \in Days :
          ~(t = s /\ d \in stored) => dailyPrice'[t][d] = dailyPrice[t][d]
    BY <1>1 DEF Promise!Store, Prices
  <2> QED
    BY <2>1, <2>2, <2>3, <2>4
<1>2. ASSUME NEW run \in Runs, NEW s \in Tickers, Promise!Fail(run, s)
      PROVE  records \subseteq records' /\ dailyPrice' = dailyPrice
  BY <1>2 DEF Promise!Fail
<1>3. Serving /\ [Promise!Next(Runs)]_<<dailyPrice, records>> =>
        [records \subseteq records' /\ \A t \in Tickers, d \in Days : PriceKept(t, d)]_vars
  <2> SUFFICES ASSUME Serving, [Promise!Next(Runs)]_<<dailyPrice, records>>
               PROVE  records \subseteq records' /\ \A t \in Tickers, d \in Days : PriceKept(t, d)
    OBVIOUS
  <2>1. dailyPrice \in Prices
    BY DEF Serving, TypeOK, Prices
  <2> QED
    BY <1>1, <1>2, <2>1 DEF Promise!Next
<1> QED
  BY <1>3, StepsOfStore, Invariants, PTL DEF Spec, PricesChangeWithTheirRun

=============================================================================
