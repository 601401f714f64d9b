---------------------------- MODULE VirtualOrders ----------------------------
(***************************************************************************)
(* Virtual buy orders and the cash ledger: orders.py over the tables of    *)
(* models.py.                                                              *)
(*                                                                         *)
(* The web process serves requests with one thread each.  A thread runs    *)
(* create_order or execute_order one SQL statement at a time, and every    *)
(* statement sees what other threads have committed before it (PostgreSQL, *)
(* READ COMMITTED).  create_order is not a transaction: each statement     *)
(* commits by itself.  execute_order is one: its row locks last to the     *)
(* end, and its writes appear together, with the commit.                   *)
(*                                                                         *)
(* Row locks are not a variable: which rows a thread has locked follows    *)
(* from the statement it has reached.  Nor are uncommitted rows: no other  *)
(* thread reads them, and the commit derives them from the thread's reads. *)
(***************************************************************************)
EXTENDS LedgerSum

CONSTANTS
  Users,        \* the users who are logged in
  Workers,      \* the threads that serve requests
  Tickers,      \* the stocks
  LastDay,      \* the trading days are numbered 1 .. LastDay
  Batches,      \* what one collection may store: functions from days to opens
  Quantities,   \* the quantities orders ask for
  Policies,     \* the trading policies the settings may hold
  MaxOrders,    \* bound: how many orders are placed
  MaxRuns,      \* bound: how many collections are stored
  MaxBigInt,    \* the largest value a BIGINT column can hold
  NoUser, NoAccount, NoRow, NoExecution, NoRequest

Days     == 1 .. LastDay
OrderIds == 1 .. MaxOrders
Positive == {n \in Nat : n > 0}

\* A fee rate is the decimal fraction Decimal(str(rate)).
Policy == [initial_cash_krw : Positive,
           buy_fee_rate     : [num : Nat, den : Positive],
           slippage_bps     : Nat]

VARIABLES
  account,      \* virtual_accounts: the policy snapshot of every owner's account
  ledger,       \* cash_ledger_entries
  orders,       \* virtual_buy_orders, by primary key
  dailyPrice,   \* daily_prices, by (ticker, trade_date)
  runs,         \* how many collections are stored: the last one's collection_run_id
  stored,       \* history: every price ever stored, with the run that stored it
  pc,           \* the statement each thread executes next
  request,      \* the request each thread serves
  price,        \* the price row execute_order has read
  cash          \* the current_cash execute_order has read

tables  == <<account, ledger, orders, dailyPrice, runs, stored>>
threads == <<pc, request, price, cash>>
vars    == <<account, ledger, orders, dailyPrice, runs, stored, pc, request, price, cash>>

-----------------------------------------------------------------------------
(* Rows and requests *)

AbsentOrder == [status |-> "absent"]

Execution == [execution_trade_date    : Days,
              base_open_price_krw     : Positive,
              price_collection_run_id : 1 .. MaxRuns,
              execution_price_krw     : Positive,
              gross_amount_krw        : Positive,
              fee_krw                 : Nat]

PriceRow == [open_price : Positive, collection_run_id : 1 .. MaxRuns]

ASSUME ConstantsAssumption ==
  /\ LastDay \in Nat /\ MaxOrders \in Nat /\ MaxRuns \in Nat
  /\ MaxBigInt \in Positive
  /\ \A batch \in Batches : \A d \in DOMAIN batch : d \in Days /\ batch[d] \in Positive
  /\ Quantities \subseteq Positive
  /\ Policies \subseteq Policy
  /\ NoUser \notin Users
  /\ NoAccount \notin Policy
  /\ NoExecution \notin Execution
  /\ NoRow \notin PriceRow

Order == [account             : Users,
          ticker              : Tickers,
          quantity            : Positive,
          decision_trade_date : Days,
          status              : {"pending", "filled", "rejected_insufficient_cash"},
          execution           : Execution \cup {NoExecution}]

ReadRow == [trade_date : Days, open_price : Positive, collection_run_id : 1 .. MaxRuns]

CreateRequest == [user : Users, ticker : Tickers, quantity : Quantities,
                  decision_trade_date : Days]

ExecuteRequest == [user : Users, order_id : OrderIds]

\* execution_order_id is NULL, here 0, on the row that opens the account.
LedgerRow == [id : Positive, account : Users,
              entry_type : {"opening_balance", "buy_execution"},
              amount_krw : Int, execution_order_id : {0} \cup OrderIds]

Creating  == {"getAccount", "checkPrice", "insertOrder"}
Locked    == {"lockOrder", "readPrice", "readCash", "insertLedger",
              "saveFilled", "saveRejected"}
OrderHeld == Locked \ {"lockOrder"}

-----------------------------------------------------------------------------
(* The arithmetic of an execution *)

CeilDiv(numerator, denominator) == -((-numerator) \div denominator)

FitsBigInt(n) == n <= MaxBigInt

ComputeExecution(row, quantity, policy) ==
  LET paid  == CeilDiv(row.open_price * (10000 + policy.slippage_bps), 10000)
      gross == paid * quantity
      fee   == CeilDiv(gross * policy.buy_fee_rate.num, policy.buy_fee_rate.den)
  IN  [execution_trade_date    |-> row.trade_date,
       base_open_price_krw     |-> row.open_price,
       price_collection_run_id |-> row.collection_run_id,
       execution_price_krw     |-> paid,
       gross_amount_krw        |-> gross,
       fee_krw                 |-> fee]

Needed(execution) == execution.gross_amount_krw + execution.fee_krw

-----------------------------------------------------------------------------
(* What the statements read *)

Entries(u) == {row \in ledger : row.account = u}

\* accounts.available_cash
AvailableCash(u) == SumAmount(Entries(u))

\* Mutant: the day of the decision itself is taken too (trade_date__gte).
PricedAfterSameDay(t, day) == {d \in Days : d >= day /\ dailyPrice[t][d] # NoRow}

\* market_data.earliest_unadjusted_open_after; every stored row is unadjusted.
PricedAfter(t, day) == {d \in Days : d > day /\ dailyPrice[t][d] # NoRow}

EarliestOpenAfter(t, day) ==
  LET first == CHOOSE d \in PricedAfter(t, day) : \A e \in PricedAfter(t, day) : d <= e
  IN  [trade_date        |-> first,
       open_price        |-> dailyPrice[t][first].open_price,
       collection_run_id |-> dailyPrice[t][first].collection_run_id]

\* The execution thread w has computed for the order it serves.
Calculated(w) ==
  LET order == orders[request[w].order_id]
  IN  ComputeExecution(price[w], order.quantity, account[request[w].user])

\* Mutant: get_account_for_user first takes a share lock on the row, then asks for more.
HoldsAccountShared(w, u) == pc[w] \in Locked \cup {"lockAccount"} /\ request[w].user = u

HoldsAccount(w, u) == pc[w] \in Locked /\ request[w].user = u
HoldsOrder(w, i)   == pc[w] \in OrderHeld /\ request[w].order_id = i

\* The order thread w seeks is there, and its own user's.
OwnOrder(w) ==
  LET order == orders[request[w].order_id]
  IN  order # AbsentOrder /\ order.account = request[w].user

Ids == {i \in OrderIds : orders[i] # AbsentOrder}

-----------------------------------------------------------------------------
Init ==
  /\ account = [u \in Users |-> NoAccount]
  /\ ledger = {}
  /\ orders = [i \in OrderIds |-> AbsentOrder]
  /\ dailyPrice = [t \in Tickers |-> [d \in Days |-> NoRow]]
  /\ runs = 0
  /\ stored = {}
  /\ pc = [w \in Workers |-> "idle"]
  /\ request = [w \in Workers |-> NoRequest]
  /\ price = [w \in Workers |-> NoRow]
  /\ cash = [w \in Workers |-> 0]

-----------------------------------------------------------------------------
(* The other writers: the account's opening and the collection of prices *)

\* The transaction of accounts.initialize_account, as one step: the account with its
\* snapshot of the policy in force, and the row of the ledger that pays in its cash.
OpenAccount(u, policy) ==
  /\ account[u] = NoAccount
  /\ FitsBigInt(policy.initial_cash_krw)
  /\ account' = [account EXCEPT ![u] = policy]
  /\ ledger' = ledger \cup {[id                 |-> Cardinality(ledger) + 1,
                             account            |-> u,
                             entry_type         |-> "opening_balance",
                             amount_krw         |-> policy.initial_cash_krw,
                             execution_order_id |-> 0]}
  /\ UNCHANGED <<orders, dailyPrice, runs, stored, threads>>

\* The transaction of market_data.store_collection, as one step: every valid row is
\* inserted, or overwrites the row of its ticker and day (update_or_create).
StoreCollection(t, batch) ==
  /\ runs < MaxRuns
  /\ runs' = runs + 1
  /\ dailyPrice' = [dailyPrice EXCEPT ![t] =
       [d \in Days |-> IF d \in DOMAIN batch
                       THEN [open_price |-> batch[d], collection_run_id |-> runs + 1]
                       ELSE @[d]]]
  /\ stored' = stored \cup
       {[ticker |-> t, trade_date |-> d, open_price |-> batch[d],
         collection_run_id |-> runs + 1] : d \in DOMAIN batch}
  /\ UNCHANGED <<account, ledger, orders, threads>>

-----------------------------------------------------------------------------
(* Threads *)

Start(w, statement, asked) ==
  /\ pc[w] = "idle"
  /\ pc' = [pc EXCEPT ![w] = statement]
  /\ request' = [request EXCEPT ![w] = asked]
  /\ UNCHANGED <<tables, price, cash>>

Goto(w, statement) ==
  /\ pc' = [pc EXCEPT ![w] = statement]
  /\ UNCHANGED request

\* The request is answered, and the thread forgets what it read.
Finish(w) ==
  /\ pc' = [pc EXCEPT ![w] = "idle"]
  /\ request' = [request EXCEPT ![w] = NoRequest]
  /\ price' = [price EXCEPT ![w] = NoRow]
  /\ cash' = [cash EXCEPT ![w] = 0]

-----------------------------------------------------------------------------
(* create_order *)

\* A client may send the same order again when an answer is lost: the request has no
\* key that would tell.  The guard is the bound MaxOrders.
CreateOrder(w, u, t, quantity, day) ==
  /\ Cardinality(Ids) + Cardinality({v \in Workers : pc[v] \in Creating}) < MaxOrders
  /\ Start(w, "getAccount", [user |-> u, ticker |-> t, quantity |-> quantity,
                             decision_trade_date |-> day])

GetAccount(w) ==
  /\ pc[w] = "getAccount"
  /\ IF account[request[w].user] = NoAccount
     THEN Finish(w)                                                       \* 404
     ELSE Goto(w, "checkPrice") /\ UNCHANGED <<price, cash>>
  /\ UNCHANGED tables

CheckPrice(w) ==
  /\ pc[w] = "checkPrice"
  /\ IF dailyPrice[request[w].ticker][request[w].decision_trade_date] = NoRow
     THEN Finish(w)                                                       \* 409
     ELSE Goto(w, "insertOrder") /\ UNCHANGED <<price, cash>>
  /\ UNCHANGED tables

NewOrder(w) ==
  [account             |-> request[w].user,
   ticker              |-> request[w].ticker,
   quantity            |-> request[w].quantity,
   decision_trade_date |-> request[w].decision_trade_date,
   status              |-> "pending",
   execution           |-> NoExecution]

\* A quantity no BIGINT holds is refused with a DataError.  Otherwise the check of the
\* foreign key takes FOR KEY SHARE on the row of the account, which waits for the thread
\* that holds that row FOR UPDATE; orders are numbered as they are committed.
InsertOrder(w) ==
  /\ pc[w] = "insertOrder"
  /\ FitsBigInt(request[w].quantity) =>
       ~ \E v \in Workers \ {w} : HoldsAccount(v, request[w].user)
  /\ IF FitsBigInt(request[w].quantity)
     THEN \E i \in OrderIds \ Ids :
            /\ \A j \in 1 .. (i - 1) : j \in Ids
            /\ orders' = [orders EXCEPT ![i] = NewOrder(w)]
     ELSE UNCHANGED orders                                                \* 500
  /\ Finish(w)
  /\ UNCHANGED <<account, ledger, dailyPrice, runs, stored>>

-----------------------------------------------------------------------------
(* execute_order *)

ExecuteOrder(w, u, i) == Start(w, "lockAccount", [user |-> u, order_id |-> i])

\* Mutant: the account is read without FOR UPDATE.
LockAccountUnlocked(w) ==
  /\ pc[w] = "lockAccount"
  /\ IF account[request[w].user] = NoAccount
     THEN Finish(w)
     ELSE Goto(w, "lockOrder") /\ UNCHANGED <<price, cash>>
  /\ UNCHANGED tables

\* SELECT ... FOR UPDATE of the user's account: it waits for the thread that holds the row.
LockAccount(w) ==
  /\ pc[w] = "lockAccount"
  /\ ~ \E v \in Workers \ {w} : HoldsAccount(v, request[w].user)
  /\ IF account[request[w].user] = NoAccount
     THEN Finish(w)                                                       \* 404
     ELSE Goto(w, "lockOrder") /\ UNCHANGED <<price, cash>>
  /\ UNCHANGED tables

\* Mutant: the order is sought by its id alone.
LockOrderOfAnyone(w) ==
  LET order == orders[request[w].order_id]
  IN  /\ pc[w] = "lockOrder"
      /\ ~ \E v \in Workers \ {w} : HoldsOrder(v, request[w].order_id)
      /\ IF order = AbsentOrder \/ order.status # "pending"
         THEN Finish(w)
         ELSE Goto(w, "readPrice") /\ UNCHANGED <<price, cash>>
      /\ UNCHANGED tables

\* Mutant: only a filled order counts as decided.
LockOrderRejectedAgain(w) ==
  /\ pc[w] = "lockOrder"
  /\ OwnOrder(w) => ~ \E v \in Workers \ {w} : HoldsOrder(v, request[w].order_id)
  /\ IF ~OwnOrder(w) \/ orders[request[w].order_id].status = "filled"
     THEN Finish(w)
     ELSE Goto(w, "readPrice") /\ UNCHANGED <<price, cash>>
  /\ UNCHANGED tables

\* SELECT ... FOR UPDATE of the order among the user's own: it locks, and waits for, no
\* row but his.  Once the order is decided, the answer is its row.
LockOrder(w) ==
  /\ pc[w] = "lockOrder"
  /\ OwnOrder(w) => ~ \E v \in Workers \ {w} : HoldsOrder(v, request[w].order_id)
  /\ IF \/ ~OwnOrder(w)                                                  \* 404
        \/ orders[request[w].order_id].status # "pending"
     THEN Finish(w)
     ELSE Goto(w, "readPrice") /\ UNCHANGED <<price, cash>>
  /\ UNCHANGED tables

ReadPrice(w) ==
  LET order == orders[request[w].order_id]
  IN  /\ pc[w] = "readPrice"
      /\ IF PricedAfter(order.ticker, order.decision_trade_date) = {}
         THEN Finish(w)                                                   \* 409
         ELSE /\ price' = [price EXCEPT ![w] =
                             EarliestOpenAfter(order.ticker, order.decision_trade_date)]
              /\ Goto(w, "readCash")
              /\ UNCHANGED cash
      /\ UNCHANGED tables

\* Mutant: an order that costs exactly the cash left is rejected.
ReadCashStrict(w) ==
  LET available == AvailableCash(request[w].user)
  IN  /\ pc[w] = "readCash"
      /\ cash' = [cash EXCEPT ![w] = available]
      /\ Goto(w, IF available <= Needed(Calculated(w)) THEN "saveRejected" ELSE "insertLedger")
      /\ UNCHANGED <<tables, price>>

ReadCash(w) ==
  LET available == AvailableCash(request[w].user)
  IN  /\ pc[w] = "readCash"
      /\ cash' = [cash EXCEPT ![w] = available]
      /\ Goto(w, IF available < Needed(Calculated(w)) THEN "saveRejected" ELSE "insertLedger")
      /\ UNCHANGED <<tables, price>>

\* The unique index on execution_order_id refuses a second row for the order: the
\* handler of IntegrityError then answers with the row of the order as it is.
InsertLedger(w) ==
  /\ pc[w] = "insertLedger"
  /\ IF \/ \E row \in ledger : row.execution_order_id = request[w].order_id
        \/ ~FitsBigInt(Needed(Calculated(w)))
     THEN Finish(w)
     ELSE Goto(w, "saveFilled") /\ UNCHANGED <<price, cash>>
  /\ UNCHANGED tables

Decided(w, status) ==
  [orders EXCEPT ![request[w].order_id].status = status,
                 ![request[w].order_id].execution = Calculated(w)]

BuyExecution(w) ==
  [id                 |-> Cardinality(ledger) + 1,
   account            |-> request[w].user,
   entry_type         |-> "buy_execution",
   amount_krw         |-> -Needed(Calculated(w)),
   execution_order_id |-> request[w].order_id]

\* Mutant: without transaction.atomic() a thread can stop with the row of the ledger
\* committed and the order still pending.
SaveFilledInParts(w) ==
  /\ pc[w] = "saveFilled"
  /\ ledger' = ledger \cup {BuyExecution(w)}
  /\ orders' \in {orders, Decided(w, "filled")}
  /\ Finish(w)
  /\ UNCHANGED <<account, dailyPrice, runs, stored>>

\* order.save() and COMMIT: the row of the ledger and the order appear together.
SaveFilled(w) ==
  /\ pc[w] = "saveFilled"
  /\ ledger' = ledger \cup {BuyExecution(w)}
  /\ orders' = Decided(w, "filled")
  /\ Finish(w)
  /\ UNCHANGED <<account, dailyPrice, runs, stored>>

\* Mutant: two arguments of _apply_execution change places.
SaveRejectedSwapped(w) ==
  /\ pc[w] = "saveRejected"
  /\ orders' = Decided(w, "insufficient_cash")
  /\ Finish(w)
  /\ UNCHANGED <<account, ledger, dailyPrice, runs, stored>>

\* An amount no BIGINT holds makes order.save() fail with a DataError, which
\* execute_order does not catch: the transaction is rolled back.
SaveRejected(w) ==
  LET execution == Calculated(w)
  IN  /\ pc[w] = "saveRejected"
      /\ IF /\ FitsBigInt(execution.execution_price_krw)
            /\ FitsBigInt(execution.gross_amount_krw)
            /\ FitsBigInt(execution.fee_krw)
         THEN orders' = Decided(w, "rejected_insufficient_cash")
         ELSE UNCHANGED orders                                            \* 500
      /\ Finish(w)
      /\ UNCHANGED <<account, ledger, dailyPrice, runs, stored>>

-----------------------------------------------------------------------------
(* The process dies, or the connection to the database does, before the commit: the   *)
(* transaction is rolled back and its locks are released.  A crash of the process is  *)
(* the abort of every request in flight.                                              *)
Abort(w) ==
  /\ pc[w] # "idle"
  /\ Finish(w)
  /\ UNCHANGED tables

Statement(w) ==
  \/ GetAccount(w)
  \/ CheckPrice(w)
  \/ InsertOrder(w)
  \/ LockAccount(w)
  \/ LockOrder(w)
  \/ ReadPrice(w)
  \/ ReadCash(w)
  \/ InsertLedger(w)
  \/ SaveFilled(w)
  \/ SaveRejected(w)

Next ==
  \/ \E u \in Users, policy \in Policies : OpenAccount(u, policy)
  \/ \E t \in Tickers, batch \in Batches : StoreCollection(t, batch)
  \/ \E w \in Workers, u \in Users, t \in Tickers, q \in Quantities, d \in Days :
       CreateOrder(w, u, t, q, d)
  \/ \E w \in Workers, u \in Users, i \in OrderIds : ExecuteOrder(w, u, i)
  \/ \E w \in Workers : Statement(w)
  \/ \E w \in Workers : Abort(w)

Spec == Init /\ [][Next]_vars

\* A thread that can run does; PostgreSQL queues those who wait for a row, so a thread
\* is not passed over for ever.  Requests, openings and collections may never come.
Fairness == \A w \in Workers :
  /\ WF_vars(Statement(w))
  /\ SF_vars(InsertOrder(w))
  /\ SF_vars(LockAccount(w))
  /\ SF_vars(LockOrder(w))

FairSpec == Spec /\ Fairness

-----------------------------------------------------------------------------
(* Properties *)

TablesOK ==
  /\ account \in [Users -> Policies \cup {NoAccount}]
  /\ ledger \subseteq LedgerRow
  /\ IsFiniteSet(ledger)
  /\ \A row \in ledger : row.id <= Cardinality(ledger)
  /\ orders \in [OrderIds -> Order \cup {AbsentOrder}]
  /\ dailyPrice \in [Tickers -> [Days -> PriceRow \cup {NoRow}]]
  /\ runs \in 0 .. MaxRuns

ThreadsOK ==
  /\ pc \in [Workers -> {"idle", "lockAccount"} \cup Creating \cup Locked]
  /\ request \in [Workers -> CreateRequest \cup ExecuteRequest \cup {NoRequest}]
  /\ \A w \in Workers :
       /\ pc[w] \in Creating => request[w] \in CreateRequest
       /\ pc[w] \in Locked \cup {"lockAccount"} => request[w] \in ExecuteRequest
  /\ price \in [Workers -> ReadRow \cup {NoRow}]
  /\ cash \in [Workers -> Int]

\* Every table holds rows of its columns, the keys of the ledger are those handed out,
\* and every thread serves a request of its kind.
TypeOK == TablesOK /\ ThreadsOK

HoldsAlone(w) ==
  pc[w] \in Locked => \A v \in Workers : HoldsAccount(v, request[w].user) => v = w

ReadsTrue(w) ==
  LET user  == request[w].user
      order == orders[request[w].order_id]
  IN  /\ pc[w] \in Locked \cup {"checkPrice", "insertOrder"} => account[user] # NoAccount
      /\ pc[w] \in OrderHeld => order.status = "pending" /\ order.account = user
      /\ pc[w] \in OrderHeld \ {"readPrice"} => price[w] \in ReadRow
      /\ pc[w] \in {"insertLedger", "saveFilled", "saveRejected"} =>
           /\ cash[w] = AvailableCash(user)
           /\ pc[w] = "saveRejected" <=> cash[w] < Needed(Calculated(w))

\* What a thread has read is still so when it writes, however many statements other
\* threads run in between: it alone holds the account and the order it serves, the order
\* is pending and its own user's, and the cash and the comparison it acts on are those of
\* the ledger as it is now (orders.py:107-145; the price row alone may be overwritten).
ReadsStayTrue == \A w \in Workers : HoldsAlone(w) /\ ReadsTrue(w)

\* No order of execute requests takes the cash of an account below zero: two fills of one
\* account never both count on the same cash (orders.py:107 locks the account row before
\* the cash is read, and holds it to the commit).
NonNegativeCash == \A u \in Users : AvailableCash(u) >= 0

\* An open account has one opening row, and exactly the rows its filled orders cost it.
OpenedOnce ==
  \A u \in Users : account[u] # NoAccount =>
    \E row \in ledger :
      /\ row.account = u
      /\ row.amount_krw = account[u].initial_cash_krw
      /\ \A other \in ledger :
           other.account = u /\ other.entry_type = "opening_balance" <=> other = row

ChargedOnce ==
  \A i \in OrderIds : orders[i].status = "filled" =>
    \E row \in ledger :
      /\ row.account = orders[i].account
      /\ row.amount_krw = -Needed(orders[i].execution)
      /\ \A other \in ledger : other.execution_order_id = i <=> other = row

ChargedForFills ==
  \A row \in ledger :
    \/ /\ row.entry_type = "opening_balance"
       /\ row.execution_order_id = 0
       /\ account[row.account] # NoAccount
    \/ /\ row.entry_type = "buy_execution"
       /\ row.execution_order_id \in OrderIds
       /\ orders[row.execution_order_id].status = "filled"

OwnedOrders == \A i \in Ids : account[orders[i].account] # NoAccount

\* The ledger and the orders tell one story, whatever threads race, retry or die: an
\* order is filled exactly when one row charges its cost, and to its own account
\* (orders.py:140-145 in one transaction, the order sought by id and account).
LedgerMatchesOrders == OpenedOnce /\ ChargedOnce /\ ChargedForFills /\ OwnedOrders

\* An order rejected for lack of cash would be rejected at any later time too: cash never
\* comes in after the opening, and an order that costs exactly the cash left is filled
\* (orders.py:133, the comparison, over every later state of the ledger).
RejectionsStayShort ==
  \A i \in OrderIds : orders[i].status = "rejected_insufficient_cash" =>
    AvailableCash(orders[i].account) < Needed(orders[i].execution)

\* No look-ahead and no skipped day, although collections overwrite rows while orders are
\* executed: a decided order names an open some run really stored for its ticker, on a day
\* after the decision, and a day between the two was stored only by a later run
\* (market_data.py:221-228 read inside orders.py:121).
FillsRestOnStoredOpens ==
  \A i \in Ids : orders[i].execution # NoExecution =>
    LET order == orders[i]
        x     == order.execution
    IN  /\ x.execution_trade_date > order.decision_trade_date
        /\ [ticker            |-> order.ticker,
            trade_date        |-> x.execution_trade_date,
            open_price        |-> x.base_open_price_krw,
            collection_run_id |-> x.price_collection_run_id] \in stored
        /\ \A row \in stored :
             /\ row.ticker = order.ticker
             /\ row.trade_date > order.decision_trade_date
             /\ row.trade_date < x.execution_trade_date
             => row.collection_run_id > x.price_collection_run_id

\* What was decided stays decided, and what was asked stays asked: a step leaves an order
\* alone, or decides a pending one and keeps its other columns, although order.save()
\* writes every column back from what the thread read (orders.py:86-99).
OrderLifecycle ==
  [][\A i \in Ids :
       \/ orders'[i] = orders[i]
       \/ /\ orders[i].status = "pending"
          /\ orders'[i].status \in {"filled", "rejected_insufficient_cash"}
          /\ orders'[i].execution # NoExecution
          /\ orders'[i] = [orders[i] EXCEPT !.status = orders'[i].status,
                                            !.execution = orders'[i].execution]]_vars

\* To the owner of an account every order is decided in one indivisible step.
Promise == INSTANCE CashAccount WITH
  opened  <- {u \in Users : account[u] # NoAccount},
  balance <- [u \in Users |-> AvailableCash(u)],
  owner   <- [i \in OrderIds |-> IF orders[i] = AbsentOrder THEN NoUser ELSE orders[i].account],
  status  <- [i \in OrderIds |-> orders[i].status],
  cost    <- [i \in OrderIds |->
                IF orders[i].status \in {"absent", "pending"} THEN 0
                ELSE Needed(orders[i].execution)]

\* The statements of execute_order, interleaved, implement CashAccount.
ImplementsCashAccount == Promise!Spec

\* Every request is answered: no thread waits for ever for a row.  Executions of one account
\* queue for it (orders.py:107), and its new orders queue with them, for the foreign key
\* (orders.py:78); the account is always locked before the order (orders.py:107-116).
EveryRequestAnswered == \A w \in Workers : pc[w] # "idle" ~> pc[w] = "idle"

\* What README.md says of an order the cash does not cover: executing it ends it.
ShortCashEndsRejected ==
  [][\A w \in Workers : SaveRejected(w) =>
       orders'[request[w].order_id].status = "rejected_insufficient_cash"]_vars

=============================================================================
