------------------------ MODULE VirtualOrders_proofs ------------------------
(***************************************************************************)
(* The order service is correct for any number of users, threads, orders,  *)
(* collections and trading days, and any amounts.                          *)
(*                                                                         *)
(* The inductive invariant is IInv.  NonNegativeCash and                   *)
(* LedgerMatchesOrders are not inductive by themselves: SaveFilled charges *)
(* what the thread compared with the cash it read several statements ago,  *)
(* so ReadsStayTrue says that the reads of a thread that holds the account *)
(* are still true.                                                         *)
(*                                                                         *)
(* What the prices rest on is a second invariant, PInv, over IInv: nobody  *)
(* deletes a price, and an open that is overwritten was stored once.       *)
(* AmountsFollowThePolicy is a third: amounts are rounded up, and once.    *)
(* NoDeadlock and RequestsEnd are what the answer of every request needs   *)
(* beside fairness.  The last part shows that the service implements       *)
(* CashAccount.                                                            *)
(***************************************************************************)
EXTENDS VirtualOrders, LedgerSum_proofs, WellFoundedInduction

-----------------------------------------------------------------------------
(* Arithmetic *)

\* Rounding up never turns a positive amount into zero, nor any amount negative.
LEMMA CeilDivNat ==
  ASSUME NEW n \in Nat, NEW d \in Positive
  PROVE  CeilDiv(n, d) \in Nat
<1>1. d \in Int /\ d > 0 /\ -n \in Int /\ -n <= 0
  BY DEF Positive
<1>2. (-n) \div d \in Int /\ (-n) \div d <= 0
  BY <1>1, SMTT(30)
<1> QED
  BY <1>2 DEF CeilDiv

LEMMA CeilDivPositive ==
  ASSUME NEW n \in Positive, NEW d \in Positive
  PROVE  CeilDiv(n, d) \in Positive
<1>1. d \in Int /\ d > 0 /\ -n \in Int /\ -n < 0
  BY DEF Positive
<1>2. (-n) \div d \in Int /\ (-n) \div d < 0
  BY <1>1, SMTT(30)
<1> QED
  BY <1>2 DEF CeilDiv, Positive

\* _ceil_div is the least integer that is not below the quotient (orders.py:24-26).
LEMMA CeilDivBounds ==
  ASSUME NEW n \in Nat, NEW d \in Positive
  PROVE  /\ CeilDiv(n, d) * d >= n
         /\ (CeilDiv(n, d) - 1) * d < n
<1> DEFINE k == (-n) \div d
<1>1. d \in Int /\ d > 0 /\ -n \in Int
  BY DEF Positive
<1>2. k \in Int /\ d * k <= -n /\ -n < d * k + d
  BY <1>1, Z3T(30)
<1>3. CeilDiv(n, d) = -k
  BY DEF CeilDiv
<1> HIDE DEF k
<1>4. d * k \in Int /\ (-k) * d = -(d * k) /\ (-k - 1) * d = -(d * k) - d
  BY <1>1, <1>2, Z3T(30)
<1>5. -(d * k) >= n /\ -(d * k) - d < n
  BY <1>1, <1>2, <1>4
<1> QED
  BY <1>3, <1>4, <1>5

LEMMA TimesPositive ==
  ASSUME NEW m \in Positive, NEW n \in Positive
  PROVE  m * n \in Positive
BY SMTT(30) DEF Positive

LEMMA TimesNat ==
  ASSUME NEW m \in Nat, NEW n \in Nat
  PROVE  m * n \in Nat
BY SMTT(30)

\* An execution of a stored price has a positive price and gross amount, and a fee.
LEMMA ExecutionType ==
  ASSUME NEW row \in ReadRow, NEW quantity \in Positive, NEW policy \in Policy
  PROVE  /\ ComputeExecution(row, quantity, policy) \in Execution
         /\ Needed(ComputeExecution(row, quantity, policy)) \in Positive
<1> DEFINE paid  == CeilDiv(row.open_price * (10000 + policy.slippage_bps), 10000)
           gross == paid * quantity
           fee   == CeilDiv(gross * policy.buy_fee_rate.num, policy.buy_fee_rate.den)
<1>1. paid \in Positive
  <2>1. row.open_price \in Positive /\ 10000 + policy.slippage_bps \in Positive
    BY DEF ReadRow, Policy, Positive
  <2>2. 10000 \in Positive
    BY DEF Positive
  <2> QED
    BY <2>1, <2>2, TimesPositive, CeilDivPositive
<1>2. gross \in Positive
  BY <1>1, TimesPositive
<1>3. fee \in Nat
  <2>1. policy.buy_fee_rate.num \in Nat /\ policy.buy_fee_rate.den \in Positive
    BY DEF Policy
  <2>2. gross \in Nat
    BY <1>2 DEF Positive
  <2> HIDE DEF gross
  <2> QED
    BY <2>1, <2>2, TimesNat, CeilDivNat
<1> HIDE DEF paid, gross, fee
<1>4. gross + fee \in Positive
  BY <1>2, <1>3 DEF Positive
<1>5. ComputeExecution(row, quantity, policy) =
        [execution_trade_date    |-> row.trade_date,
         base_open_price_krw     |-> row.open_price,
         price_collection_run_id |-> row.collection_run_id,
         execution_price_krw     |-> paid,
         gross_amount_krw        |-> gross,
         fee_krw                 |-> fee]
  BY DEF ComputeExecution, paid, gross, fee
<1>6. /\ row.trade_date \in Days
      /\ row.open_price \in Positive
      /\ row.collection_run_id \in 1 .. MaxRuns
  BY DEF ReadRow
<1> QED
  BY <1>1, <1>2, <1>3, <1>4, <1>5, <1>6 DEF Execution, Needed

-----------------------------------------------------------------------------
(* The ledger *)

\* The entries of one account can be summed.
LEMMA EntriesSummable ==
  ASSUME TypeOK, NEW u
  PROVE  /\ IsFiniteSet(Entries(u))
         /\ \A row \in Entries(u) : row.amount_krw \in Int
<1>1. Entries(u) \in SUBSET ledger
  BY DEF Entries
<1>2. IsFiniteSet(ledger) /\ \A row \in ledger : row.amount_krw \in Int
  BY DEF TypeOK, TablesOK, LedgerRow
<1> QED
  BY <1>1, <1>2, FS_Subset

LEMMA CashType ==
  ASSUME TypeOK, NEW u
  PROVE  AvailableCash(u) \in Int
BY EntriesSummable, SumType DEF AvailableCash

\* A row with the next key is a new row, and the ledger that holds it is of its type.
LEMMA NextEntry ==
  ASSUME TypeOK, NEW row \in LedgerRow, row.id = Cardinality(ledger) + 1,
         ledger' = ledger \cup {row}
  PROVE  /\ row \notin ledger
         /\ ledger' \subseteq LedgerRow
         /\ IsFiniteSet(ledger')
         /\ \A other \in ledger' : other.id <= Cardinality(ledger')
<1>1. /\ ledger \subseteq LedgerRow
      /\ IsFiniteSet(ledger)
      /\ \A other \in ledger : other.id <= Cardinality(ledger)
  BY DEF TypeOK, TablesOK
<1>2. Cardinality(ledger) \in Nat
  BY <1>1, FS_CardinalityType
<1>3. row \notin ledger
  BY <1>1, <1>2
<1>4. IsFiniteSet(ledger') /\ Cardinality(ledger') = Cardinality(ledger) + 1
  BY <1>1, <1>3, FS_AddElement
<1>5. \A other \in ledger : other.id \in Int
  BY <1>1 DEF LedgerRow, Positive
<1> QED
  BY <1>1, <1>2, <1>3, <1>4, <1>5

\* A new row changes the cash of its own account alone, by its amount.
LEMMA CashAfterEntry ==
  ASSUME TypeOK, NEW row \in LedgerRow, row \notin ledger,
         ledger' = ledger \cup {row}, NEW u
  PROVE  AvailableCash(u)' = IF row.account = u THEN AvailableCash(u) + row.amount_krw
                             ELSE AvailableCash(u)
<1>1. CASE row.account = u
  <2>1. Entries(u)' = Entries(u) \cup {row} /\ row \notin Entries(u)
    BY <1>1 DEF Entries
  <2>2. row.amount_krw \in Int
    BY DEF LedgerRow
  <2>3. SumAmount(Entries(u) \cup {row}) = SumAmount(Entries(u)) + row.amount_krw
    BY <2>1, <2>2, EntriesSummable, SumInsert
  <2> QED
    BY <1>1, <2>1, <2>3 DEF AvailableCash
<1>2. CASE row.account # u
  <2>1. Entries(u)' = Entries(u)
    BY <1>2 DEF Entries
  <2> QED
    BY <1>2, <2>1 DEF AvailableCash
<1> QED
  BY <1>1, <1>2

\* A ledger that is left alone leaves every account its cash.
LEMMA CashUnchanged ==
  ASSUME UNCHANGED ledger, NEW u
  PROVE  AvailableCash(u)' = AvailableCash(u)
BY DEF AvailableCash, Entries

-----------------------------------------------------------------------------
(* Threads *)

\* A set of days that is not empty has an earliest day.
LEMMA EarliestDay ==
  ASSUME NEW S, S \subseteq Days, S # {}
  PROVE  \E d \in S : \A e \in S : d <= e
<1>1. S \subseteq Nat
  BY ConstantsAssumption DEF Days
<1>2. PICK d \in S : \A e \in S : ~ (<<e, d>> \in OpToRel(<, Nat))
  BY <1>1, NatLessThanWellFounded, WFMin
<1>3. \A e \in S : ~ (e < d)
  BY <1>1, <1>2 DEF OpToRel
<1> QED
  BY <1>1, <1>3

\* The price that execute_order reads is a stored row, when there is one.
LEMMA EarliestOpenType ==
  ASSUME TypeOK, NEW t \in Tickers, NEW day, PricedAfter(t, day) # {}
  PROVE  EarliestOpenAfter(t, day) \in ReadRow
<1> DEFINE first == CHOOSE d \in PricedAfter(t, day) : \A e \in PricedAfter(t, day) : d <= e
<1>1. first \in PricedAfter(t, day)
  BY EarliestDay DEF PricedAfter
<1>2. first \in Days /\ dailyPrice[t][first] \in PriceRow
  BY <1>1 DEF PricedAfter, TypeOK, TablesOK
<1> HIDE DEF first
<1>3. EarliestOpenAfter(t, day) =
        [trade_date        |-> first,
         open_price        |-> dailyPrice[t][first].open_price,
         collection_run_id |-> dailyPrice[t][first].collection_run_id]
  BY DEF EarliestOpenAfter, first
<1> QED
  BY <1>2, <1>3 DEF PriceRow, ReadRow

\* A thread that holds an account serves an execute request of that account's user.
LEMMA RequestType ==
  ASSUME TypeOK, NEW w \in Workers, pc[w] \in Locked \cup {"lockAccount"}
  PROVE  /\ request[w] \in ExecuteRequest
         /\ request[w].user \in Users
         /\ request[w].order_id \in OrderIds
BY DEF TypeOK, ThreadsOK, ExecuteRequest

\* The order of a thread that holds it is a row of the table.
LEMMA OrderType ==
  ASSUME TypeOK, NEW i \in OrderIds, orders[i].status # "absent"
  PROVE  orders[i] \in Order
BY DEF TypeOK, TablesOK, AbsentOrder

\* What a thread has calculated, once it has read a price, is an execution.
LEMMA CalculatedType ==
  ASSUME TypeOK, NEW w \in Workers, ReadsTrue(w), pc[w] \in OrderHeld \ {"readPrice"}
  PROVE  /\ Calculated(w) \in Execution
         /\ Needed(Calculated(w)) \in Positive
<1>1. /\ request[w].user \in Users
      /\ request[w].order_id \in OrderIds
  BY RequestType DEF OrderHeld
<1>2. account[request[w].user] \in Policy
  <2>1. account[request[w].user] \in Policies
    BY <1>1 DEF TypeOK, TablesOK, ReadsTrue, OrderHeld
  <2> QED
    BY <2>1, ConstantsAssumption
<1>3. orders[request[w].order_id].quantity \in Positive
  <2>1. orders[request[w].order_id].status = "pending"
    BY DEF ReadsTrue
  <2> QED
    BY <1>1, <2>1, OrderType DEF Order
<1>4. price[w] \in ReadRow
  BY DEF ReadsTrue
<1> QED
  BY <1>2, <1>3, <1>4, ExecutionType DEF Calculated

-----------------------------------------------------------------------------
(* The inductive invariant *)

\* An order is decided together with its execution.
DecisionsPriced ==
  \A i \in OrderIds : orders[i].status \in {"filled", "rejected_insufficient_cash"} =>
    orders[i].execution \in Execution

IInv ==
  /\ TypeOK
  /\ ReadsStayTrue
  /\ LedgerMatchesOrders
  /\ NonNegativeCash
  /\ RejectionsStayShort
  /\ DecisionsPriced

LEMMA InitIInv == Init => IInv
<1> SUFFICES ASSUME Init PROVE IInv
  OBVIOUS
<1>1. TypeOK
  <2>1. IsFiniteSet(ledger)
    BY FS_EmptySet DEF Init
  <2>2. runs \in 0 .. MaxRuns
    BY ConstantsAssumption DEF Init
  <2> QED
    BY <2>1, <2>2 DEF Init, TypeOK, TablesOK, ThreadsOK, Creating, Locked
<1>2. ReadsStayTrue
  BY DEF Init, ReadsStayTrue, HoldsAlone, ReadsTrue, Locked, OrderHeld
<1>3. \A u \in Users : AvailableCash(u) = 0
  <2>1. \A u : Entries(u) = {}
    BY DEF Init, Entries
  <2> QED
    BY <2>1, SumEmpty DEF AvailableCash
<1>4. LedgerMatchesOrders
  BY DEF Init, LedgerMatchesOrders, OpenedOnce, ChargedOnce, ChargedForFills, OwnedOrders,
         AbsentOrder, Ids
<1>5. NonNegativeCash
  BY <1>3 DEF NonNegativeCash
<1>6. RejectionsStayShort
  BY DEF Init, RejectionsStayShort, AbsentOrder
<1>7. DecisionsPriced
  BY DEF Init, DecisionsPriced, AbsentOrder
<1> QED
  BY <1>1, <1>2, <1>4, <1>5, <1>6, <1>7 DEF IInv

-----------------------------------------------------------------------------
(* Types *)

\* Answering a request leaves every thread one of its kind.
LEMMA FinishThreads ==
  ASSUME ThreadsOK, NEW w \in Workers, Finish(w)
  PROVE  ThreadsOK'
BY DEF ThreadsOK, Finish, Creating, Locked

LEMMA TypeStep == IInv /\ [Next]_vars => TypeOK'
<1> SUFFICES ASSUME IInv, [Next]_vars PROVE TypeOK'
  OBVIOUS
<1> USE DEF IInv
<1>1. ASSUME NEW u \in Users, NEW policy \in Policies, OpenAccount(u, policy) PROVE TypeOK'
  <2> DEFINE row == [id                 |-> Cardinality(ledger) + 1,
                     account            |-> u,
                     entry_type         |-> "opening_balance",
                     amount_krw         |-> policy.initial_cash_krw,
                     execution_order_id |-> 0]
  <2>1. row \in LedgerRow /\ row.id = Cardinality(ledger) + 1
    <3>1. Cardinality(ledger) \in Nat
      BY FS_CardinalityType DEF TypeOK, TablesOK
    <3>2. policy.initial_cash_krw \in Int
      BY ConstantsAssumption DEF Policy, Positive
    <3> QED
      BY <3>1, <3>2 DEF LedgerRow, Positive
  <2>2. ledger' = ledger \cup {row}
    BY <1>1 DEF OpenAccount
  <2> HIDE DEF row
  <2>3. /\ ledger' \subseteq LedgerRow
        /\ IsFiniteSet(ledger')
        /\ \A other \in ledger' : other.id <= Cardinality(ledger')
    BY <2>1, <2>2, NextEntry
  <2>4. account' \in [Users -> Policies \cup {NoAccount}]
    BY <1>1 DEF OpenAccount, TypeOK, TablesOK
  <2> QED
    BY <1>1, <2>3, <2>4 DEF OpenAccount, TypeOK, TablesOK, ThreadsOK, threads
<1>2. ASSUME NEW t \in Tickers, NEW batch \in Batches, StoreCollection(t, batch)
      PROVE  TypeOK'
  <2>1. runs' \in 1 .. MaxRuns
    BY <1>2, ConstantsAssumption DEF StoreCollection, TypeOK, TablesOK
  <2>2. dailyPrice' \in [Tickers -> [Days -> PriceRow \cup {NoRow}]]
    <3>1. \A d \in DOMAIN batch :
            [open_price |-> batch[d], collection_run_id |-> runs + 1] \in PriceRow
      BY <1>2, <2>1, ConstantsAssumption DEF StoreCollection, PriceRow
    <3> QED
      BY <1>2, <3>1 DEF StoreCollection, TypeOK, TablesOK
  <2> QED
    BY <1>2, <2>1, <2>2 DEF StoreCollection, TypeOK, TablesOK, ThreadsOK, threads
<1>3. ASSUME NEW w \in Workers, NEW u \in Users, NEW t \in Tickers, NEW q \in Quantities,
             NEW d \in Days, CreateOrder(w, u, t, q, d)
      PROVE  TypeOK'
  BY <1>3 DEF CreateOrder, Start, tables, TypeOK, TablesOK, ThreadsOK, CreateRequest,
              Creating, Locked
<1>4. ASSUME NEW w \in Workers, NEW u \in Users, NEW i \in OrderIds, ExecuteOrder(w, u, i)
      PROVE  TypeOK'
  BY <1>4 DEF ExecuteOrder, Start, tables, TypeOK, TablesOK, ThreadsOK, ExecuteRequest,
              Creating, Locked
<1>5. ASSUME NEW w \in Workers, Statement(w) PROVE TypeOK'
  <2> USE DEF TypeOK
  <2>1. CASE GetAccount(w)
    BY <2>1, FinishThreads DEF GetAccount, Goto, tables, TablesOK, ThreadsOK, Creating, Locked
  <2>2. CASE CheckPrice(w)
    BY <2>2, FinishThreads DEF CheckPrice, Goto, tables, TablesOK, ThreadsOK, Creating, Locked
  <2>3. CASE InsertOrder(w)
    <3>1. NewOrder(w).quantity \in Positive /\ NewOrder(w) \in Order
      BY <2>3, ConstantsAssumption
      DEF InsertOrder, NewOrder, Order, ThreadsOK, CreateRequest, Creating
    <3> QED
      BY <2>3, <3>1, FinishThreads DEF InsertOrder, TablesOK
  <2>4. CASE LockAccount(w)
    BY <2>4, FinishThreads DEF LockAccount, Goto, tables, TablesOK, ThreadsOK, Creating, Locked
  <2>5. CASE LockOrder(w)
    BY <2>5, FinishThreads DEF LockOrder, Goto, tables, TablesOK, ThreadsOK, Creating, Locked
  <2>6. CASE ReadPrice(w)
    <3> DEFINE order == orders[request[w].order_id]
    <3>1. order \in Order
      BY <2>6, RequestType, OrderType DEF ReadPrice, ReadsStayTrue, ReadsTrue, OrderHeld, Locked
    <3>2. order.ticker \in Tickers
      BY <3>1 DEF Order
    <3>3. PricedAfter(order.ticker, order.decision_trade_date) # {} =>
            EarliestOpenAfter(order.ticker, order.decision_trade_date) \in ReadRow
      BY <3>2, EarliestOpenType
    <3> QED
      BY <2>6, <3>3, FinishThreads
      DEF ReadPrice, Goto, tables, TablesOK, ThreadsOK, Creating, Locked
  <2>7. CASE ReadCash(w)
    BY <2>7, CashType DEF ReadCash, Goto, tables, TablesOK, ThreadsOK, Creating, Locked
  <2>8. CASE InsertLedger(w)
    BY <2>8, FinishThreads DEF InsertLedger, Goto, tables, TablesOK, ThreadsOK, Creating, Locked
  <2>9. CASE SaveFilled(w)
    <3>1. Calculated(w) \in Execution /\ Needed(Calculated(w)) \in Positive
      BY <2>9, CalculatedType DEF SaveFilled, ReadsStayTrue, OrderHeld, Locked
    <3>2. request[w].user \in Users /\ request[w].order_id \in OrderIds
      BY <2>9, RequestType DEF SaveFilled, Locked
    <3>3. BuyExecution(w) \in LedgerRow /\ BuyExecution(w).id = Cardinality(ledger) + 1
      <4>1. Cardinality(ledger) \in Nat
        BY FS_CardinalityType DEF TablesOK
      <4> QED
        BY <3>1, <3>2, <4>1 DEF BuyExecution, LedgerRow, Positive
    <3>4. orders[request[w].order_id] \in Order
      BY <2>9, <3>2, OrderType DEF SaveFilled, ReadsStayTrue, ReadsTrue, OrderHeld, Locked
    <3>5. orders' \in [OrderIds -> Order \cup {AbsentOrder}]
      BY <2>9, <3>1, <3>2, <3>4 DEF SaveFilled, Decided, Order, TablesOK
    <3>6. /\ ledger' \subseteq LedgerRow
          /\ IsFiniteSet(ledger')
          /\ \A other \in ledger' : other.id <= Cardinality(ledger')
      BY <2>9, <3>3, NextEntry DEF SaveFilled
    <3> QED
      BY <2>9, <3>5, <3>6, FinishThreads DEF SaveFilled, TablesOK
  <2>10. CASE SaveRejected(w)
    <3>1. Calculated(w) \in Execution
      BY <2>10, CalculatedType DEF SaveRejected, ReadsStayTrue, OrderHeld, Locked
    <3>2. request[w].order_id \in OrderIds
      BY <2>10, RequestType DEF SaveRejected, Locked
    <3>3. orders[request[w].order_id] \in Order
      BY <2>10, <3>2, OrderType DEF SaveRejected, ReadsStayTrue, ReadsTrue, OrderHeld, Locked
    <3>4. orders' \in [OrderIds -> Order \cup {AbsentOrder}]
      BY <2>10, <3>1, <3>2, <3>3 DEF SaveRejected, Decided, Order, TablesOK
    <3> QED
      BY <2>10, <3>4, FinishThreads DEF SaveRejected, TablesOK
  <2> QED
    BY <1>5, <2>1, <2>2, <2>3, <2>4, <2>5, <2>6, <2>7, <2>8, <2>9, <2>10 DEF Statement
<1>6. ASSUME NEW w \in Workers, Abort(w) PROVE TypeOK'
  BY <1>6, FinishThreads DEF Abort, tables, TypeOK, TablesOK
<1>7. CASE UNCHANGED vars
  BY <1>7 DEF vars, TypeOK, TablesOK, ThreadsOK
<1> QED
  BY <1>1, <1>2, <1>3, <1>4, <1>5, <1>6, <1>7 DEF Next


-----------------------------------------------------------------------------
(* What threads have read *)

\* Only LockAccount lets a thread hold an account it did not hold.
KeepsLocks ==
  \A w \in Workers : pc'[w] \in Locked => pc[w] \in Locked /\ request'[w] = request[w]

LEMMA FinishKeepsLocks ==
  ASSUME ThreadsOK, NEW w \in Workers, Finish(w)
  PROVE  KeepsLocks
BY DEF ThreadsOK, Finish, KeepsLocks, Locked

LEMMA AloneKept ==
  ASSUME KeepsLocks, \A w \in Workers : HoldsAlone(w)
  PROVE  \A w \in Workers : HoldsAlone(w)'
BY DEF KeepsLocks, HoldsAlone, HoldsAccount

LEMMA AloneStep == IInv /\ [Next]_vars => \A w \in Workers : HoldsAlone(w)'
<1> SUFFICES ASSUME IInv, [Next]_vars PROVE \A w \in Workers : HoldsAlone(w)'
  OBVIOUS
<1> USE DEF IInv, TypeOK
<1>1. ASSUME NEW u \in Users, NEW policy \in Policies, OpenAccount(u, policy)
      PROVE  KeepsLocks
  BY <1>1 DEF OpenAccount, threads, KeepsLocks
<1>2. ASSUME NEW t \in Tickers, NEW batch \in Batches, StoreCollection(t, batch)
      PROVE  KeepsLocks
  BY <1>2 DEF StoreCollection, threads, KeepsLocks
<1>3. ASSUME NEW w \in Workers, NEW u \in Users, NEW t \in Tickers, NEW q \in Quantities,
             NEW d \in Days, CreateOrder(w, u, t, q, d)
      PROVE  KeepsLocks
  BY <1>3 DEF CreateOrder, Start, KeepsLocks, ThreadsOK, Locked
<1>4. ASSUME NEW w \in Workers, NEW u \in Users, NEW i \in OrderIds, ExecuteOrder(w, u, i)
      PROVE  KeepsLocks
  BY <1>4 DEF ExecuteOrder, Start, KeepsLocks, ThreadsOK, Locked
<1>5. ASSUME NEW w \in Workers, Statement(w) PROVE \A v \in Workers : HoldsAlone(v)'
  <2>1. CASE LockAccount(w)
    BY <2>1 DEF LockAccount, Goto, Finish, ReadsStayTrue, HoldsAlone, HoldsAccount,
                ThreadsOK, Locked
  <2>2. CASE GetAccount(w) \/ CheckPrice(w) \/ InsertOrder(w)
    <3>1. KeepsLocks
      BY <2>2, FinishKeepsLocks
      DEF GetAccount, CheckPrice, InsertOrder, Goto, KeepsLocks, ThreadsOK, Locked
    <3> QED
      BY <3>1, AloneKept DEF ReadsStayTrue
  <2>3. CASE LockOrder(w) \/ ReadPrice(w) \/ ReadCash(w) \/ InsertLedger(w)
    <3>1. KeepsLocks
      BY <2>3, FinishKeepsLocks
      DEF LockOrder, ReadPrice, ReadCash, InsertLedger, Goto, KeepsLocks, ThreadsOK, Locked
    <3> QED
      BY <3>1, AloneKept DEF ReadsStayTrue
  <2>4. CASE SaveFilled(w) \/ SaveRejected(w)
    <3>1. KeepsLocks
      BY <2>4, FinishKeepsLocks DEF SaveFilled, SaveRejected
    <3> QED
      BY <3>1, AloneKept DEF ReadsStayTrue
  <2> QED
    BY <1>5, <2>1, <2>2, <2>3, <2>4 DEF Statement
<1>6. ASSUME NEW w \in Workers, Abort(w) PROVE KeepsLocks
  BY <1>6, FinishKeepsLocks DEF Abort
<1>7. CASE UNCHANGED vars
  BY <1>7 DEF vars, ReadsStayTrue, HoldsAlone, HoldsAccount
<1> QED
  BY <1>1, <1>2, <1>3, <1>4, <1>5, <1>6, <1>7, AloneKept DEF Next, ReadsStayTrue

\* A thread that did not move, and whose user's account, order and ledger entries are as
\* they were, has read what is still so.
SameThread(w) ==
  pc'[w] = pc[w] /\ request'[w] = request[w] /\ price'[w] = price[w] /\ cash'[w] = cash[w]

LEMMA ReadsKept ==
  ASSUME NEW w \in Workers, ReadsTrue(w), SameThread(w),
         pc[w] \in Locked \cup {"checkPrice", "insertOrder"} =>
           account'[request[w].user] = account[request[w].user],
         pc[w] \in OrderHeld =>
           orders'[request[w].order_id] = orders[request[w].order_id],
         \A u : pc[w] \in OrderHeld /\ u = request[w].user =>
           AvailableCash(u)' = AvailableCash(u)
  PROVE  ReadsTrue(w)'
<1>1. pc[w] \in OrderHeld => Calculated(w)' = Calculated(w)
  BY DEF SameThread, Calculated, OrderHeld
<1>2. pc[w] \in OrderHeld =>
        AvailableCash(request[w].user)' = AvailableCash(request[w].user)
  <2>1. PICK u : u = request[w].user
    OBVIOUS
  <2>2. request'[w].user = u
    BY <2>1 DEF SameThread
  <2>3. AvailableCash(request[w].user) = AvailableCash(u)
    BY <2>1
  <2>4. AvailableCash(request[w].user)' = AvailableCash(u)'
    BY <2>2 DEF AvailableCash, Entries
  <2> QED
    BY <2>1, <2>3, <2>4
<1> QED
  BY <1>1, <1>2 DEF SameThread, ReadsTrue, OrderHeld, Locked

\* A step that writes no table and moves one thread leaves true what the others read.
LEMMA OthersReadsKept ==
  ASSUME ThreadsOK, UNCHANGED tables, NEW w \in Workers, NEW v \in Workers \ {w},
         ReadsTrue(v), SameThread(v)
  PROVE  ReadsTrue(v)'
<1>1. \A u : AvailableCash(u)' = AvailableCash(u)
  BY CashUnchanged DEF tables
<1> QED
  BY <1>1, ReadsKept DEF tables

\* A thread that is idle, or has just begun, has read nothing.
LEMMA NothingRead ==
  ASSUME NEW w \in Workers, pc'[w] \in {"idle", "getAccount", "lockAccount"}
  PROVE  ReadsTrue(w)'
BY DEF ReadsTrue, Locked, OrderHeld

LEMMA FinishReads ==
  ASSUME ThreadsOK, NEW w \in Workers, Finish(w)
  PROVE  ReadsTrue(w)' /\ \A v \in Workers \ {w} : SameThread(v)
<1>1. pc'[w] = "idle" /\ \A v \in Workers \ {w} : SameThread(v)
  BY DEF Finish, ThreadsOK, SameThread
<1> QED
  BY <1>1, NothingRead

\* The account a thread holds, and the order it serves, are those of no other thread.
LEMMA ServedApart ==
  ASSUME TypeOK, ReadsStayTrue, NEW w \in Workers, pc[w] \in OrderHeld,
         NEW v \in Workers \ {w}, pc[v] \in OrderHeld
  PROVE  /\ request[v].user # request[w].user
         /\ request[v].order_id # request[w].order_id
BY DEF ReadsStayTrue, HoldsAlone, HoldsAccount, ReadsTrue, OrderHeld

\* The ledger after a fill, and what the fill takes from whom.
LEMMA FillEntry ==
  ASSUME TypeOK, ReadsStayTrue, NEW w \in Workers, SaveFilled(w)
  PROVE  /\ BuyExecution(w) \in LedgerRow
         /\ BuyExecution(w) \notin ledger
         /\ \A u : AvailableCash(u)' =
              IF u = request[w].user THEN AvailableCash(u) - Needed(Calculated(w))
              ELSE AvailableCash(u)
<1>1. Needed(Calculated(w)) \in Positive
  BY CalculatedType DEF SaveFilled, ReadsStayTrue, OrderHeld, Locked
<1>2. request[w].user \in Users /\ request[w].order_id \in OrderIds
  BY RequestType DEF SaveFilled, Locked
<1>3. BuyExecution(w) \in LedgerRow /\ BuyExecution(w).id = Cardinality(ledger) + 1
  <2>1. Cardinality(ledger) \in Nat
    BY FS_CardinalityType DEF TypeOK, TablesOK
  <2> QED
    BY <1>1, <1>2, <2>1 DEF BuyExecution, LedgerRow, Positive
<1>4. ledger' = ledger \cup {BuyExecution(w)}
  BY DEF SaveFilled
<1>5. BuyExecution(w) \notin ledger
  BY <1>3, <1>4, NextEntry
<1>6. ASSUME NEW u
      PROVE  AvailableCash(u)' =
               IF u = request[w].user THEN AvailableCash(u) - Needed(Calculated(w))
               ELSE AvailableCash(u)
  <2>1. AvailableCash(u)' = IF BuyExecution(w).account = u
                            THEN AvailableCash(u) + BuyExecution(w).amount_krw
                            ELSE AvailableCash(u)
    BY <1>3, <1>4, <1>5, CashAfterEntry
  <2>2. /\ BuyExecution(w).account = request[w].user
        /\ BuyExecution(w).amount_krw = -Needed(Calculated(w))
    BY DEF BuyExecution
  <2>3. AvailableCash(u) \in Int
    BY CashType
  <2> QED
    BY <1>1, <2>1, <2>2, <2>3 DEF Positive
<1> QED
  BY <1>3, <1>5, <1>6

\* The ledger after an account is opened.
LEMMA OpeningEntry ==
  ASSUME TypeOK, NEW u \in Users, NEW policy \in Policies, OpenAccount(u, policy),
         NEW row, row = [id                 |-> Cardinality(ledger) + 1,
                         account            |-> u,
                         entry_type         |-> "opening_balance",
                         amount_krw         |-> policy.initial_cash_krw,
                         execution_order_id |-> 0]
  PROVE  /\ row \in LedgerRow
         /\ row \notin ledger
         /\ ledger' = ledger \cup {row}
         /\ policy.initial_cash_krw \in Positive
         /\ \A v : AvailableCash(v)' =
              IF v = u THEN AvailableCash(v) + policy.initial_cash_krw ELSE AvailableCash(v)
<1>1. policy.initial_cash_krw \in Positive
  BY ConstantsAssumption DEF Policy
<1>2. row \in LedgerRow /\ row.id = Cardinality(ledger) + 1
  <2>1. Cardinality(ledger) \in Nat
    BY FS_CardinalityType DEF TypeOK, TablesOK
  <2> QED
    BY <1>1, <2>1 DEF LedgerRow, Positive
<1>3. ledger' = ledger \cup {row}
  BY DEF OpenAccount
<1>4. row \notin ledger
  BY <1>2, <1>3, NextEntry
<1>5. row.account = u /\ row.amount_krw = policy.initial_cash_krw
  OBVIOUS
<1> QED
  BY <1>1, <1>2, <1>3, <1>4, <1>5, CashAfterEntry

LEMMA ReadsStep == IInv /\ [Next]_vars => ReadsStayTrue'
<1> SUFFICES ASSUME IInv, [Next]_vars PROVE \A v \in Workers : ReadsTrue(v)'
  BY AloneStep DEF ReadsStayTrue
<1> USE DEF IInv
<1>0. ThreadsOK /\ \A v \in Workers : HoldsAlone(v) /\ ReadsTrue(v)
  BY DEF TypeOK, ReadsStayTrue
<1>1. ASSUME NEW u \in Users, NEW policy \in Policies, OpenAccount(u, policy)
      PROVE  \A v \in Workers : ReadsTrue(v)'
  <2> SUFFICES ASSUME NEW v \in Workers PROVE ReadsTrue(v)'
    OBVIOUS
  <2>1. SameThread(v)
    BY <1>1 DEF OpenAccount, threads, SameThread
  <2>2. pc[v] \in Locked \cup {"checkPrice", "insertOrder"} => request[v].user # u
    BY <1>0, <1>1 DEF ReadsTrue, OpenAccount
  <2>3. pc[v] \in Locked \cup {"checkPrice", "insertOrder"} =>
          account'[request[v].user] = account[request[v].user]
    BY <1>1, <2>2 DEF OpenAccount, TypeOK, TablesOK
  <2>4. \A x : x # u => AvailableCash(x)' = AvailableCash(x)
    BY <1>1, OpeningEntry
  <2>5. orders' = orders
    BY <1>1 DEF OpenAccount
  <2> QED
    BY <1>0, <2>1, <2>2, <2>3, <2>4, <2>5, ReadsKept DEF OrderHeld
<1>2. ASSUME NEW t \in Tickers, NEW batch \in Batches, StoreCollection(t, batch)
      PROVE  \A v \in Workers : ReadsTrue(v)'
  <2>1. \A v \in Workers : SameThread(v)
    BY <1>2 DEF StoreCollection, threads, SameThread
  <2>2. UNCHANGED <<account, orders, ledger>>
    BY <1>2 DEF StoreCollection
  <2>3. \A x : AvailableCash(x)' = AvailableCash(x)
    BY <2>2, CashUnchanged
  <2> QED
    BY <1>0, <2>1, <2>2, <2>3, ReadsKept
<1>3. ASSUME NEW w \in Workers, NEW u \in Users, NEW t \in Tickers, NEW q \in Quantities,
             NEW d \in Days, CreateOrder(w, u, t, q, d)
      PROVE  \A v \in Workers : ReadsTrue(v)'
  <2>1. pc'[w] = "getAccount" /\ \A v \in Workers \ {w} : SameThread(v)
    BY <1>0, <1>3 DEF CreateOrder, Start, ThreadsOK, SameThread
  <2>2. UNCHANGED tables
    BY <1>3 DEF CreateOrder, Start, tables
  <2> QED
    BY <1>0, <2>1, <2>2, NothingRead, OthersReadsKept
<1>4. ASSUME NEW w \in Workers, NEW u \in Users, NEW i \in OrderIds, ExecuteOrder(w, u, i)
      PROVE  \A v \in Workers : ReadsTrue(v)'
  <2>1. pc'[w] = "lockAccount" /\ \A v \in Workers \ {w} : SameThread(v)
    BY <1>0, <1>4 DEF ExecuteOrder, Start, ThreadsOK, SameThread
  <2>2. UNCHANGED tables
    BY <1>4 DEF ExecuteOrder, Start, tables
  <2> QED
    BY <1>0, <2>1, <2>2, NothingRead, OthersReadsKept
<1>5. ASSUME NEW w \in Workers, Statement(w) PROVE \A v \in Workers : ReadsTrue(v)'
  \* The statements that write no table: what is left is the thread itself.
  <2>1. ASSUME UNCHANGED tables, ReadsTrue(w)', \A v \in Workers \ {w} : SameThread(v)
        PROVE  \A v \in Workers : ReadsTrue(v)'
    BY <1>0, <2>1, OthersReadsKept
  <2>2. ASSUME UNCHANGED tables, Finish(w) PROVE \A v \in Workers : ReadsTrue(v)'
    BY <1>0, <2>1, <2>2, FinishReads
  <2>3. ASSUME NEW s, Goto(w, s), UNCHANGED price, UNCHANGED cash
        PROVE  \A v \in Workers \ {w} : SameThread(v)
    BY <1>0, <2>3 DEF Goto, ThreadsOK, SameThread
  <2>4. CASE GetAccount(w)
    <3>1. CASE account[request[w].user] = NoAccount
      BY <2>2, <2>4, <3>1 DEF GetAccount
    <3>2. CASE account[request[w].user] # NoAccount
      <4>1. ReadsTrue(w)'
        BY <1>0, <2>4, <3>2
        DEF GetAccount, Goto, tables, ThreadsOK, ReadsTrue, Locked, OrderHeld
      <4> QED
        BY <2>1, <2>3, <2>4, <3>2, <4>1 DEF GetAccount
    <3> QED
      BY <3>1, <3>2
  <2>5. CASE CheckPrice(w)
    <3>1. CASE Finish(w)
      BY <2>2, <2>5, <3>1 DEF CheckPrice
    <3>2. CASE Goto(w, "insertOrder") /\ UNCHANGED <<price, cash>>
      <4>1. ReadsTrue(w)'
        BY <1>0, <2>5, <3>2
        DEF CheckPrice, Goto, tables, ThreadsOK, ReadsTrue, Locked, OrderHeld
      <4> QED
        BY <2>1, <2>3, <2>5, <3>2, <4>1 DEF CheckPrice
    <3> QED
      BY <2>5, <3>1, <3>2 DEF CheckPrice
  <2>6. CASE InsertOrder(w)
    <3> SUFFICES ASSUME NEW v \in Workers \ {w} PROVE ReadsTrue(v)'
      BY <1>0, <2>6, FinishReads DEF InsertOrder
    <3>1. SameThread(v)
      BY <1>0, <2>6, FinishReads DEF InsertOrder
    <3>2. pc[v] \in OrderHeld =>
            orders'[request[v].order_id] = orders[request[v].order_id]
      <4>1. SUFFICES ASSUME pc[v] \in OrderHeld
                     PROVE  orders'[request[v].order_id] = orders[request[v].order_id]
        OBVIOUS
      <4>2. request[v].order_id \in Ids
        <5>1. request[v].order_id \in OrderIds
          BY <4>1, RequestType DEF OrderHeld
        <5>2. orders[request[v].order_id].status = "pending"
          BY <1>0, <4>1 DEF ReadsTrue
        <5> QED
          BY <5>1, <5>2 DEF Ids, AbsentOrder
      <4> QED
        BY <2>6, <4>2 DEF InsertOrder, TypeOK, TablesOK, Ids
    <3>3. UNCHANGED <<account, ledger>>
      BY <2>6 DEF InsertOrder
    <3>4. \A x : AvailableCash(x)' = AvailableCash(x)
      BY <3>3, CashUnchanged
    <3> QED
      BY <1>0, <3>1, <3>2, <3>3, <3>4, ReadsKept
  <2>7. CASE LockAccount(w)
    <3>1. CASE account[request[w].user] = NoAccount
      BY <2>2, <2>7, <3>1 DEF LockAccount
    <3>2. CASE account[request[w].user] # NoAccount
      <4>1. ReadsTrue(w)'
        BY <1>0, <2>7, <3>2
        DEF LockAccount, Goto, tables, ThreadsOK, ReadsTrue, Locked, OrderHeld
      <4> QED
        BY <2>1, <2>3, <2>7, <3>2, <4>1 DEF LockAccount
    <3> QED
      BY <3>1, <3>2
  <2>8. CASE LockOrder(w)
    <3>1. CASE ~OwnOrder(w) \/ orders[request[w].order_id].status # "pending"
      BY <2>2, <2>8, <3>1 DEF LockOrder
    <3>2. CASE OwnOrder(w) /\ orders[request[w].order_id].status = "pending"
      <4>1. ReadsTrue(w)'
        BY <1>0, <2>8, <3>2
        DEF LockOrder, OwnOrder, Goto, tables, ThreadsOK, ReadsTrue, Locked, OrderHeld
      <4> QED
        BY <2>1, <2>3, <2>8, <3>2, <4>1 DEF LockOrder
    <3> QED
      BY <3>1, <3>2
  <2>9. CASE ReadPrice(w)
    <3> DEFINE order == orders[request[w].order_id]
    <3>1. CASE PricedAfter(order.ticker, order.decision_trade_date) = {}
      BY <2>2, <2>9, <3>1 DEF ReadPrice
    <3>2. CASE PricedAfter(order.ticker, order.decision_trade_date) # {}
      <4>1. order.ticker \in Tickers
        BY <1>0, <2>9, RequestType, OrderType DEF ReadPrice, ReadsTrue, OrderHeld, Locked, Order
      <4>2. EarliestOpenAfter(order.ticker, order.decision_trade_date) \in ReadRow
        BY <3>2, <4>1, EarliestOpenType
      <4>3. ReadsTrue(w)'
        BY <1>0, <2>9, <3>2, <4>2
        DEF ReadPrice, Goto, tables, ThreadsOK, ReadsTrue, Locked, OrderHeld
      <4>4. \A v \in Workers \ {w} : SameThread(v)
        BY <1>0, <2>9, <3>2 DEF ReadPrice, Goto, ThreadsOK, SameThread
      <4> QED
        BY <2>1, <2>9, <4>3, <4>4 DEF ReadPrice
    <3> QED
      BY <3>1, <3>2
  <2>10. CASE ReadCash(w)
    <3>1. /\ request'[w] = request[w]
          /\ cash'[w] = AvailableCash(request[w].user)
          /\ pc'[w] = IF AvailableCash(request[w].user) < Needed(Calculated(w))
                      THEN "saveRejected" ELSE "insertLedger"
          /\ price'[w] = price[w]
          /\ \A v \in Workers \ {w} : SameThread(v)
      BY <1>0, <2>10 DEF ReadCash, Goto, ThreadsOK, SameThread
    <3>2. UNCHANGED tables
      BY <2>10 DEF ReadCash, tables
    <3>3. Calculated(w)' = Calculated(w)
      BY <3>1, <3>2 DEF Calculated, tables
    <3>4. AvailableCash(request[w].user)' = AvailableCash(request[w].user)
      BY <3>1, <3>2 DEF AvailableCash, Entries, tables
    <3>5. ReadsTrue(w)'
      BY <1>0, <2>10, <3>1, <3>2, <3>3, <3>4
      DEF ReadCash, ReadsTrue, Locked, OrderHeld, tables
    <3> QED
      BY <2>1, <3>1, <3>2, <3>5
  <2>11. CASE InsertLedger(w)
    <3>1. CASE Finish(w)
      BY <2>2, <2>11, <3>1 DEF InsertLedger
    <3>2. CASE Goto(w, "saveFilled") /\ UNCHANGED <<price, cash>>
      <4>1. UNCHANGED tables
        BY <2>11 DEF InsertLedger
      <4>2. /\ pc[w] = "insertLedger"
            /\ pc'[w] = "saveFilled"
            /\ UNCHANGED <<request, price, cash>>
        BY <1>0, <2>11, <3>2 DEF InsertLedger, Goto, ThreadsOK
      <4>3. /\ Calculated(w)' = Calculated(w)
            /\ AvailableCash(request[w].user)' = AvailableCash(request[w].user)
        BY <4>1, <4>2 DEF Calculated, AvailableCash, Entries, tables
      <4>4. ReadsTrue(w)'
        BY <1>0, <4>1, <4>2, <4>3 DEF ReadsTrue, Locked, OrderHeld, tables
      <4> QED
        BY <2>1, <2>3, <3>2, <4>1, <4>4
    <3> QED
      BY <2>11, <3>1, <3>2 DEF InsertLedger
  <2>12. CASE SaveFilled(w)
    <3> SUFFICES ASSUME NEW v \in Workers \ {w} PROVE ReadsTrue(v)'
      BY <1>0, <2>12, FinishReads DEF SaveFilled
    <3>1. SameThread(v) /\ account' = account
      BY <1>0, <2>12, FinishReads DEF SaveFilled
    <3>2. pc[v] \in OrderHeld =>
            /\ request[v].user # request[w].user
            /\ request[v].order_id # request[w].order_id
      BY <2>12, ServedApart DEF SaveFilled, OrderHeld, Locked
    <3>3. pc[v] \in OrderHeld =>
            orders'[request[v].order_id] = orders[request[v].order_id]
      BY <2>12, <3>2, RequestType DEF SaveFilled, Decided, TypeOK, TablesOK, OrderHeld
    <3>4. \A x : x # request[w].user => AvailableCash(x)' = AvailableCash(x)
      BY <2>12, FillEntry
    <3> QED
      BY <1>0, <3>1, <3>2, <3>3, <3>4, ReadsKept
  <2>13. CASE SaveRejected(w)
    <3> SUFFICES ASSUME NEW v \in Workers \ {w} PROVE ReadsTrue(v)'
      BY <1>0, <2>13, FinishReads DEF SaveRejected
    <3>1. SameThread(v) /\ UNCHANGED <<account, ledger>>
      BY <1>0, <2>13, FinishReads DEF SaveRejected
    <3>2. pc[v] \in OrderHeld => request[v].order_id # request[w].order_id
      BY <2>13, ServedApart DEF SaveRejected, OrderHeld, Locked
    <3>3. pc[v] \in OrderHeld =>
            orders'[request[v].order_id] = orders[request[v].order_id]
      BY <2>13, <3>2, RequestType DEF SaveRejected, Decided, TypeOK, TablesOK, OrderHeld
    <3>4. \A x : AvailableCash(x)' = AvailableCash(x)
      BY <3>1, CashUnchanged
    <3> QED
      BY <1>0, <3>1, <3>3, <3>4, ReadsKept
  <2> QED
    BY <1>5, <2>4, <2>5, <2>6, <2>7, <2>8, <2>9, <2>10, <2>11, <2>12, <2>13 DEF Statement
<1>6. ASSUME NEW w \in Workers, Abort(w) PROVE \A v \in Workers : ReadsTrue(v)'
  <2>1. UNCHANGED tables /\ ReadsTrue(w)' /\ \A v \in Workers \ {w} : SameThread(v)
    BY <1>0, <1>6, FinishReads DEF Abort
  <2> QED
    BY <1>0, <2>1, OthersReadsKept
<1>7. CASE UNCHANGED vars
  <2>1. UNCHANGED <<account, orders, ledger>> /\ \A v \in Workers : SameThread(v)
    BY <1>7 DEF vars, SameThread
  <2>2. \A x : AvailableCash(x)' = AvailableCash(x)
    BY <2>1, CashUnchanged
  <2> QED
    BY <1>0, <2>1, <2>2, ReadsKept
<1> QED
  BY <1>1, <1>2, <1>3, <1>4, <1>5, <1>6, <1>7 DEF Next


-----------------------------------------------------------------------------
(* The ledger and the orders *)

\* order.save() writes the decision into its own row and into no other.
LEMMA DecidedRow ==
  ASSUME TypeOK, NEW w \in Workers, ReadsTrue(w), pc[w] \in OrderHeld, NEW status,
         orders' = Decided(w, status)
  PROVE  LET i == request[w].order_id
         IN  /\ i \in Ids
             /\ orders[i] \in Order
             /\ orders[i].status = "pending"
             /\ orders'[i] = [orders[i] EXCEPT !.status = status, !.execution = Calculated(w)]
             /\ orders'[i].status = status
             /\ orders'[i].execution = Calculated(w)
             /\ orders'[i].account = request[w].user
             /\ \A j \in OrderIds \ {i} : orders'[j] = orders[j]
<1> DEFINE i == request[w].order_id
<1>1. i \in OrderIds
  BY RequestType DEF OrderHeld
<1>2. orders[i].status = "pending" /\ orders[i].account = request[w].user
  BY DEF ReadsTrue
<1>3. orders[i] \in Order /\ orders[i] # AbsentOrder
  BY <1>1, <1>2, OrderType DEF AbsentOrder
<1>4. orders \in [OrderIds -> Order \cup {AbsentOrder}]
  BY DEF TypeOK, TablesOK
<1>5. orders'[i] = [orders[i] EXCEPT !.status = status, !.execution = Calculated(w)]
  BY <1>1, <1>4 DEF Decided
<1>6. \A j \in OrderIds \ {i} : orders'[j] = orders[j]
  BY <1>1, <1>4 DEF Decided
<1>7. /\ orders'[i].status = status
      /\ orders'[i].execution = Calculated(w)
      /\ orders'[i].account = orders[i].account
  BY <1>3, <1>5 DEF Order
<1> QED
  BY <1>1, <1>2, <1>3, <1>5, <1>6, <1>7 DEF Ids

\* The INSERT of an order fills one absent row, with a pending order of an open account.
LEMMA InsertedRow ==
  ASSUME TypeOK, NEW w \in Workers, ReadsTrue(w), InsertOrder(w), orders' # orders
  PROVE  \E i \in OrderIds :
           /\ orders[i] = AbsentOrder
           /\ orders'[i] = NewOrder(w)
           /\ orders'[i].status = "pending"
           /\ orders'[i].account \in Users
           /\ account[orders'[i].account] # NoAccount
           /\ \A j \in OrderIds \ {i} : orders'[j] = orders[j]
<1>1. PICK i \in OrderIds \ Ids : orders' = [orders EXCEPT ![i] = NewOrder(w)]
  BY DEF InsertOrder
<1>2. request[w].user \in Users /\ account[request[w].user] # NoAccount
  BY DEF InsertOrder, ReadsTrue, TypeOK, ThreadsOK, Creating, CreateRequest
<1>3. orders'[i] = NewOrder(w) /\ \A j \in OrderIds \ {i} : orders'[j] = orders[j]
  BY <1>1 DEF TypeOK, TablesOK
<1>4. NewOrder(w).status = "pending" /\ NewOrder(w).account = request[w].user
  BY DEF NewOrder
<1> QED
  BY <1>1, <1>2, <1>3, <1>4 DEF Ids

\* Steps that write neither accounts, nor the ledger, nor orders.
Quiet == UNCHANGED <<account, ledger, orders>>

\* Every step is quiet, or one of the four that write.
LEMMA StepCases ==
  ASSUME [Next]_vars
  PROVE  \/ Quiet
         \/ \E u \in Users, policy \in Policies : OpenAccount(u, policy)
         \/ \E w \in Workers : InsertOrder(w) /\ orders' # orders
         \/ \E w \in Workers : SaveFilled(w)
         \/ \E w \in Workers : SaveRejected(w) /\ orders' = Decided(w, "rejected_insufficient_cash")
<1>1. ASSUME NEW t \in Tickers, NEW batch \in Batches, StoreCollection(t, batch) PROVE Quiet
  BY <1>1 DEF StoreCollection, Quiet
<1>2. ASSUME NEW w \in Workers, NEW u \in Users, NEW t \in Tickers, NEW q \in Quantities,
             NEW d \in Days, CreateOrder(w, u, t, q, d)
      PROVE  Quiet
  BY <1>2 DEF CreateOrder, Start, tables, Quiet
<1>3. ASSUME NEW w \in Workers, NEW u \in Users, NEW i \in OrderIds, ExecuteOrder(w, u, i)
      PROVE  Quiet
  BY <1>3 DEF ExecuteOrder, Start, tables, Quiet
<1>4. ASSUME NEW w \in Workers, Statement(w)
      PROVE  \/ Quiet
             \/ InsertOrder(w) /\ orders' # orders
             \/ SaveFilled(w)
             \/ SaveRejected(w) /\ orders' = Decided(w, "rejected_insufficient_cash")
  <2>1. CASE \/ GetAccount(w) \/ CheckPrice(w) \/ LockAccount(w) \/ LockOrder(w)
             \/ ReadPrice(w) \/ ReadCash(w) \/ InsertLedger(w)
    BY <2>1 DEF GetAccount, CheckPrice, LockAccount, LockOrder, ReadPrice, ReadCash,
                InsertLedger, tables, Quiet
  <2>2. CASE InsertOrder(w)
    BY <2>2 DEF InsertOrder, Quiet
  <2>3. CASE SaveRejected(w)
    BY <2>3 DEF SaveRejected, Quiet
  <2> QED
    BY <1>4, <2>1, <2>2, <2>3 DEF Statement
<1>5. ASSUME NEW w \in Workers, Abort(w) PROVE Quiet
  BY <1>5 DEF Abort, tables, Quiet
<1>6. CASE UNCHANGED vars
  BY <1>6 DEF vars, Quiet
<1> QED
  BY <1>1, <1>2, <1>3, <1>4, <1>5, <1>6 DEF Next

LEMMA LedgerStep == IInv /\ [Next]_vars => LedgerMatchesOrders'
<1> SUFFICES ASSUME IInv, [Next]_vars PROVE LedgerMatchesOrders'
  OBVIOUS
<1> USE DEF IInv, LedgerMatchesOrders
<1>0. /\ \A w \in Workers : ReadsTrue(w)
      /\ account \in [Users -> Policies \cup {NoAccount}]
      /\ \A row \in ledger : row.account \in Users
      /\ \A i \in Ids : orders[i].account \in Users
      /\ 0 \notin OrderIds
  BY DEF ReadsStayTrue, TypeOK, TablesOK, LedgerRow, Ids, Order, OrderIds
<1>1. CASE Quiet
  BY <1>1 DEF Quiet, OpenedOnce, ChargedOnce, ChargedForFills, OwnedOrders, Ids
<1>2. ASSUME NEW u \in Users, NEW policy \in Policies, OpenAccount(u, policy)
      PROVE  LedgerMatchesOrders'
  <2>1. PICK row : row = [id                 |-> Cardinality(ledger) + 1,
                          account            |-> u,
                          entry_type         |-> "opening_balance",
                          amount_krw         |-> policy.initial_cash_krw,
                          execution_order_id |-> 0]
    OBVIOUS
  <2>2. row \notin ledger /\ ledger' = ledger \cup {row}
    BY <1>2, <2>1, OpeningEntry
  <2>3. /\ row.account = u
        /\ row.entry_type = "opening_balance"
        /\ row.amount_krw = policy.initial_cash_krw
        /\ row.execution_order_id = 0
    BY <2>1
  <2>4. /\ account[u] = NoAccount
        /\ account'[u] = policy
        /\ policy # NoAccount
        /\ \A v \in Users \ {u} : account'[v] = account[v]
        /\ orders' = orders
    BY <1>0, <1>2, ConstantsAssumption DEF OpenAccount
  <2>5. OpenedOnce'
    <3> SUFFICES ASSUME NEW v \in Users, account'[v] # NoAccount
                 PROVE  \E r \in ledger' :
                          /\ r.account = v
                          /\ r.amount_krw = account'[v].initial_cash_krw
                          /\ \A other \in ledger' :
                               other.account = v /\ other.entry_type = "opening_balance"
                               <=> other = r
      BY DEF OpenedOnce
    <3>1. CASE v = u
      <4>1. \A other \in ledger : ~ (other.account = u /\ other.entry_type = "opening_balance")
        BY <2>4 DEF ChargedForFills
      <4> QED
        BY <2>2, <2>3, <2>4, <3>1, <4>1
    <3>2. CASE v # u
      BY <2>2, <2>3, <2>4, <3>2 DEF OpenedOnce
    <3> QED
      BY <3>1, <3>2
  <2>6. ChargedOnce'
    BY <1>0, <2>2, <2>3, <2>4 DEF ChargedOnce
  <2>7. ChargedForFills'
    BY <1>0, <2>2, <2>3, <2>4 DEF ChargedForFills
  <2>8. OwnedOrders'
    BY <1>0, <2>4 DEF OwnedOrders, Ids
  <2> QED
    BY <2>5, <2>6, <2>7, <2>8
<1>3. ASSUME NEW w \in Workers, InsertOrder(w), orders' # orders PROVE LedgerMatchesOrders'
  <2>1. PICK i \in OrderIds :
          /\ orders[i] = AbsentOrder
          /\ orders'[i].status = "pending"
          /\ account[orders'[i].account] # NoAccount
          /\ \A j \in OrderIds \ {i} : orders'[j] = orders[j]
    BY <1>0, <1>3, InsertedRow
  <2>2. UNCHANGED <<account, ledger>> /\ orders[i].status = "absent"
    BY <1>3, <2>1 DEF InsertOrder, AbsentOrder
  <2> QED
    BY <2>1, <2>2 DEF OpenedOnce, ChargedOnce, ChargedForFills, OwnedOrders, Ids
<1>4. ASSUME NEW w \in Workers, SaveFilled(w) PROVE LedgerMatchesOrders'
  <2> DEFINE i   == request[w].order_id
             row == BuyExecution(w)
  <2>1. /\ i \in Ids
        /\ orders[i].status = "pending"
        /\ orders'[i].status = "filled"
        /\ orders'[i].execution = Calculated(w)
        /\ orders'[i].account = request[w].user
        /\ \A j \in OrderIds \ {i} : orders'[j] = orders[j]
    BY <1>0, <1>4, DecidedRow DEF SaveFilled, OrderHeld, Locked
  <2>2. ledger' = ledger \cup {row} /\ row \notin ledger /\ account' = account
    BY <1>4, FillEntry DEF SaveFilled
  <2>3. /\ row.account = request[w].user
        /\ row.entry_type = "buy_execution"
        /\ row.amount_krw = -Needed(Calculated(w))
        /\ row.execution_order_id = i
    BY DEF BuyExecution
  <2>4. \A other \in ledger : other.execution_order_id # i
    BY <1>0, <2>1 DEF ChargedForFills, Ids
  <2>5. account[request[w].user] # NoAccount
    BY <1>0, <1>4 DEF SaveFilled, ReadsTrue, Locked
  <2>6. Needed(orders'[i].execution) = Needed(Calculated(w))
    BY <2>1
  <2>7. i \in OrderIds
    BY <2>1 DEF Ids
  <2> HIDE DEF i, row
  <2>8. OpenedOnce'
    BY <2>2, <2>3 DEF OpenedOnce
  <2>9. ChargedOnce'
    <3> SUFFICES ASSUME NEW j \in OrderIds, orders'[j].status = "filled"
                 PROVE  \E r \in ledger' :
                          /\ r.account = orders'[j].account
                          /\ r.amount_krw = -Needed(orders'[j].execution)
                          /\ \A other \in ledger' : other.execution_order_id = j <=> other = r
      BY DEF ChargedOnce, Needed
    <3>1. CASE j = i
      BY <2>1, <2>2, <2>3, <2>4, <2>6, <3>1
    <3>2. CASE j # i
      BY <2>1, <2>2, <2>3, <3>2 DEF ChargedOnce
    <3> QED
      BY <3>1, <3>2
  <2>10. ChargedForFills'
    BY <2>1, <2>2, <2>3, <2>7 DEF ChargedForFills
  <2>11. OwnedOrders'
    BY <2>1, <2>2, <2>5 DEF OwnedOrders, Ids
  <2> QED
    BY <2>8, <2>9, <2>10, <2>11
<1>5. ASSUME NEW w \in Workers, SaveRejected(w),
             orders' = Decided(w, "rejected_insufficient_cash")
      PROVE  LedgerMatchesOrders'
  <2> DEFINE i == request[w].order_id
  <2>1. /\ i \in Ids
        /\ orders[i].status = "pending"
        /\ orders'[i].status = "rejected_insufficient_cash"
        /\ orders'[i].account = request[w].user
        /\ \A j \in OrderIds \ {i} : orders'[j] = orders[j]
    BY <1>0, <1>5, DecidedRow DEF SaveRejected, OrderHeld, Locked
  <2>2. UNCHANGED <<account, ledger>> /\ account[request[w].user] # NoAccount
    BY <1>0, <1>5 DEF SaveRejected, ReadsTrue, Locked
  <2>3. \A other \in ledger : other.execution_order_id # i
    BY <1>0, <2>1 DEF ChargedForFills, Ids
  <2> HIDE DEF i
  <2> QED
    BY <2>1, <2>2, <2>3 DEF OpenedOnce, ChargedOnce, ChargedForFills, OwnedOrders, Ids
<1> QED
  BY <1>1, <1>2, <1>3, <1>4, <1>5, StepCases

-----------------------------------------------------------------------------
(* Cash *)

LEMMA CashStep == IInv /\ [Next]_vars => NonNegativeCash'
<1> SUFFICES ASSUME IInv, [Next]_vars, NEW v \in Users PROVE AvailableCash(v)' >= 0
  BY DEF NonNegativeCash
<1> USE DEF IInv
<1>0. /\ AvailableCash(v) \in Int
      /\ AvailableCash(v) >= 0
      /\ \A w \in Workers : ReadsTrue(w)
  BY CashType DEF NonNegativeCash, ReadsStayTrue
<1>1. CASE Quiet
  BY <1>0, <1>1, CashUnchanged DEF Quiet
<1>2. ASSUME NEW u \in Users, NEW policy \in Policies, OpenAccount(u, policy)
      PROVE  AvailableCash(v)' >= 0
  <2>1. PICK row : row = [id                 |-> Cardinality(ledger) + 1,
                          account            |-> u,
                          entry_type         |-> "opening_balance",
                          amount_krw         |-> policy.initial_cash_krw,
                          execution_order_id |-> 0]
    OBVIOUS
  <2>2. /\ policy.initial_cash_krw \in Positive
        /\ AvailableCash(v)' =
             IF v = u THEN AvailableCash(v) + policy.initial_cash_krw ELSE AvailableCash(v)
    BY <1>2, <2>1, OpeningEntry
  <2> QED
    BY <1>0, <2>2 DEF Positive
<1>3. ASSUME NEW w \in Workers, InsertOrder(w) PROVE AvailableCash(v)' >= 0
  BY <1>0, <1>3, CashUnchanged DEF InsertOrder
<1>4. ASSUME NEW w \in Workers, SaveFilled(w) PROVE AvailableCash(v)' >= 0
  <2>1. AvailableCash(v)' =
          IF v = request[w].user THEN AvailableCash(v) - Needed(Calculated(w))
          ELSE AvailableCash(v)
    BY <1>4, FillEntry
  <2>2. Needed(Calculated(w)) \in Int
    BY <1>0, <1>4, CalculatedType DEF SaveFilled, OrderHeld, Locked, Positive
  <2>3. v = request[w].user => AvailableCash(v) >= Needed(Calculated(w))
    <3>1. cash[w] = AvailableCash(request[w].user) /\ ~ (cash[w] < Needed(Calculated(w)))
      BY <1>0, <1>4 DEF SaveFilled, ReadsTrue
    <3> QED
      BY <1>0, <2>2, <3>1
  <2> QED
    BY <1>0, <2>1, <2>2, <2>3
<1>5. ASSUME NEW w \in Workers, SaveRejected(w) PROVE AvailableCash(v)' >= 0
  BY <1>0, <1>5, CashUnchanged DEF SaveRejected
<1> QED
  BY <1>1, <1>2, <1>3, <1>4, <1>5, StepCases

\* An order that is decided in this step gets an execution; no other order changes its own.
LEMMA PricedStep == IInv /\ [Next]_vars => DecisionsPriced'
<1> SUFFICES ASSUME IInv, [Next]_vars PROVE DecisionsPriced'
  OBVIOUS
<1> USE DEF IInv, DecisionsPriced
<1>0. \A w \in Workers : ReadsTrue(w)
  BY DEF ReadsStayTrue
<1>1. CASE UNCHANGED orders
  BY <1>1
<1>2. ASSUME NEW w \in Workers, InsertOrder(w), orders' # orders PROVE DecisionsPriced'
  BY <1>0, <1>2, InsertedRow
<1>3. ASSUME NEW w \in Workers, NEW status, pc[w] \in OrderHeld \ {"readPrice"},
             orders' = Decided(w, status)
      PROVE  DecisionsPriced'
  <2>1. Calculated(w) \in Execution
    BY <1>0, <1>3, CalculatedType
  <2>2. /\ orders'[request[w].order_id].execution = Calculated(w)
        /\ \A k \in OrderIds \ {request[w].order_id} : orders'[k] = orders[k]
    BY <1>0, <1>3, DecidedRow
  <2>3. ASSUME NEW k \in OrderIds,
               orders'[k].status \in {"filled", "rejected_insufficient_cash"}
        PROVE  orders'[k].execution \in Execution
    BY <2>1, <2>2, <2>3
  <2> QED
    BY <2>3 DEF Execution
<1>4. ASSUME NEW w \in Workers, SaveFilled(w) PROVE DecisionsPriced'
  BY <1>3, <1>4 DEF SaveFilled, OrderHeld, Locked
<1>5. ASSUME NEW w \in Workers, SaveRejected(w),
             orders' = Decided(w, "rejected_insufficient_cash")
      PROVE  DecisionsPriced'
  BY <1>3, <1>5 DEF SaveRejected, OrderHeld, Locked
<1> QED
  BY <1>1, <1>2, <1>4, <1>5, StepCases DEF Quiet, OpenAccount

LEMMA RejectionStep == IInv /\ [Next]_vars => RejectionsStayShort'
<1> SUFFICES ASSUME IInv, [Next]_vars,
                    NEW j \in OrderIds, orders'[j].status = "rejected_insufficient_cash",
                    NEW u, u = orders'[j].account
             PROVE  AvailableCash(u)' < Needed(orders'[j].execution)
  BY DEF RejectionsStayShort, Needed
<1> USE DEF IInv
<1>0. /\ \A w \in Workers : ReadsTrue(w)
      /\ AvailableCash(u) \in Int
  BY CashType DEF ReadsStayTrue
\* An order rejected before stays short: its cash is what it was, or less.
<1>1. ASSUME orders'[j] = orders[j]
      PROVE  /\ AvailableCash(u) < Needed(orders'[j].execution)
             /\ Needed(orders'[j].execution) \in Int
             /\ account[u] # NoAccount
  <2>1. orders[j].execution \in Execution
    BY <1>1 DEF DecisionsPriced
  <2>2. Needed(orders[j].execution) \in Int
    BY <2>1 DEF Needed, Execution, Positive
  <2>3. j \in Ids
    BY <1>1 DEF Ids, AbsentOrder
  <2> QED
    BY <1>1, <2>2, <2>3 DEF RejectionsStayShort, LedgerMatchesOrders, OwnedOrders
<1>2. CASE Quiet
  BY <1>1, <1>2, CashUnchanged DEF Quiet
<1>3. ASSUME NEW v \in Users, NEW policy \in Policies, OpenAccount(v, policy)
      PROVE  AvailableCash(u)' < Needed(orders'[j].execution)
  <2>1. PICK row : row = [id                 |-> Cardinality(ledger) + 1,
                          account            |-> v,
                          entry_type         |-> "opening_balance",
                          amount_krw         |-> policy.initial_cash_krw,
                          execution_order_id |-> 0]
    OBVIOUS
  <2>2. orders' = orders /\ account[v] = NoAccount
    BY <1>3 DEF OpenAccount
  <2>3. u # v => AvailableCash(u)' = AvailableCash(u)
    BY <1>3, <2>1, OpeningEntry
  <2> QED
    BY <1>1, <2>2, <2>3
<1>4. ASSUME NEW w \in Workers, InsertOrder(w), orders' # orders
      PROVE  AvailableCash(u)' < Needed(orders'[j].execution)
  <2>1. orders'[j] = orders[j]
    BY <1>0, <1>4, InsertedRow
  <2>2. AvailableCash(u)' = AvailableCash(u)
    BY <1>4, CashUnchanged DEF InsertOrder
  <2> QED
    BY <1>1, <2>1, <2>2
<1>5. ASSUME NEW w \in Workers, SaveFilled(w)
      PROVE  AvailableCash(u)' < Needed(orders'[j].execution)
  <2>1. orders'[j] = orders[j]
    <3>1. /\ orders'[request[w].order_id].status = "filled"
          /\ \A k \in OrderIds \ {request[w].order_id} : orders'[k] = orders[k]
      BY <1>0, <1>5, DecidedRow DEF SaveFilled, OrderHeld, Locked
    <3> QED
      BY <3>1
  <2>2. Needed(Calculated(w)) \in Positive
    BY <1>0, <1>5, CalculatedType DEF SaveFilled, OrderHeld, Locked
  <2>3. AvailableCash(u)' = IF u = request[w].user
                            THEN AvailableCash(u) - Needed(Calculated(w))
                            ELSE AvailableCash(u)
    BY <1>5, FillEntry
  <2> QED
    BY <1>0, <1>1, <2>1, <2>2, <2>3 DEF Positive
<1>6. ASSUME NEW w \in Workers, SaveRejected(w),
             orders' = Decided(w, "rejected_insufficient_cash")
      PROVE  AvailableCash(u)' < Needed(orders'[j].execution)
  <2>1. AvailableCash(u)' = AvailableCash(u)
    BY <1>6, CashUnchanged DEF SaveRejected
  <2>2. CASE j = request[w].order_id
    <3>1. u = request[w].user /\ orders'[j].execution = Calculated(w)
      BY <1>0, <1>6, <2>2, DecidedRow DEF SaveRejected, OrderHeld, Locked
    <3>2. AvailableCash(request[w].user) < Needed(Calculated(w))
      BY <1>0, <1>6 DEF SaveRejected, ReadsTrue
    <3> QED
      BY <2>1, <3>1, <3>2
  <2>3. CASE j # request[w].order_id
    <3>1. orders'[j] = orders[j]
      BY <1>0, <1>6, <2>3, DecidedRow DEF SaveRejected, OrderHeld, Locked
    <3> QED
      BY <1>1, <2>1, <3>1
  <2> QED
    BY <2>2, <2>3
<1> QED
  BY <1>2, <1>3, <1>4, <1>5, <1>6, StepCases

-----------------------------------------------------------------------------
(* The theorems *)

\* IInv is inductive, and so always true: no thread of execute_order acts on what is no longer so
\* (orders.py:102-152).
THEOREM Invariant == Spec => []IInv
<1>1. IInv /\ [Next]_vars => IInv'
  BY TypeStep, ReadsStep, LedgerStep, CashStep, RejectionStep, PricedStep DEF IInv
<1> QED
  BY <1>1, InitIInv, PTL DEF Spec

\* Every table and every thread keeps its type, whatever is asked in whatever order.
THEOREM TypeCorrect == Spec => []TypeOK
<1>1. IInv => TypeOK
  BY DEF IInv
<1> QED
  BY <1>1, Invariant, PTL

\* What a thread of execute_order has read is still so when it writes.
THEOREM ReadsAreNeverStale == Spec => []ReadsStayTrue
<1>1. IInv => ReadsStayTrue
  BY DEF IInv
<1> QED
  BY <1>1, Invariant, PTL

\* No account is ever overdrawn, however many threads execute its orders at once.
THEOREM CashIsNeverOverdrawn == Spec => []NonNegativeCash
<1>1. IInv => NonNegativeCash
  BY DEF IInv
<1> QED
  BY <1>1, Invariant, PTL

\* The ledger charges each account for its filled orders, once each, and for nothing else.
THEOREM LedgerIsExact == Spec => []LedgerMatchesOrders
<1>1. IInv => LedgerMatchesOrders
  BY DEF IInv
<1> QED
  BY <1>1, Invariant, PTL

\* An order rejected for lack of cash could not be paid at any later time.
THEOREM RejectionsAreFinal == Spec => []RejectionsStayShort
<1>1. IInv => RejectionsStayShort
  BY DEF IInv
<1> QED
  BY <1>1, Invariant, PTL

\* An order is decided once, and decided orders never change again.
THEOREM OrdersAreDecidedOnce == Spec => OrderLifecycle
<1> DEFINE Kept(i) ==
  \/ orders'[i] = orders[i]
  \/ /\ orders[i].status = "pending"
     /\ orders'[i].status \in {"filled", "rejected_insufficient_cash"}
     /\ orders'[i].execution # NoExecution
     /\ orders'[i] = [orders[i] EXCEPT !.status = orders'[i].status,
                                       !.execution = orders'[i].execution]
<1>1. IInv /\ [Next]_vars => [\A i \in Ids : Kept(i)]_vars
  <2> SUFFICES ASSUME IInv, [Next]_vars, NEW i \in Ids PROVE Kept(i)
    OBVIOUS
  <2>0. /\ TypeOK
        /\ \A w \in Workers : ReadsTrue(w)
        /\ i \in OrderIds
        /\ orders[i] # AbsentOrder
    BY DEF IInv, ReadsStayTrue, Ids
  <2>1. CASE UNCHANGED orders
    BY <2>1
  <2>2. ASSUME NEW w \in Workers, InsertOrder(w), orders' # orders PROVE Kept(i)
    BY <2>0, <2>2, InsertedRow
  <2>3. ASSUME NEW w \in Workers, NEW status \in {"filled", "rejected_insufficient_cash"},
               pc[w] \in OrderHeld \ {"readPrice"}, orders' = Decided(w, status)
        PROVE  Kept(i)
    <3>1. Calculated(w) # NoExecution
      BY <2>0, <2>3, CalculatedType, ConstantsAssumption
    <3> DEFINE k == request[w].order_id
    <3>2. /\ orders[k].status = "pending"
          /\ orders'[k] = [orders[k] EXCEPT !.status = status, !.execution = Calculated(w)]
          /\ orders'[k].status = status
          /\ orders'[k].execution = Calculated(w)
          /\ \A j \in OrderIds \ {k} : orders'[j] = orders[j]
      BY <2>0, <2>3, DecidedRow
    <3>3. CASE i = k
      <4>1. /\ orders[i].status = "pending"
            /\ orders'[i].status = status
            /\ orders'[i].execution = Calculated(w)
            /\ orders'[i] = [orders[i] EXCEPT !.status = status, !.execution = Calculated(w)]
        BY <3>2, <3>3
      <4>2. orders'[i] = [orders[i] EXCEPT !.status = orders'[i].status,
                                           !.execution = orders'[i].execution]
        BY <4>1, Zenon
      <4> QED
        BY <3>1, <4>1, <4>2
    <3>4. CASE i # k
      BY <2>0, <3>2, <3>4
    <3> QED
      BY <3>3, <3>4
  <2>4. ASSUME NEW w \in Workers, SaveFilled(w) PROVE Kept(i)
    BY <2>3, <2>4 DEF SaveFilled, OrderHeld, Locked
  <2>5. ASSUME NEW w \in Workers, SaveRejected(w),
               orders' = Decided(w, "rejected_insufficient_cash")
        PROVE  Kept(i)
    BY <2>3, <2>5 DEF SaveRejected, OrderHeld, Locked
  <2> QED
    BY <2>1, <2>2, <2>4, <2>5, StepCases DEF Quiet, OpenAccount
<1> QED
  BY <1>1, Invariant, PTL DEF Spec, OrderLifecycle

-----------------------------------------------------------------------------
(* The amounts of an order *)

\* n is the quotient num / den, rounded up.
RoundsUp(n, num, den) == n * den >= num /\ (n - 1) * den < num

\* The amounts compute_execution promises, without saying how it divides.
PricedBy(execution, quantity, policy) ==
  /\ RoundsUp(execution.execution_price_krw,
              execution.base_open_price_krw * (10000 + policy.slippage_bps), 10000)
  /\ execution.gross_amount_krw = execution.execution_price_krw * quantity
  /\ RoundsUp(execution.fee_krw,
              execution.gross_amount_krw * policy.buy_fee_rate.num, policy.buy_fee_rate.den)
  /\ execution.execution_price_krw >= execution.base_open_price_krw
  /\ Needed(execution) >= execution.base_open_price_krw * quantity

AmountsFollowThePolicy ==
  \A i \in OrderIds : orders[i].status \in {"filled", "rejected_insufficient_cash"} =>
    PricedBy(orders[i].execution, orders[i].quantity, account[orders[i].account])

LEMMA TimesMonotonic ==
  ASSUME NEW m \in Nat, NEW n \in Nat, NEW q \in Nat, m <= n
  PROVE  m * q <= n * q
BY Z3T(30)

LEMMA ComputedIsPriced ==
  ASSUME NEW row \in ReadRow, NEW quantity \in Positive, NEW policy \in Policy
  PROVE  PricedBy(ComputeExecution(row, quantity, policy), quantity, policy)
<1> DEFINE open  == row.open_price
           bps   == policy.slippage_bps
           rate  == policy.buy_fee_rate
           paid  == CeilDiv(open * (10000 + bps), 10000)
           gross == paid * quantity
           fee   == CeilDiv(gross * rate.num, rate.den)
           x     == ComputeExecution(row, quantity, policy)
<1>1. /\ open \in Positive /\ bps \in Nat
      /\ rate.num \in Nat /\ rate.den \in Positive
  BY DEF ReadRow, Policy
<1>2. /\ x.execution_price_krw = paid /\ x.base_open_price_krw = open
      /\ x.gross_amount_krw = gross /\ x.fee_krw = fee
  BY DEF ComputeExecution
<1>3. 10000 + bps \in Nat /\ 10000 \in Positive /\ open \in Nat
  BY <1>1 DEF Positive
<1>4. open * (10000 + bps) \in Nat
  BY <1>3, TimesNat
<1> HIDE DEF open, bps, rate, x
<1>5. RoundsUp(paid, open * (10000 + bps), 10000) /\ paid \in Nat
  BY <1>3, <1>4, CeilDivBounds, CeilDivNat DEF RoundsUp
<1> HIDE DEF paid
<1>6. gross \in Nat
  BY <1>5, TimesNat DEF Positive
<1>7. gross * rate.num \in Nat
  BY <1>1, <1>6, TimesNat
<1>8. RoundsUp(fee, gross * rate.num, rate.den) /\ fee \in Nat
  BY <1>1, <1>7, CeilDivBounds, CeilDivNat DEF RoundsUp
<1> HIDE DEF fee
<1>9. open <= paid
  <2>1. open * 10000 <= open * (10000 + bps)
    BY <1>1, Z3T(30) DEF Positive
  <2>2. open * 10000 <= paid * 10000
    BY <1>3, <1>4, <1>5, <2>1 DEF RoundsUp
  <2> QED
    BY <1>3, <1>5, <2>2
<1>10. open * quantity <= gross
  BY <1>3, <1>5, <1>9, TimesMonotonic DEF Positive
<1>11. open * quantity <= gross + fee
  BY <1>3, <1>6, <1>8, <1>10, TimesNat DEF Positive
<1>12. Needed(x) = gross + fee
  BY <1>2 DEF Needed
<1> HIDE DEF gross
<1> QED
  BY <1>2, <1>5, <1>8, <1>9, <1>11, <1>12 DEF PricedBy, rate, bps, x, gross

LEMMA AmountsStep == IInv /\ AmountsFollowThePolicy /\ [Next]_vars => AmountsFollowThePolicy'
<1> SUFFICES ASSUME IInv, AmountsFollowThePolicy, [Next]_vars,
                    NEW i \in OrderIds,
                    orders'[i].status \in {"filled", "rejected_insufficient_cash"}
             PROVE  PricedBy(orders'[i].execution, orders'[i].quantity,
                             account'[orders'[i].account])
  BY DEF AmountsFollowThePolicy, PricedBy, Needed
<1>0. TypeOK /\ \A w \in Workers : ReadsTrue(w)
  BY DEF IInv, ReadsStayTrue
\* An order decided before keeps its row, and its account keeps its snapshot of the policy.
<1>1. ASSUME orders'[i] = orders[i] PROVE account'[orders'[i].account] = account[orders[i].account]
  <2>1. i \in Ids
    BY <1>1 DEF Ids, AbsentOrder
  <2>2. account[orders[i].account] # NoAccount
    BY <2>1 DEF IInv, LedgerMatchesOrders, OwnedOrders
  <2>3. \/ account' = account
        \/ \E u \in Users, policy \in Policies : OpenAccount(u, policy)
    BY StepCases DEF Quiet, InsertOrder, SaveFilled, SaveRejected
  <2>4. ASSUME NEW u \in Users, NEW policy \in Policies, OpenAccount(u, policy)
        PROVE  \A v \in Users \ {u} : account'[v] = account[v] /\ account[u] = NoAccount
    BY <1>0, <2>4 DEF OpenAccount, TypeOK, TablesOK
  <2>5. orders[i].account \in Users
    BY <1>0, <2>1 DEF TypeOK, TablesOK, Ids, Order
  <2> QED
    BY <1>1, <2>2, <2>3, <2>4, <2>5 DEF OpenAccount
<1>2. ASSUME orders'[i] = orders[i]
      PROVE  PricedBy(orders'[i].execution, orders'[i].quantity, account'[orders'[i].account])
  BY <1>1, <1>2 DEF AmountsFollowThePolicy
<1>3. ASSUME NEW w \in Workers, NEW status, pc[w] \in OrderHeld \ {"readPrice"},
             orders' = Decided(w, status), account' = account
      PROVE  PricedBy(orders'[i].execution, orders'[i].quantity, account'[orders'[i].account])
  <2>1. CASE i # request[w].order_id
    <3>1. \A j \in OrderIds \ {request[w].order_id} : orders'[j] = orders[j]
      BY <1>0, <1>3, DecidedRow
    <3> QED
      BY <1>2, <2>1, <3>1
  <2>2. CASE i = request[w].order_id
    <3>1. /\ orders[i] \in Order
          /\ orders'[i] = [orders[i] EXCEPT !.status = status, !.execution = Calculated(w)]
          /\ orders'[i].execution = Calculated(w)
          /\ orders'[i].account = request[w].user
      BY <1>0, <1>3, <2>2, DecidedRow
    <3>2. orders'[i].quantity = orders[i].quantity /\ orders[i].quantity \in Positive
      BY <3>1 DEF Order
    <3>3. /\ request[w].user \in Users
          /\ account[request[w].user] # NoAccount
          /\ price[w] \in ReadRow
      BY <1>0, <1>3, RequestType DEF ReadsTrue, OrderHeld
    <3>4. account[request[w].user] \in Policy
      BY <1>0, <3>3, ConstantsAssumption DEF TypeOK, TablesOK
    <3>5. Calculated(w) =
            ComputeExecution(price[w], orders[i].quantity, account[request[w].user])
      BY <2>2 DEF Calculated
    <3>6. PricedBy(Calculated(w), orders[i].quantity, account[request[w].user])
      BY <3>2, <3>3, <3>4, <3>5, ComputedIsPriced
    <3> QED
      BY <1>3, <3>1, <3>2, <3>6
  <2> QED
    BY <2>1, <2>2
<1>4. ASSUME NEW w \in Workers, InsertOrder(w), orders' # orders PROVE orders'[i] = orders[i]
  BY <1>0, <1>4, InsertedRow
<1>5. ASSUME NEW w \in Workers, SaveFilled(w)
      PROVE  PricedBy(orders'[i].execution, orders'[i].quantity, account'[orders'[i].account])
  BY <1>3, <1>5 DEF SaveFilled, OrderHeld, Locked
<1>6. ASSUME NEW w \in Workers, SaveRejected(w),
             orders' = Decided(w, "rejected_insufficient_cash")
      PROVE  PricedBy(orders'[i].execution, orders'[i].quantity, account'[orders'[i].account])
  BY <1>3, <1>6 DEF SaveRejected, OrderHeld, Locked
<1> QED
  BY <1>2, <1>4, <1>5, <1>6, StepCases DEF Quiet, OpenAccount

\* Every decided order carries the amounts of its own open, quantity and account, each rounded
\* up once to the next won, however late it was executed and whoever executed other orders
\* meanwhile; so no order is ever filled below its open (orders.py:29-40, 126-128; the account
\* keeps the policy it was opened with, models.py:61-65).
THEOREM AmountsAreRoundedUpOnce == Spec => []AmountsFollowThePolicy
<1>1. Init => AmountsFollowThePolicy
  BY DEF Init, AmountsFollowThePolicy, AbsentOrder
<1> QED
  BY <1>1, AmountsStep, Invariant, PTL DEF Spec

-----------------------------------------------------------------------------
(* Who waits for whom, and for how long *)

\* Thread w waits for a row that thread v has locked: the account it asks for, or the one
\* its new order refers to, or an order of its own user.
WaitsFor(w, v) ==
  /\ v # w
  /\ \/ pc[w] = "lockAccount" /\ HoldsAccount(v, request[w].user)
     \/ /\ pc[w] = "insertOrder"
        /\ FitsBigInt(request[w].quantity)
        /\ HoldsAccount(v, request[w].user)
     \/ pc[w] = "lockOrder" /\ OwnOrder(w) /\ HoldsOrder(v, request[w].order_id)

\* What a thread waits for is one execution of its own user, which waits for nobody.
OneWaitAtMost ==
  \A w, v \in Workers : WaitsFor(w, v) =>
    /\ request[v].user = request[w].user
    /\ pc[w] \in {"lockAccount", "insertOrder"}
    /\ \A x \in Workers : WaitsFor(w, x) => x = v
    /\ \A x \in Workers : ~WaitsFor(v, x)

\* No order of statements makes the threads of the order service wait for each other.  A
\* request waits for one execution at most, of its own user, and that one waits for nobody:
\* whoever has the account's row finds every order of the account free, and the foreign key
\* of a new order asks for the account's row alone (orders.py:78, 107-116).
THEOREM NoDeadlock == Spec => []OneWaitAtMost
<1>1. IInv => OneWaitAtMost
  <2> SUFFICES ASSUME IInv, NEW w \in Workers, NEW v \in Workers, WaitsFor(w, v)
               PROVE  /\ request[v].user = request[w].user
                      /\ pc[w] \in {"lockAccount", "insertOrder"}
                      /\ \A x \in Workers : WaitsFor(w, x) => x = v
                      /\ \A x \in Workers : ~WaitsFor(v, x)
    BY DEF OneWaitAtMost
  <2>1. \A x \in Workers : HoldsAlone(x) /\ ReadsTrue(x)
    BY DEF IInv, ReadsStayTrue
  <2>2. ASSUME NEW x \in Workers, NEW y \in Workers, WaitsFor(x, y) PROVE pc[x] # "lockOrder"
    <3> SUFFICES ASSUME pc[x] = "lockOrder" PROVE FALSE
      OBVIOUS
    <3>1. y # x /\ OwnOrder(x) /\ pc[y] \in OrderHeld /\ request[y].order_id = request[x].order_id
      BY <2>2 DEF WaitsFor, HoldsOrder
    <3>2. request[y].user = request[x].user
      BY <2>1, <3>1 DEF ReadsTrue, OwnOrder
    <3>3. pc[x] \in Locked /\ pc[y] \in Locked
      BY <3>1 DEF OrderHeld, Locked
    <3> QED
      BY <2>1, <3>1, <3>2, <3>3 DEF HoldsAlone, HoldsAccount
  <2>3. pc[w] \in {"lockAccount", "insertOrder"} /\ HoldsAccount(v, request[w].user)
    BY <2>2 DEF WaitsFor
  <2>4. ASSUME NEW x \in Workers, WaitsFor(w, x) PROVE x = v
    <3>1. HoldsAccount(x, request[w].user)
      BY <2>3, <2>4 DEF WaitsFor
    <3> QED
      BY <2>1, <2>3, <3>1 DEF HoldsAlone, HoldsAccount
  <2>5. ASSUME NEW x \in Workers, WaitsFor(v, x) PROVE FALSE
    BY <2>2, <2>3, <2>5 DEF WaitsFor, HoldsAccount, Locked
  <2> QED
    BY <2>3, <2>4, <2>5 DEF HoldsAccount
<1> QED
  BY <1>1, Invariant, PTL

\* The statements a thread executes at most until its request is answered.
StatementsLeft(statement) ==
  CASE statement = "idle"                                        -> 0
    [] statement \in {"insertOrder", "saveFilled", "saveRejected"} -> 1
    [] statement \in {"checkPrice", "insertLedger"}              -> 2
    [] statement \in {"getAccount", "readCash"}                  -> 3
    [] statement = "readPrice"                                   -> 4
    [] statement = "lockOrder"                                   -> 5
    [] statement = "lockAccount"                                 -> 6

EveryStatementAdvances ==
  [][\A w \in Workers : pc[w] # "idle" =>
       \/ pc'[w] = pc[w] /\ ~Statement(w)
       \/ StatementsLeft(pc'[w]) < StatementsLeft(pc[w])]_vars

\* Every request of the order service is answered after at most six statements of its own
\* thread: each brings it nearer to its answer, and what others do never takes it back.
\* With NoDeadlock this is all that EveryRequestAnswered needs beside fairness
\* (orders.py:70-83, 102-152).
THEOREM RequestsEnd == Spec => EveryStatementAdvances
<1> DEFINE Advances(w) == \/ pc'[w] = pc[w] /\ ~Statement(w)
                          \/ StatementsLeft(pc'[w]) < StatementsLeft(pc[w])
<1>1. ASSUME IInv, [Next]_vars, NEW w \in Workers, pc[w] # "idle" PROVE Advances(w)
  <2>0. pc \in [Workers -> {"idle", "lockAccount"} \cup Creating \cup Locked]
    BY <1>1 DEF IInv, TypeOK, ThreadsOK
  <2>1. ASSUME Statement(w) PROVE StatementsLeft(pc'[w]) < StatementsLeft(pc[w])
    <3>1. CASE GetAccount(w)
      <4>1. pc[w] = "getAccount" /\ pc'[w] \in {"idle", "checkPrice"}
        BY <2>0, <3>1 DEF GetAccount, Finish, Goto
      <4> QED
        BY <4>1 DEF StatementsLeft
    <3>2. CASE CheckPrice(w)
      <4>1. pc[w] = "checkPrice" /\ pc'[w] \in {"idle", "insertOrder"}
        BY <2>0, <3>2 DEF CheckPrice, Finish, Goto
      <4> QED
        BY <4>1 DEF StatementsLeft
    <3>3. CASE InsertOrder(w) \/ SaveFilled(w) \/ SaveRejected(w)
      <4>1. pc[w] \in {"insertOrder", "saveFilled", "saveRejected"} /\ pc'[w] = "idle"
        BY <2>0, <3>3 DEF InsertOrder, SaveFilled, SaveRejected, Finish
      <4> QED
        BY <4>1 DEF StatementsLeft
    <3>4. CASE LockAccount(w)
      <4>1. pc[w] = "lockAccount" /\ pc'[w] \in {"idle", "lockOrder"}
        BY <2>0, <3>4 DEF LockAccount, Finish, Goto
      <4> QED
        BY <4>1 DEF StatementsLeft
    <3>5. CASE LockOrder(w)
      <4>1. pc[w] = "lockOrder" /\ pc'[w] \in {"idle", "readPrice"}
        BY <2>0, <3>5 DEF LockOrder, Finish, Goto
      <4> QED
        BY <4>1 DEF StatementsLeft
    <3>6. CASE ReadPrice(w)
      <4>1. pc[w] = "readPrice" /\ pc'[w] \in {"idle", "readCash"}
        BY <2>0, <3>6 DEF ReadPrice, Finish, Goto
      <4> QED
        BY <4>1 DEF StatementsLeft
    <3>7. CASE ReadCash(w)
      <4>1. pc[w] = "readCash" /\ pc'[w] \in {"insertLedger", "saveRejected"}
        BY <2>0, <3>7 DEF ReadCash, Goto
      <4> QED
        BY <4>1 DEF StatementsLeft
    <3>8. CASE InsertLedger(w)
      <4>1. pc[w] = "insertLedger" /\ pc'[w] \in {"idle", "saveFilled"}
        BY <2>0, <3>8 DEF InsertLedger, Finish, Goto
      <4> QED
        BY <4>1 DEF StatementsLeft
    <3> QED
      BY <2>1, <3>1, <3>2, <3>3, <3>4, <3>5, <3>6, <3>7, <3>8 DEF Statement
  <2>2. CASE Abort(w)
    <3>1. pc'[w] = "idle"
      BY <2>0, <2>2 DEF Abort, Finish
    <3>2. pc[w] \in {"lockAccount"} \cup Creating \cup Locked
      BY <1>1, <2>0
    <3> QED
      BY <3>1, <3>2 DEF StatementsLeft, Creating, Locked
  <2>3. ASSUME ~Statement(w), ~Abort(w) PROVE pc'[w] = pc[w]
    <3>1. ASSUME NEW v \in Workers \ {w}, Statement(v) \/ Abort(v) PROVE pc'[w] = pc[w]
      BY <2>0, <3>1 DEF Statement, Abort, GetAccount, CheckPrice, InsertOrder, LockAccount,
        LockOrder, ReadPrice, ReadCash, InsertLedger, SaveFilled, SaveRejected, Finish, Goto
    <3>2. ASSUME NEW v \in Workers, NEW statement, NEW asked, Start(v, statement, asked)
          PROVE  pc'[w] = pc[w]
      BY <1>1, <2>0, <3>2 DEF Start
    <3>3. CASE \/ \E u \in Users, policy \in Policies : OpenAccount(u, policy)
               \/ \E t \in Tickers, batch \in Batches : StoreCollection(t, batch)
               \/ UNCHANGED vars
      BY <3>3 DEF OpenAccount, StoreCollection, threads, vars
    <3> QED
      BY <1>1, <2>3, <3>1, <3>2, <3>3 DEF Next, CreateOrder, ExecuteOrder
  <2> QED
    BY <2>1, <2>2, <2>3
<1>2. IInv /\ [Next]_vars => [\A w \in Workers : pc[w] # "idle" => Advances(w)]_vars
  BY <1>1
<1> QED
  BY <1>2, Invariant, PTL DEF Spec, EveryStatementAdvances

-----------------------------------------------------------------------------
(* The prices orders are decided by *)

\* Threads that have read the price of the order they hold.
Priced == OrderHeld \ {"readPrice"}

\* An open stored for a day after the decision, with no earlier one stored by its run.
RestsOn(t, decided, day, open, run) ==
  /\ day > decided
  /\ [ticker |-> t, trade_date |-> day, open_price |-> open, collection_run_id |-> run] \in stored
  /\ \A row \in stored :
       row.ticker = t /\ row.trade_date > decided /\ row.trade_date < day
       => row.collection_run_id > run

\* The history holds rows of runs that have happened, the table the latest of each day.
StoredOK ==
  /\ stored \subseteq [ticker : Tickers, trade_date : Days, open_price : Positive,
                       collection_run_id : 1 .. runs]
  /\ \A row \in stored : dailyPrice[row.ticker][row.trade_date] # NoRow
  /\ \A t \in Tickers, d \in Days : dailyPrice[t][d] # NoRow =>
       [ticker            |-> t,
        trade_date        |-> d,
        open_price        |-> dailyPrice[t][d].open_price,
        collection_run_id |-> dailyPrice[t][d].collection_run_id] \in stored

ReadRests(w) ==
  LET order == orders[request[w].order_id]
  IN  pc[w] \in Priced =>
        RestsOn(order.ticker, order.decision_trade_date, price[w].trade_date,
                price[w].open_price, price[w].collection_run_id)

DecisionRests(i) ==
  orders[i].execution # NoExecution =>
    RestsOn(orders[i].ticker, orders[i].decision_trade_date,
            orders[i].execution.execution_trade_date,
            orders[i].execution.base_open_price_krw,
            orders[i].execution.price_collection_run_id)

PInv ==
  /\ StoredOK
  /\ \A w \in Workers : ReadRests(w)
  /\ \A i \in Ids : DecisionRests(i)

LEMMA InitPInv == Init => PInv
BY DEF Init, PInv, StoredOK, ReadRests, DecisionRests, Priced, OrderHeld, Locked, Ids

\* A step leaves the price tables alone, or is a collection.
LEMMA PriceTableCases ==
  ASSUME [Next]_vars
  PROVE  \/ UNCHANGED <<dailyPrice, runs, stored>>
         \/ \E t \in Tickers, batch \in Batches : StoreCollection(t, batch)
<1>1. ASSUME NEW w \in Workers, Statement(w) PROVE UNCHANGED <<dailyPrice, runs, stored>>
  BY <1>1 DEF Statement, GetAccount, CheckPrice, InsertOrder, LockAccount, LockOrder,
              ReadPrice, ReadCash, InsertLedger, SaveFilled, SaveRejected, tables
<1> QED
  BY <1>1 DEF Next, OpenAccount, CreateOrder, ExecuteOrder, Start, Abort, tables, vars

LEMMA StoredStep == IInv /\ PInv /\ [Next]_vars => StoredOK'
<1> SUFFICES ASSUME IInv, PInv, [Next]_vars PROVE StoredOK'
  OBVIOUS
<1>0. StoredOK /\ runs \in 0 .. MaxRuns /\ dailyPrice \in [Tickers -> [Days -> PriceRow \cup {NoRow}]]
  BY DEF IInv, PInv, TypeOK, TablesOK
<1>1. CASE UNCHANGED <<dailyPrice, runs, stored>>
  BY <1>0, <1>1 DEF StoredOK
<1>2. ASSUME NEW t \in Tickers, NEW batch \in Batches, StoreCollection(t, batch) PROVE StoredOK'
  <2> DEFINE Row(d) == [ticker |-> t, trade_date |-> d, open_price |-> batch[d],
                        collection_run_id |-> runs + 1]
             New(d) == [open_price |-> batch[d], collection_run_id |-> runs + 1]
  <2>1. /\ runs' = runs + 1
        /\ stored' = stored \cup {Row(d) : d \in DOMAIN batch}
        /\ dailyPrice' = [dailyPrice EXCEPT ![t] =
             [d \in Days |-> IF d \in DOMAIN batch THEN New(d) ELSE dailyPrice[t][d]]]
    BY <1>2 DEF StoreCollection
  <2>2. \A d \in DOMAIN batch : d \in Days /\ batch[d] \in Positive
    BY ConstantsAssumption
  <2>3. MaxRuns \in Nat /\ runs \in Nat /\ runs + 1 \in 1 .. MaxRuns /\ runs + 1 \in 1 .. runs + 1
    BY <1>0, <1>2, ConstantsAssumption DEF StoreCollection
  <2>4. \A d \in DOMAIN batch : New(d) \in PriceRow /\ New(d) # NoRow
    BY <2>2, <2>3, ConstantsAssumption DEF PriceRow
  <2>5. \A s \in Tickers, d \in Days :
          dailyPrice'[s][d] = IF s = t /\ d \in DOMAIN batch THEN New(d) ELSE dailyPrice[s][d]
    BY <1>0, <2>1
  <2>6. \A d \in DOMAIN batch : Row(d) \in [ticker : Tickers, trade_date : Days,
                               open_price : Positive, collection_run_id : 1 .. runs']
    BY <2>1, <2>2, <2>3
  <2>7. \A row \in stored : row \in [ticker : Tickers, trade_date : Days,
                               open_price : Positive, collection_run_id : 1 .. runs']
    <3>1. \A n \in 1 .. runs : n \in 1 .. runs'
      BY <2>1, <2>3
    <3> QED
      BY <1>0, <3>1 DEF StoredOK
  <2>8. \A row \in stored' : dailyPrice'[row.ticker][row.trade_date] # NoRow
    <3>1. \A row \in stored : row.ticker \in Tickers /\ row.trade_date \in Days
                              /\ dailyPrice[row.ticker][row.trade_date] # NoRow
      BY <1>0 DEF StoredOK
    <3>2. ASSUME NEW row \in stored PROVE dailyPrice'[row.ticker][row.trade_date] # NoRow
      <4>1. row.ticker \in Tickers /\ row.trade_date \in Days
            /\ dailyPrice[row.ticker][row.trade_date] # NoRow
        BY <3>1
      <4>2. CASE row.ticker = t /\ row.trade_date \in DOMAIN batch
        <5>1. dailyPrice'[row.ticker][row.trade_date] = New(row.trade_date)
          BY <2>5, <4>1, <4>2
        <5> QED
          BY <2>4, <4>2, <5>1
      <4>3. CASE ~(row.ticker = t /\ row.trade_date \in DOMAIN batch)
        BY <2>5, <4>1, <4>3
      <4> QED
        BY <4>2, <4>3
    <3>3. \A d \in DOMAIN batch : dailyPrice'[Row(d).ticker][Row(d).trade_date] # NoRow
      BY <2>2, <2>4, <2>5
    <3> QED
      BY <2>1, <3>2, <3>3
  <2>9. ASSUME NEW s \in Tickers, NEW d \in Days, dailyPrice'[s][d] # NoRow
        PROVE  [ticker |-> s, trade_date |-> d, open_price |-> dailyPrice'[s][d].open_price,
                collection_run_id |-> dailyPrice'[s][d].collection_run_id] \in stored'
    <3>1. CASE s = t /\ d \in DOMAIN batch
      <4>1. dailyPrice'[s][d] = New(d)
        BY <2>5, <3>1
      <4>2. [ticker |-> s, trade_date |-> d, open_price |-> dailyPrice'[s][d].open_price,
             collection_run_id |-> dailyPrice'[s][d].collection_run_id] = Row(d)
        BY <3>1, <4>1
      <4> QED
        BY <2>1, <3>1, <4>2
    <3>2. CASE ~(s = t /\ d \in DOMAIN batch)
      <4>1. dailyPrice'[s][d] = dailyPrice[s][d]
        BY <2>5, <3>2
      <4> QED
        BY <1>0, <2>1, <2>9, <4>1 DEF StoredOK
    <3> QED
      BY <3>1, <3>2
  <2> HIDE DEF Row, New
  <2>10. stored' \subseteq [ticker : Tickers, trade_date : Days, open_price : Positive,
                            collection_run_id : 1 .. runs']
    BY <2>1, <2>6, <2>7
  <2> QED
    BY <2>8, <2>9, <2>10 DEF StoredOK
<1> QED
  BY <1>1, <1>2, PriceTableCases

\* Later collections store rows of later runs: what an open rests on stays so.
LEMMA RestsStay ==
  ASSUME IInv, PInv, [Next]_vars, NEW t, NEW decided, NEW day, NEW open, NEW run,
         RestsOn(t, decided, day, open, run)
  PROVE  RestsOn(t, decided, day, open, run)'
<1>0. StoredOK /\ runs \in Nat
  BY ConstantsAssumption DEF IInv, PInv, TypeOK, TablesOK
<1>1. CASE UNCHANGED <<dailyPrice, runs, stored>>
  BY <1>1 DEF RestsOn
<1>2. ASSUME NEW s \in Tickers, NEW batch \in Batches, StoreCollection(s, batch)
      PROVE  RestsOn(t, decided, day, open, run)'
  <2>1. run \in 1 .. runs
    BY <1>0 DEF RestsOn, StoredOK
  <2>2. \A row \in stored' \ stored : row.collection_run_id = runs + 1
    BY <1>2 DEF StoreCollection
  <2>3. runs + 1 > run
    BY <1>0, <2>1
  <2>4. stored \subseteq stored'
    BY <1>2 DEF StoreCollection
  <2> QED
    BY <2>2, <2>3, <2>4 DEF RestsOn
<1> QED
  BY <1>1, <1>2, PriceTableCases

\* The open that execute_order reads rests on the rows stored by then.
LEMMA EarliestRests ==
  ASSUME IInv, PInv, NEW t \in Tickers, NEW decided \in Days, PricedAfter(t, decided) # {},
         NEW row, row = EarliestOpenAfter(t, decided)
  PROVE  RestsOn(t, decided, row.trade_date, row.open_price, row.collection_run_id)
<1> DEFINE first == CHOOSE d \in PricedAfter(t, decided) : \A e \in PricedAfter(t, decided) : d <= e
<1>1. first \in PricedAfter(t, decided) /\ \A e \in PricedAfter(t, decided) : first <= e
  BY EarliestDay DEF PricedAfter
<1>2. row = [trade_date        |-> first,
             open_price        |-> dailyPrice[t][first].open_price,
             collection_run_id |-> dailyPrice[t][first].collection_run_id]
  BY DEF EarliestOpenAfter, first
<1> HIDE DEF first
<1>3. first \in Days /\ first > decided /\ dailyPrice[t][first] # NoRow
  BY <1>1 DEF PricedAfter
<1>4. [ticker |-> t, trade_date |-> first, open_price |-> dailyPrice[t][first].open_price,
       collection_run_id |-> dailyPrice[t][first].collection_run_id] \in stored
  BY <1>3 DEF PInv, StoredOK
<1>5. ASSUME NEW other \in stored, other.ticker = t, other.trade_date > decided,
             other.trade_date < first
      PROVE  FALSE
  <2>1. other.trade_date \in Days /\ dailyPrice[t][other.trade_date] # NoRow
    BY <1>5 DEF PInv, StoredOK
  <2>2. other.trade_date \in PricedAfter(t, decided)
    BY <1>5, <2>1 DEF PricedAfter
  <2>3. first <= other.trade_date /\ first \in Int /\ other.trade_date \in Int
    BY <1>1, <1>3, <2>1, <2>2 DEF Days
  <2> QED
    BY <1>5, <2>3
<1> QED
  BY <1>2, <1>3, <1>4, <1>5 DEF RestsOn

\* A thread with a price has read it in this step, or had it before.
LEMMA PricedThread ==
  ASSUME IInv, [Next]_vars, NEW v \in Workers, pc'[v] \in Priced
  PROVE  \/ ReadPrice(v)
         \/ pc[v] \in Priced /\ request'[v] = request[v] /\ price'[v] = price[v]
<1>0. ThreadsOK
  BY DEF IInv, TypeOK
<1> USE DEF Priced, OrderHeld, Locked
<1>1. ASSUME NEW w \in Workers, NEW u \in Users, NEW t \in Tickers, NEW q \in Quantities,
             NEW d \in Days, CreateOrder(w, u, t, q, d)
      PROVE  pc[v] \in Priced /\ request'[v] = request[v] /\ price'[v] = price[v]
  BY <1>0, <1>1 DEF CreateOrder, Start, ThreadsOK
<1>2. ASSUME NEW w \in Workers, NEW u \in Users, NEW i \in OrderIds, ExecuteOrder(w, u, i)
      PROVE  pc[v] \in Priced /\ request'[v] = request[v] /\ price'[v] = price[v]
  BY <1>0, <1>2 DEF ExecuteOrder, Start, ThreadsOK
<1>3. ASSUME NEW w \in Workers, Finish(w)
      PROVE  pc[v] \in Priced /\ request'[v] = request[v] /\ price'[v] = price[v]
  BY <1>0, <1>3 DEF Finish, ThreadsOK
<1>4. ASSUME NEW w \in Workers, NEW s, Goto(w, s), UNCHANGED price, s \notin Priced \/ pc[w] \in Priced
      PROVE  pc[v] \in Priced /\ request'[v] = request[v] /\ price'[v] = price[v]
  BY <1>0, <1>4 DEF Goto, ThreadsOK
<1>5. ASSUME NEW w \in Workers, Statement(w)
      PROVE  \/ ReadPrice(v)
             \/ pc[v] \in Priced /\ request'[v] = request[v] /\ price'[v] = price[v]
  <2>1. CASE GetAccount(w) \/ CheckPrice(w) \/ LockAccount(w) \/ LockOrder(w)
    BY <2>1, <1>3, <1>4 DEF GetAccount, CheckPrice, LockAccount, LockOrder
  <2>2. CASE ReadPrice(w)
    <3>1. CASE v = w
      BY <2>2, <3>1
    <3>2. CASE v # w
      BY <1>0, <2>2, <3>2, <1>3 DEF ReadPrice, Goto, ThreadsOK
    <3> QED
      BY <3>1, <3>2
  <2>3. CASE ReadCash(w) \/ InsertLedger(w)
    BY <2>3, <1>3, <1>4 DEF ReadCash, InsertLedger
  <2>4. CASE InsertOrder(w) \/ SaveFilled(w) \/ SaveRejected(w)
    BY <2>4, <1>3 DEF InsertOrder, SaveFilled, SaveRejected
  <2> QED
    BY <1>5, <2>1, <2>2, <2>3, <2>4 DEF Statement
<1>6. ASSUME NEW w \in Workers, Abort(w)
      PROVE  pc[v] \in Priced /\ request'[v] = request[v] /\ price'[v] = price[v]
  BY <1>3, <1>6 DEF Abort
<1>7. CASE UNCHANGED threads
  BY <1>7 DEF threads
<1> QED
  BY <1>1, <1>2, <1>5, <1>6, <1>7 DEF Next, OpenAccount, StoreCollection, vars, threads

\* An order keeps what was asked; its execution is as it was, or what some thread decided.
LEMMA AskedStays ==
  ASSUME IInv, [Next]_vars, NEW i \in Ids
  PROVE  /\ orders'[i].ticker = orders[i].ticker
         /\ orders'[i].decision_trade_date = orders[i].decision_trade_date
         /\ \/ orders'[i].execution = orders[i].execution
            \/ \E w \in Workers : /\ pc[w] \in Priced
                                  /\ request[w].order_id = i
                                  /\ orders'[i].execution = Calculated(w)
<1>0. TypeOK /\ (\A w \in Workers : ReadsTrue(w)) /\ i \in OrderIds /\ orders[i] # AbsentOrder
  BY DEF IInv, ReadsStayTrue, Ids
<1>1. CASE UNCHANGED orders
  BY <1>1
<1>2. ASSUME NEW w \in Workers, InsertOrder(w), orders' # orders PROVE orders'[i] = orders[i]
  BY <1>0, <1>2, InsertedRow
<1>3. ASSUME NEW w \in Workers, NEW status, pc[w] \in Priced, orders' = Decided(w, status)
      PROVE  /\ orders'[i].ticker = orders[i].ticker
             /\ orders'[i].decision_trade_date = orders[i].decision_trade_date
             /\ \/ orders'[i].execution = orders[i].execution
                \/ request[w].order_id = i /\ orders'[i].execution = Calculated(w)
  <2>1. pc[w] \in OrderHeld
    BY <1>3 DEF Priced
  <2>2. CASE request[w].order_id = i
    <3>1. /\ orders[i] \in Order
          /\ orders'[i] = [orders[i] EXCEPT !.status = status, !.execution = Calculated(w)]
          /\ orders'[i].execution = Calculated(w)
      BY <1>0, <1>3, <2>1, <2>2, DecidedRow
    <3> QED
      BY <2>2, <3>1 DEF Order
  <2>3. CASE request[w].order_id # i
    <3>1. orders'[i] = orders[i]
      BY <1>0, <1>3, <2>1, <2>3, DecidedRow
    <3> QED
      BY <3>1
  <2> QED
    BY <2>2, <2>3
<1> QED
  BY <1>1, <1>2, <1>3, StepCases
  DEF Quiet, OpenAccount, SaveFilled, SaveRejected, Priced, OrderHeld, Locked

LEMMA PricesStep == IInv /\ PInv /\ [Next]_vars => PInv'
<1> SUFFICES ASSUME IInv, PInv, [Next]_vars PROVE PInv'
  OBVIOUS
<1>1. StoredOK'
  BY StoredStep
<1>2. ASSUME NEW w \in Workers, pc'[w] \in Priced PROVE ReadRests(w)'
  <2>1. CASE ReadPrice(w)
    <3>1. PICK i : i = request[w].order_id
      OBVIOUS
    <3>2. PICK t : t = orders[i].ticker
      OBVIOUS
    <3>3. PICK decided : decided = orders[i].decision_trade_date
      OBVIOUS
    <3>4. /\ i \in OrderIds
          /\ orders[i] \in Order
      BY <2>1, <3>1, RequestType, OrderType
      DEF ReadPrice, IInv, ReadsStayTrue, ReadsTrue, OrderHeld, Locked
    <3>5. t \in Tickers /\ decided \in Days
      BY <3>2, <3>3, <3>4 DEF Order
    <3>6. PICK row : row = EarliestOpenAfter(t, decided)
      OBVIOUS
    <3>7. /\ PricedAfter(t, decided) # {}
          /\ price'[w] = row
          /\ request'[w] = request[w]
          /\ orders' = orders
          /\ stored' = stored
      <4>1. ~ Finish(w)
        BY <1>2 DEF Finish, IInv, TypeOK, ThreadsOK, Priced, OrderHeld, Locked
      <4> QED
        BY <2>1, <3>1, <3>2, <3>3, <3>6, <4>1 DEF ReadPrice, Goto, tables, IInv, TypeOK, ThreadsOK
    <3>8. RestsOn(t, decided, row.trade_date, row.open_price, row.collection_run_id)
      BY <3>5, <3>6, <3>7, EarliestRests
    <3> QED
      BY <3>1, <3>2, <3>3, <3>7, <3>8 DEF ReadRests, RestsOn
  <2>2. CASE pc[w] \in Priced /\ request'[w] = request[w] /\ price'[w] = price[w]
    <3>1. PICK i : i = request[w].order_id
      OBVIOUS
    <3>2. PICK t : t = orders[i].ticker
      OBVIOUS
    <3>3. PICK decided : decided = orders[i].decision_trade_date
      OBVIOUS
    <3>4. PICK row : row = price[w]
      OBVIOUS
    <3>5. i \in Ids
      <4>1. i \in OrderIds
        BY <2>2, <3>1, RequestType DEF IInv, Priced, OrderHeld
      <4>2. orders[i].status = "pending"
        BY <2>2, <3>1 DEF IInv, ReadsStayTrue, ReadsTrue, Priced
      <4> QED
        BY <4>1, <4>2 DEF Ids, AbsentOrder
    <3>6. RestsOn(t, decided, row.trade_date, row.open_price, row.collection_run_id)
      BY <2>2, <3>1, <3>2, <3>3, <3>4 DEF PInv, ReadRests
    <3>7. RestsOn(t, decided, row.trade_date, row.open_price, row.collection_run_id)'
      BY <3>6, RestsStay
    <3>8. orders'[i].ticker = t /\ orders'[i].decision_trade_date = decided
      BY <3>2, <3>3, <3>5, AskedStays
    <3> QED
      BY <2>2, <3>1, <3>4, <3>7, <3>8 DEF ReadRests, RestsOn
  <2> QED
    BY <1>2, <2>1, <2>2, PricedThread
<1>3. ASSUME NEW i \in OrderIds, i \in Ids' PROVE DecisionRests(i)'
  <2> SUFFICES ASSUME orders'[i].execution # NoExecution PROVE DecisionRests(i)'
    BY DEF DecisionRests
  <2>1. CASE i \in Ids
    <3>1. PICK t : t = orders[i].ticker
      OBVIOUS
    <3>2. PICK decided : decided = orders[i].decision_trade_date
      OBVIOUS
    <3>3. PICK x : x = orders'[i].execution
      OBVIOUS
    <3>4. orders'[i].ticker = t /\ orders'[i].decision_trade_date = decided
      BY <2>1, <3>1, <3>2, AskedStays
    <3>5. RestsOn(t, decided, x.execution_trade_date, x.base_open_price_krw,
                  x.price_collection_run_id)
      <4>1. CASE x = orders[i].execution
        BY <2>1, <3>1, <3>2, <3>3, <4>1 DEF PInv, DecisionRests
      <4>2. ASSUME NEW w \in Workers, pc[w] \in Priced, request[w].order_id = i,
                   x = Calculated(w)
            PROVE  RestsOn(t, decided, x.execution_trade_date, x.base_open_price_krw,
                           x.price_collection_run_id)
        <5>1. /\ x.execution_trade_date = price[w].trade_date
              /\ x.base_open_price_krw = price[w].open_price
              /\ x.price_collection_run_id = price[w].collection_run_id
          BY <4>2 DEF Calculated, ComputeExecution
        <5>2. RestsOn(t, decided, price[w].trade_date, price[w].open_price,
                      price[w].collection_run_id)
          BY <3>1, <3>2, <4>2 DEF PInv, ReadRests
        <5> QED
          BY <5>1, <5>2
      <4> QED
        BY <2>1, <3>3, <4>1, <4>2, AskedStays
    <3>6. RestsOn(t, decided, x.execution_trade_date, x.base_open_price_krw,
                  x.price_collection_run_id)'
      BY <3>5, RestsStay
    <3> QED
      BY <3>3, <3>4, <3>6 DEF DecisionRests, RestsOn
  <2>2. CASE i \notin Ids
    <3>1. orders[i] = AbsentOrder /\ orders'[i] # AbsentOrder
      BY <1>3, <2>2 DEF Ids
    <3>2. \A w \in Workers : ReadsTrue(w)
      BY DEF IInv, ReadsStayTrue
    <3>3. TypeOK
      BY DEF IInv
    <3>4. ASSUME NEW w \in Workers, InsertOrder(w), orders' # orders
          PROVE  orders'[i].execution = NoExecution
      <4>1. PICK j \in OrderIds : /\ orders'[j] = NewOrder(w)
                                 /\ \A k \in OrderIds \ {j} : orders'[k] = orders[k]
        BY <3>2, <3>3, <3>4, InsertedRow
      <4>2. orders'[i] = NewOrder(w)
        BY <3>1, <4>1
      <4> QED
        BY <4>2 DEF NewOrder
    <3>5. ASSUME NEW w \in Workers, NEW status, pc[w] \in OrderHeld, orders' = Decided(w, status)
          PROVE  FALSE
      <4>1. request[w].order_id # i
        BY <3>1, <3>2, <3>3, <3>5, DecidedRow DEF Ids
      <4>2. orders'[i] = orders[i]
        BY <3>2, <3>3, <3>5, <4>1, DecidedRow
      <4> QED
        BY <3>1, <4>2
    <3> QED
      BY <3>1, <3>4, <3>5, StepCases
      DEF Quiet, OpenAccount, SaveFilled, SaveRejected, OrderHeld, Locked
  <2> QED
    BY <2>1, <2>2
<1>4. \A w \in Workers : ReadRests(w)'
  BY <1>2 DEF ReadRests
<1>5. \A i \in Ids' : DecisionRests(i)'
  BY <1>3 DEF Ids
<1> QED
  BY <1>1, <1>4, <1>5 DEF PInv

\* Every decision rests on an open that a run really stored after the day of the decision,
\* and skips no day stored by then, however collections and executes interleave
\* (market_data.py:221-228, orders.py:121-137).
THEOREM OpensWereStored == Spec => []FillsRestOnStoredOpens
<1>1. IInv /\ PInv /\ [Next]_vars => PInv'
  BY PricesStep
<1>2. PInv => FillsRestOnStoredOpens
  BY DEF PInv, DecisionRests, RestsOn, FillsRestOnStoredOpens
<1> QED
  BY <1>1, <1>2, InitPInv, Invariant, PTL DEF Spec

-----------------------------------------------------------------------------
(* The refinement.  A commit of SaveFilled or SaveRejected maps to Fill or Reject,    *)
(* OpenAccount to Open, InsertOrder to Place, and every other step to a stutter.      *)
(* Fill and Reject compare the cost with the balance at the moment of the commit, the *)
(* code compares it several statements earlier: ReadsStayTrue, a part of IInv, says   *)
(* that the comparison still holds.                                                   *)

\* The refinement mapping of Promise, under names of its own.
Opened  == {u \in Users : account[u] # NoAccount}
Balance == [u \in Users |-> AvailableCash(u)]
Owner   == [i \in OrderIds |-> IF orders[i] = AbsentOrder THEN NoUser ELSE orders[i].account]
Status  == [i \in OrderIds |-> orders[i].status]
Charged == [i \in OrderIds |->
              IF orders[i].status \in {"absent", "pending"} THEN 0
              ELSE Needed(orders[i].execution)]

LEMMA MappedInit == Init => Promise!Init
<1> SUFFICES ASSUME Init PROVE Promise!Init
  OBVIOUS
<1>1. \A u \in Users : AvailableCash(u) = 0
  <2>1. \A u : Entries(u) = {}
    BY DEF Init, Entries
  <2> QED
    BY <2>1, SumEmpty DEF AvailableCash
<1>2. \A i \in OrderIds : orders[i] = AbsentOrder /\ orders[i].status = "absent"
  BY DEF Init, AbsentOrder
<1>3. Opened = {}
  BY DEF Init, Opened
<1>4. Balance = [u \in Users |-> 0]
  BY <1>1 DEF Balance
<1>5. /\ Owner = [i \in OrderIds |-> NoUser]
      /\ Status = [i \in OrderIds |-> "absent"]
      /\ Charged = [i \in OrderIds |-> 0]
  BY <1>2 DEF Owner, Status, Charged
<1> QED
  BY <1>3, <1>4, <1>5 DEF Promise!Init, Opened, Balance, Owner, Status, Charged

-----------------------------------------------------------------------------
(* How the mapping moves *)

\* The ledger that is left alone leaves the balances.
LEMMA BalanceKept ==
  ASSUME UNCHANGED ledger
  PROVE  UNCHANGED Balance
BY CashUnchanged DEF Balance

\* An order that is written moves its own entry of the mapping and no other.
LEMMA OneOrderMoves ==
  ASSUME NEW i \in OrderIds, \A j \in OrderIds \ {i} : orders'[j] = orders[j]
  PROVE  /\ Owner' = [Owner EXCEPT ![i] = Owner'[i]]
         /\ Status' = [Status EXCEPT ![i] = orders'[i].status]
         /\ Charged' = [Charged EXCEPT ![i] = Charged'[i]]
BY DEF Owner, Status, Charged, Needed

\* What deciding an order, which keeps its account, does to the mapping.
LEMMA DecisionMoves ==
  ASSUME TypeOK, NEW w \in Workers, ReadsTrue(w), pc[w] \in OrderHeld \ {"readPrice"},
         NEW status \in {"filled", "rejected_insufficient_cash"},
         orders' = Decided(w, status)
  PROVE  LET i == request[w].order_id
         IN  /\ i \in OrderIds
             /\ Status[i] = "pending"
             /\ Owner[i] = request[w].user
             /\ UNCHANGED Owner
             /\ Status' = [Status EXCEPT ![i] = status]
             /\ Charged'[i] = Needed(Calculated(w))
             /\ Charged' = [Charged EXCEPT ![i] = Charged'[i]]
<1> DEFINE i == request[w].order_id
<1>1. /\ i \in Ids
      /\ orders[i].status = "pending"
      /\ orders'[i].status = status
      /\ orders'[i].execution = Calculated(w)
      /\ orders'[i].account = request[w].user
      /\ \A j \in OrderIds \ {i} : orders'[j] = orders[j]
  BY DecidedRow
<1>2. i \in OrderIds /\ orders[i] # AbsentOrder /\ orders'[i] # AbsentOrder
  BY <1>1 DEF Ids, AbsentOrder
<1>3. orders[i].account = request[w].user
  BY DEF ReadsTrue
<1> HIDE DEF i
<1>4. Status[i] = "pending" /\ Owner[i] = request[w].user /\ Owner'[i] = request[w].user
  BY <1>1, <1>2, <1>3 DEF Status, Owner
<1>5. Charged'[i] = Needed(Calculated(w))
  BY <1>1, <1>2 DEF Charged, Needed
<1>6. /\ Owner' = [Owner EXCEPT ![i] = Owner'[i]]
      /\ Status' = [Status EXCEPT ![i] = status]
      /\ Charged' = [Charged EXCEPT ![i] = Charged'[i]]
  BY <1>1, <1>2, OneOrderMoves
<1>7. UNCHANGED Owner
  BY <1>4, <1>6, <1>2 DEF Owner
<1> QED
  BY <1>2, <1>4, <1>5, <1>6, <1>7 DEF i

-----------------------------------------------------------------------------
(* Every step maps to a step or a stutter *)

LEMMA MappedOpen ==
  ASSUME IInv, NEW u \in Users, NEW policy \in Policies, OpenAccount(u, policy)
  PROVE  Promise!Open(u)
<1> USE DEF IInv
<1>1. PICK row : row = [id                 |-> Cardinality(ledger) + 1,
                        account            |-> u,
                        entry_type         |-> "opening_balance",
                        amount_krw         |-> policy.initial_cash_krw,
                        execution_order_id |-> 0]
  OBVIOUS
<1>2. /\ policy.initial_cash_krw \in Positive
      /\ \A v : AvailableCash(v)' =
           IF v = u THEN AvailableCash(v) + policy.initial_cash_krw ELSE AvailableCash(v)
  BY <1>1, OpeningEntry
<1>3. AvailableCash(u) \in Int /\ AvailableCash(u) >= 0
  BY CashType DEF NonNegativeCash
<1>4. /\ account[u] = NoAccount
      /\ account'[u] # NoAccount
      /\ \A v \in Users \ {u} : account'[v] = account[v]
      /\ orders' = orders
  BY ConstantsAssumption DEF OpenAccount, TypeOK, TablesOK
<1>5. u \notin Opened /\ Opened' = Opened \cup {u}
  BY <1>4 DEF Opened
<1>6. Balance'[u] > 0
  BY <1>2, <1>3 DEF Balance, Positive
<1>7. Balance' = [Balance EXCEPT ![u] = Balance'[u]]
  BY <1>2 DEF Balance
<1>8. UNCHANGED <<Owner, Status, Charged>>
  BY <1>4 DEF Owner, Status, Charged
<1> QED
  BY <1>5, <1>6, <1>7, <1>8 DEF Promise!Open, Opened, Balance, Owner, Status, Charged

LEMMA MappedPlace ==
  ASSUME IInv, NEW w \in Workers, InsertOrder(w), orders' # orders
  PROVE  \E u \in Users, i \in OrderIds : Promise!Place(u, i)
<1>1. PICK i \in OrderIds :
        /\ orders[i] = AbsentOrder
        /\ orders'[i].status = "pending"
        /\ orders'[i].account \in Users
        /\ account[orders'[i].account] # NoAccount
        /\ \A j \in OrderIds \ {i} : orders'[j] = orders[j]
  BY InsertedRow DEF IInv, ReadsStayTrue
<1>2. PICK u \in Users : u = orders'[i].account
  BY <1>1
<1>3. u \in Opened /\ Status[i] = "absent"
  BY <1>1, <1>2 DEF Opened, Status, AbsentOrder
<1>4. Owner'[i] = u /\ Charged'[i] = 0 /\ Charged[i] = 0
  BY <1>1, <1>2 DEF Owner, Charged, AbsentOrder
<1>5. /\ Owner' = [Owner EXCEPT ![i] = u]
      /\ Status' = [Status EXCEPT ![i] = "pending"]
      /\ Charged' = [Charged EXCEPT ![i] = Charged'[i]]
  BY <1>1, <1>4, OneOrderMoves
<1>6. UNCHANGED Charged
  BY <1>4, <1>5 DEF Charged
<1>7. UNCHANGED <<account, ledger>>
  BY DEF InsertOrder
<1>8. UNCHANGED <<Opened, Balance>>
  BY <1>7, BalanceKept DEF Opened
<1>9. Promise!Place(u, i)
  BY <1>3, <1>5, <1>6, <1>8 DEF Promise!Place, Opened, Balance, Owner, Status, Charged
<1> QED
  BY <1>9

LEMMA MappedFill ==
  ASSUME IInv, NEW w \in Workers, SaveFilled(w)
  PROVE  \E i \in OrderIds : Promise!Fill(i)
<1> USE DEF IInv
<1>0. PICK i \in OrderIds, u \in Users : i = request[w].order_id /\ u = request[w].user
  BY RequestType DEF SaveFilled, Locked
<1>1. ReadsTrue(w) /\ pc[w] \in OrderHeld \ {"readPrice"}
  BY DEF ReadsStayTrue, SaveFilled, OrderHeld, Locked
<1>2. Needed(Calculated(w)) \in Positive
  BY <1>1, CalculatedType
<1>3. /\ i \in OrderIds
      /\ Status[i] = "pending"
      /\ Owner[i] = u
      /\ UNCHANGED Owner
      /\ Status' = [Status EXCEPT ![i] = "filled"]
      /\ Charged'[i] = Needed(Calculated(w))
      /\ Charged' = [Charged EXCEPT ![i] = Charged'[i]]
  BY <1>0, <1>1, DecisionMoves DEF SaveFilled
<1>4. \A v : AvailableCash(v)' =
        IF v = u THEN AvailableCash(v) - Needed(Calculated(w)) ELSE AvailableCash(v)
  BY <1>0, FillEntry
<1>5. AvailableCash(u) >= Needed(Calculated(w)) /\ AvailableCash(u) \in Int
  <2>1. cash[w] = AvailableCash(u) /\ ~ (cash[w] < Needed(Calculated(w)))
    BY <1>0, <1>1 DEF SaveFilled, ReadsTrue
  <2>2. AvailableCash(u) \in Int
    BY CashType
  <2> QED
    BY <1>2, <2>1, <2>2 DEF Positive
<1>6. Balance[Owner[i]] >= Charged'[i]
  BY <1>1, <1>3, <1>5 DEF Balance
<1>7. Balance' = [Balance EXCEPT ![Owner[i]] = @ - Charged'[i]]
  BY <1>1, <1>3, <1>4 DEF Balance
<1>8. UNCHANGED Opened
  BY DEF SaveFilled, Opened
<1>9. Charged'[i] > 0
  BY <1>2, <1>3 DEF Positive
<1>10. Promise!Fill(i)
  BY <1>3, <1>6, <1>7, <1>8, <1>9
  DEF Promise!Fill, Promise!Priced, Opened, Balance, Owner, Status, Charged
<1> QED
  BY <1>3, <1>10

LEMMA MappedReject ==
  ASSUME IInv, NEW w \in Workers, SaveRejected(w),
         orders' = Decided(w, "rejected_insufficient_cash")
  PROVE  \E i \in OrderIds : Promise!Reject(i)
<1> USE DEF IInv
<1>0. PICK i \in OrderIds, u \in Users : i = request[w].order_id /\ u = request[w].user
  BY RequestType DEF SaveRejected, Locked
<1>1. ReadsTrue(w) /\ pc[w] \in OrderHeld \ {"readPrice"}
  BY DEF ReadsStayTrue, SaveRejected, OrderHeld, Locked
<1>2. Needed(Calculated(w)) \in Positive
  BY <1>1, CalculatedType
<1>3. /\ i \in OrderIds
      /\ Status[i] = "pending"
      /\ Owner[i] = u
      /\ UNCHANGED Owner
      /\ Status' = [Status EXCEPT ![i] = "rejected_insufficient_cash"]
      /\ Charged'[i] = Needed(Calculated(w))
      /\ Charged' = [Charged EXCEPT ![i] = Charged'[i]]
  BY <1>0, <1>1, DecisionMoves
<1>4. AvailableCash(u) < Needed(Calculated(w))
  BY <1>0, <1>1 DEF SaveRejected, ReadsTrue
<1>5. UNCHANGED <<account, ledger>>
  BY DEF SaveRejected
<1>6. Balance[Owner[i]] < Charged'[i]
  BY <1>1, <1>3, <1>4 DEF Balance
<1>7. UNCHANGED <<Opened, Balance>>
  BY <1>5, BalanceKept DEF Opened
<1>8. Charged'[i] > 0
  BY <1>2, <1>3 DEF Positive
<1>9. Promise!Reject(i)
  BY <1>3, <1>6, <1>7, <1>8
  DEF Promise!Reject, Promise!Priced, Opened, Balance, Owner, Status, Charged
<1> QED
  BY <1>3, <1>9

LEMMA MappedStep == IInv /\ [Next]_vars => [Promise!Next]_(Promise!vars)
<1> SUFFICES ASSUME IInv, [Next]_vars PROVE Promise!Next \/ UNCHANGED Promise!vars
  OBVIOUS
<1>1. CASE Quiet
  <2>1. UNCHANGED <<Opened, Balance, Owner, Status, Charged>>
    BY <1>1, BalanceKept DEF Quiet, Opened, Owner, Status, Charged
  <2> QED
    BY <2>1 DEF Promise!vars, Opened, Balance, Owner, Status, Charged
<1>2. ASSUME NEW u \in Users, NEW policy \in Policies, OpenAccount(u, policy)
      PROVE  Promise!Next
  BY <1>2, MappedOpen DEF Promise!Next
<1>3. ASSUME NEW w \in Workers, InsertOrder(w), orders' # orders PROVE Promise!Next
  BY <1>3, MappedPlace DEF Promise!Next
<1>4. ASSUME NEW w \in Workers, SaveFilled(w) PROVE Promise!Next
  BY <1>4, MappedFill DEF Promise!Next
<1>5. ASSUME NEW w \in Workers, SaveRejected(w),
             orders' = Decided(w, "rejected_insufficient_cash")
      PROVE  Promise!Next
  BY <1>5, MappedReject DEF Promise!Next
<1> QED
  BY <1>1, <1>2, <1>3, <1>4, <1>5, StepCases

\* The order service implements the promise of CashAccount: every order is decided in one
\* indivisible step, by the balance of that moment (orders.py:102-152).
THEOREM Refinement == Spec => ImplementsCashAccount
BY MappedInit, MappedStep, Invariant, PTL DEF Spec, ImplementsCashAccount, Promise!Spec

=============================================================================
