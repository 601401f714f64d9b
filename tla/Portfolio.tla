------------------------------ MODULE Portfolio ------------------------------
(***************************************************************************)
(* The dashboard's portfolio: portfolio.compute_portfolio, run by threads  *)
(* that only read, beside the threads and collections of VirtualOrders     *)
(* that write.                                                             *)
(*                                                                         *)
(* A page is computed by several SELECTs outside any transaction (there is *)
(* no ATOMIC_REQUESTS), and each sees what was committed before it: the    *)
(* filled orders, the days stored for each ticker held, the closing price  *)
(* of each on the day chosen, and last the cash.  An order may be filled,  *)
(* and a collection stored, between any two of them.                       *)
(*                                                                         *)
(* A closing price is the identity of its row; market values and rates of  *)
(* return, which are sums and quotients of what a page holds, are left     *)
(* out.  So is the branch for an account whose initial cash is not above   *)
(* zero: no policy opens one.                                              *)
(***************************************************************************)
EXTENDS VirtualOrders

LOCAL INSTANCE FiniteSetsExt

CONSTANTS
  Readers,      \* the threads that compute pages
  NoPage

VARIABLES
  at,           \* the statement each reader executes next
  page          \* what each reader has read, and of a computed page all it shows

pages == <<at, page>>

Reasons == {"none", "incomplete_fill_data", "no_common_valuation_date"}

\* best is history: the day the page would show had it read everything at once, at first.
IsPage(p) ==
  /\ p \in [user : Users, filled : {p.filled}, left : SUBSET Tickers, common : SUBSET Days,
            valuation_trade_date : {0} \cup Days, closes : {p.closes}, cash : Int,
            unavailable_reason : Reasons, best : {0} \cup Days]
  /\ DOMAIN p.filled \subseteq OrderIds /\ p.filled \in [DOMAIN p.filled -> Order]
  /\ DOMAIN p.closes \subseteq Tickers /\ p.closes \in [DOMAIN p.closes -> PriceRow]

-----------------------------------------------------------------------------
(* The pure parts of portfolio.py *)

IsComplete(order) ==
  /\ order.execution # NoExecution
  /\ order.quantity > 0
  /\ order.execution.gross_amount_krw > 0
  /\ order.execution.fee_krw >= 0

Holds(filled)           == {filled[i].ticker : i \in DOMAIN filled}
LatestExecution(filled) == Max({filled[i].execution.execution_trade_date : i \in DOMAIN filled})

Costs(filled) ==
  {[order |-> i, amount_krw |-> Needed(filled[i].execution)] : i \in DOMAIN filled}

Cost(filled) == SumAmount(Costs(filled))

DatesOf(t) == {d \in Days : dailyPrice[t][d] # NoRow}

\* Mutant: the day of the last execution itself no longer counts.
PickedDayStrict(common, filled) ==
  LET candidates == {d \in common : d > LatestExecution(filled)}
  IN  IF candidates = {} THEN 0 ELSE Max(candidates)

\* The latest common day that no execution is later than; 0 stands for None.
PickedDay(common, filled) ==
  LET candidates == {d \in common : d >= LatestExecution(filled)}
  IN  IF candidates = {} THEN 0 ELSE Max(candidates)

\* Mutant: a rejected order, whose amounts are saved as well, counts as held.
FilledOrdersDecided(u) ==
  [i \in {j \in Ids : orders[j].account = u /\ orders[j].status # "pending"} |-> orders[i]]

FilledOrders(u) ==
  [i \in {j \in Ids : orders[j].account = u /\ orders[j].status = "filled"} |-> orders[i]]

-----------------------------------------------------------------------------
PageInit ==
  /\ Init
  /\ at = [r \in Readers |-> "idle"]
  /\ page = [r \in Readers |-> NoPage]

Step(r, statement, read) ==
  /\ at' = [at EXCEPT ![r] = statement]
  /\ page' = [page EXCEPT ![r] = read]
  /\ UNCHANGED vars

\* views.dashboard: a user without an account gets a page without a portfolio.
Dashboard(r, u) ==
  /\ at[r] = "idle"
  /\ IF account[u] = NoAccount
     THEN Step(r, "idle", NoPage)
     ELSE Step(r, "readFilled",
            [user |-> u, filled |-> << >>, left |-> {}, common |-> Days,
             valuation_trade_date |-> 0, closes |-> << >>, cash |-> 0,
             unavailable_reason |-> "none", best |-> 0])

\* History: the day of a page that sees all its rows now.
BestDay(filled) ==
  Max({0} \cup {d \in Days : /\ d >= LatestExecution(filled)
                             /\ \A t \in Holds(filled) : dailyPrice[t][d] # NoRow})

ReadFilled(r) ==
  LET filled == FilledOrders(page[r].user)
      read   == [page[r] EXCEPT !.filled = filled,
                                !.best = IF filled = << >> THEN 0 ELSE BestDay(filled)]
  IN  /\ at[r] = "readFilled"
      /\ IF filled = << >>
         THEN Step(r, "readCash", read)
         ELSE IF \E i \in DOMAIN filled : ~IsComplete(filled[i])
         THEN Step(r, "readCash", [read EXCEPT !.unavailable_reason = "incomplete_fill_data"])
         ELSE Step(r, "readDates", [read EXCEPT !.left = Holds(filled)])

Unavailable(read) == [read EXCEPT !.unavailable_reason = "no_common_valuation_date"]

\* Mutant: the days of the tickers are united.
ReadDatesUnited(r) ==
  /\ at[r] = "readDates"
  /\ \E t \in page[r].left :
       LET seen   == IF page[r].left = Holds(page[r].filled) THEN {} ELSE page[r].common
           common == seen \cup DatesOf(t)
           left   == page[r].left \ {t}
           read   == [page[r] EXCEPT !.common = common, !.left = left]
           day    == PickedDay(common, read.filled)
       IN  CASE left # {} -> Step(r, "readDates", read)
             [] left = {} /\ day = 0 -> Step(r, "readCash", Unavailable(read))
             [] OTHER -> Step(r, "readClose", [read EXCEPT !.valuation_trade_date = day,
                                                           !.left = Holds(read.filled)])

\* Mutant: the day is used without a look at whether there is one.
ReadDatesUnasked(r) ==
  /\ at[r] = "readDates"
  /\ \E t \in page[r].left :
       LET common == page[r].common \cap DatesOf(t)
           left   == page[r].left \ {t}
           read   == [page[r] EXCEPT !.common = common, !.left = left]
       IN  IF left # {}
           THEN Step(r, "readDates", read)
           ELSE Step(r, "readClose",
                  [read EXCEPT !.valuation_trade_date = PickedDay(common, read.filled),
                               !.left = Holds(read.filled)])

\* One turn of _pick_valuation_date; the tickers come in any order.
ReadDates(r) ==
  /\ at[r] = "readDates"
  /\ \E t \in page[r].left :
       LET common == page[r].common \cap DatesOf(t)
           left   == page[r].left \ {t}
           read   == [page[r] EXCEPT !.common = common, !.left = left]
           day    == PickedDay(common, read.filled)
       IN  IF \/ common = {}
              \/ left = {} /\ day = 0
           THEN Step(r, "readCash", Unavailable(read))
           ELSE IF left # {}
           THEN Step(r, "readDates", read)
           ELSE Step(r, "readClose", [read EXCEPT !.valuation_trade_date = day,
                                                  !.left = Holds(read.filled)])

\* One turn of the loop over the holdings.  On a row that is not there the handler would
\* stop with an AttributeError.
ReadClose(r) ==
  /\ at[r] = "readClose"
  /\ \E t \in page[r].left :
       LET row  == dailyPrice[t][page[r].valuation_trade_date]
           left == page[r].left \ {t}
           held == {t} \cup DOMAIN page[r].closes
           read == [page[r] EXCEPT
                      !.left = left,
                      !.closes = [s \in held |-> IF s = t THEN row ELSE page[r].closes[s]]]
       IN  IF row = NoRow
           THEN Step(r, "idle", NoPage)                                   \* 500
           ELSE Step(r, IF left = {} THEN "readCash" ELSE "readClose", read)

ReadPageCash(r) ==
  /\ at[r] = "readCash"
  /\ Step(r, "idle", [page[r] EXCEPT !.cash = AvailableCash(page[r].user)])

Write == Next /\ UNCHANGED pages

PageNext ==
  \/ Write
  \/ \E r \in Readers, u \in Users : Dashboard(r, u)
  \/ \E r \in Readers : ReadFilled(r)
  \/ \E r \in Readers : ReadDates(r)
  \/ \E r \in Readers : ReadClose(r)
  \/ \E r \in Readers : ReadPageCash(r)

PageSpec == PageInit /\ [][PageNext]_<<vars, pages>>

-----------------------------------------------------------------------------
(* Properties *)

Computed(r) == at[r] = "idle" /\ page[r] # NoPage

Valued(r) ==
  /\ page[r].filled # << >>
  /\ page[r].unavailable_reason = "none"

InitialCash(r) == account[page[r].user].initial_cash_krw

EmptyPnl(r) == page[r].cash - InitialCash(r)

\* A page holds what its reader has read by now: a day once one is chosen, and one price
\* for every ticker held once it is computed.
PagesOK ==
  /\ at \in [Readers -> {"idle", "readFilled", "readDates", "readClose", "readCash"}]
  /\ \A r \in Readers :
       /\ IF at[r] = "idle" THEN page[r] = NoPage \/ IsPage(page[r]) ELSE IsPage(page[r])
       /\ at[r] = "readDates" => page[r].left # {}
       /\ at[r] = "readClose" => page[r].left # {} /\ page[r].valuation_trade_date \in Days
       /\ Computed(r) /\ Valued(r) => DOMAIN page[r].closes = Holds(page[r].filled)

\* The price row of the day chosen is there for every holding when it is read, although
\* the day was chosen from earlier reads, one per ticker (portfolio.py:177-180 use the row
\* without asking whether it is None).
ClosesAreThere ==
  \A r \in Readers : at[r] = "readClose" =>
    \A t \in Holds(page[r].filled) : dailyPrice[t][page[r].valuation_trade_date] # NoRow

\* Collections stored while a page is computed never make its day worse: all its prices
\* are of one day, no holding is bought later, and it is no earlier than the day a page
\* read in one instant would have shown; a page says it has no day only if there was none
\* when it began, and never for a fill that execute_order left incomplete
\* (portfolio.py:62-73 after 109).
DayIsOfTheRead ==
  \A r \in Readers : Computed(r) =>
    /\ Valued(r) =>
         /\ page[r].valuation_trade_date >= LatestExecution(page[r].filled)
         /\ page[r].valuation_trade_date >= page[r].best
         /\ \A t \in Holds(page[r].filled) : page[r].closes[t] # NoRow
    /\ page[r].unavailable_reason = "no_common_valuation_date" => page[r].best = 0
    /\ page[r].unavailable_reason # "incomplete_fill_data"

\* The cash of a page and the cost of its holdings add up to the initial cash, less what
\* the orders filled after it read its orders cost: a page may show too little, for the
\* cash is read last, and never shows money that is not there (portfolio.py:109, 197).
TotalsMissOnlyLaterFills ==
  [][\A r \in Readers : ReadPageCash(r) =>
       LET now   == FilledOrders(page[r].user)
           later == [i \in DOMAIN now \ DOMAIN page[r].filled |-> now[i]]
       IN  page'[r].cash + Cost(page[r].filled) = InitialCash(r) - Cost(later)
    ]_<<vars, pages>>

\* What T-006-portfolio-dashboard.md says of a page without holdings: its total profit is 0.
EmptyPageShowsNoProfit ==
  \A r \in Readers : Computed(r) /\ page[r].filled = << >> => EmptyPnl(r) = 0

=============================================================================
