--------------------------- MODULE Portfolio_proofs ---------------------------
(***************************************************************************)
(* A page of the portfolio is sound for any number of readers beside any   *)
(* number of writers.                                                      *)
(*                                                                         *)
(* The pages need nothing of the writers but that prices, once stored, are *)
(* there for ever (RowsStay), and that a filled order carries a whole      *)
(* execution, which is part of the invariant IInv of the order service.    *)
(* What a reader has read, Sound says statement by statement: the days it  *)
(* still considers have a price for every ticker it has looked at, and the *)
(* best day is among them.                                                 *)
(***************************************************************************)
EXTENDS Portfolio, VirtualOrders_proofs

LOCAL INSTANCE FiniteSetsExt

-----------------------------------------------------------------------------
(* Days *)

\* Days are numbered within bounds, so a set of them that is not empty has a last one.
LEMMA LastOf ==
  ASSUME NEW S, S \subseteq {0} \cup Days, S # {}
  PROVE  Max(S) \in S /\ \A d \in S : Max(S) >= d
<1> DEFINE Left == {LastDay - d : d \in S}
<1>1. LastDay \in Nat /\ \A d \in S : d \in Nat /\ d <= LastDay
  BY ConstantsAssumption DEF Days
<1>2. Left \subseteq Nat /\ Left # {}
  <2>1. \A d \in S : LastDay - d \in Nat
    BY <1>1
  <2> QED
    BY <2>1
<1>3. PICK n \in Left : \A m \in Left : ~ (<<m, n>> \in OpToRel(<, Nat))
  BY <1>2, NatLessThanWellFounded, WFMin
<1>4. \A m \in Left : ~ (m < n)
  BY <1>2, <1>3 DEF OpToRel
<1>5. PICK last \in S : n = LastDay - last
  OBVIOUS
<1>6. ASSUME NEW d \in S PROVE last >= d
  <2>1. ~ (LastDay - d < LastDay - last)
    BY <1>4, <1>5
  <2> QED
    BY <1>1, <2>1
<1> QED
  BY <1>6 DEF Max

\* What a page has read of the orders: rows of the user's orders, each with its execution.
Fills(filled) ==
  /\ filled \in [DOMAIN filled -> Order]
  /\ \A i \in DOMAIN filled : filled[i].execution \in Execution

LEMMA HoldsType ==
  ASSUME NEW filled, filled \in [DOMAIN filled -> Order]
  PROVE  Holds(filled) \subseteq Tickers
BY DEF Holds, Order

LEMMA HoldsSome ==
  ASSUME NEW filled, Fills(filled), filled # << >>
  PROVE  DOMAIN filled # {} /\ Holds(filled) # {}
<1>1. PICK D : D = DOMAIN filled
  OBVIOUS
<1>2. filled \in [D -> Order]
  BY <1>1 DEF Fills
<1>3. D # {}
  BY <1>2
<1> QED
  BY <1>1, <1>3 DEF Holds

LEMMA LatestType ==
  ASSUME NEW filled, Fills(filled), filled # << >>
  PROVE  LatestExecution(filled) \in Days
<1> DEFINE S == {filled[i].execution.execution_trade_date : i \in DOMAIN filled}
<1>1. S \subseteq Days /\ S # {}
  BY HoldsSome DEF Fills, Execution
<1>2. LatestExecution(filled) = Max(S)
  BY DEF LatestExecution
<1> HIDE DEF S
<1> QED
  BY <1>1, <1>2, LastOf

\* The day picked is the last one that every read allows and no execution is later than.
LEMMA PickedDayIsLast ==
  ASSUME NEW filled, Fills(filled), filled # << >>, NEW common, common \subseteq Days
  PROVE  /\ PickedDay(common, filled) \in {0} \cup common
         /\ PickedDay(common, filled) # 0 => PickedDay(common, filled) >= LatestExecution(filled)
         /\ \A d \in common : d >= LatestExecution(filled) =>
              PickedDay(common, filled) # 0 /\ PickedDay(common, filled) >= d
<1> DEFINE candidates == {d \in common : d >= LatestExecution(filled)}
<1>1. PickedDay(common, filled) = IF candidates = {} THEN 0 ELSE Max(candidates)
  BY DEF PickedDay
<1>2. candidates \subseteq {0} \cup Days /\ 0 \notin common
  <2>1. 0 \notin Days
    BY ConstantsAssumption DEF Days
  <2> QED
    BY <2>1
<1>3. CASE candidates = {}
  BY <1>1, <1>3
<1>4. CASE candidates # {}
  <2>1. Max(candidates) \in candidates /\ \A d \in candidates : Max(candidates) >= d
    BY <1>2, <1>4, LastOf
  <2> HIDE DEF candidates
  <2>2. PickedDay(common, filled) \in candidates
        /\ \A d \in candidates : PickedDay(common, filled) >= d
    BY <1>1, <1>4, <2>1
  <2> USE DEF candidates
  <2> QED
    BY <1>2, <2>2
<1> QED
  BY <1>3, <1>4

LEMMA BestDayIsStored ==
  ASSUME NEW filled
  PROVE  /\ BestDay(filled) \in {0} \cup Days
         /\ BestDay(filled) # 0 =>
              /\ BestDay(filled) >= LatestExecution(filled)
              /\ \A t \in Holds(filled) : dailyPrice[t][BestDay(filled)] # NoRow
<1> DEFINE good == {d \in Days : /\ d >= LatestExecution(filled)
                                 /\ \A t \in Holds(filled) : dailyPrice[t][d] # NoRow}
<1>1. BestDay(filled) = Max({0} \cup good)
  BY DEF BestDay
<1>2. Max({0} \cup good) \in {0} \cup good
  <2>1. {0} \cup good \subseteq {0} \cup Days /\ {0} \cup good # {}
    OBVIOUS
  <2> HIDE DEF good
  <2> QED
    BY <2>1, LastOf
<1> QED
  BY <1>1, <1>2

-----------------------------------------------------------------------------
(* What a reader has read *)

Begun(p) ==
  /\ p.common = Days
  /\ DOMAIN p.closes = {}
  /\ p.unavailable_reason = "none"

\* The days left have a price for every ticker read, and the best day is one of them.
Dating(p) ==
  /\ DOMAIN p.closes = {}
  /\ p.unavailable_reason = "none"
  /\ p.filled # << >>
  /\ p.left # {} /\ p.left \subseteq Holds(p.filled)
  /\ \A t \in Holds(p.filled) \ p.left : \A d \in p.common : dailyPrice[t][d] # NoRow
  /\ p.best # 0 =>
       /\ p.best \in p.common
       /\ p.best >= LatestExecution(p.filled)
       /\ \A t \in Holds(p.filled) : dailyPrice[t][p.best] # NoRow

Closing(p) ==
  /\ p.unavailable_reason = "none"
  /\ p.filled # << >>
  /\ p.left # {} /\ p.left \subseteq Holds(p.filled)
  /\ DOMAIN p.closes = Holds(p.filled) \ p.left
  /\ p.valuation_trade_date \in Days
  /\ p.valuation_trade_date >= LatestExecution(p.filled)
  /\ p.valuation_trade_date >= p.best
  /\ \A t \in Holds(p.filled) : dailyPrice[t][p.valuation_trade_date] # NoRow

Shown(p) ==
  /\ p.filled # << >> /\ p.unavailable_reason = "none" =>
       /\ DOMAIN p.closes = Holds(p.filled)
       /\ p.valuation_trade_date >= LatestExecution(p.filled)
       /\ p.valuation_trade_date >= p.best
  /\ p.unavailable_reason = "no_common_valuation_date" => p.best = 0
  /\ p.unavailable_reason # "incomplete_fill_data"

Statements == {"idle", "readFilled", "readDates", "readClose", "readCash"}

Sound(s, p) ==
  /\ s \in Statements
  /\ \/ s = "idle" /\ p = NoPage
     \/ /\ IsPage(p)
        /\ Fills(p.filled)
        /\ s = "readFilled" => Begun(p)
        /\ s = "readDates"  => Dating(p)
        /\ s = "readClose"  => Closing(p)
        /\ s \in {"idle", "readCash"} => Shown(p)

PageInv ==
  /\ at \in [Readers -> Statements] /\ DOMAIN page = Readers
  /\ \A r \in Readers : Sound(at[r], page[r])

\* A price, once stored, may be overwritten and never disappears.
RowsStay ==
  \A t \in Tickers, d \in Days : dailyPrice[t][d] # NoRow => dailyPrice'[t][d] # NoRow

LEMMA PricesStay == IInv /\ [Next]_vars => RowsStay
<1> SUFFICES ASSUME IInv, [Next]_vars PROVE RowsStay
  OBVIOUS
<1>1. CASE UNCHANGED <<dailyPrice, runs, stored>>
  BY <1>1 DEF RowsStay
<1>2. ASSUME NEW t \in Tickers, NEW batch \in Batches, StoreCollection(t, batch) PROVE RowsStay
  <2>1. dailyPrice \in [Tickers -> [Days -> PriceRow \cup {NoRow}]] /\ runs \in 0 .. MaxRuns
    BY DEF IInv, TypeOK, TablesOK
  <2>2. runs + 1 \in 1 .. MaxRuns
    BY <1>2, <2>1, ConstantsAssumption DEF StoreCollection
  <2>3. \A d \in DOMAIN batch :
          [open_price |-> batch[d], collection_run_id |-> runs + 1] # NoRow
    BY <2>2, ConstantsAssumption DEF PriceRow
  <2> QED
    BY <1>2, <2>1, <2>3 DEF StoreCollection, RowsStay
<1> QED
  BY <1>1, <1>2, PriceTableCases

\* What a reader has read stays sound while writers write.
LEMMA SoundStays ==
  ASSUME RowsStay, NEW s, NEW p, Sound(s, p)
  PROVE  Sound(s, p)'
<1>1. CASE s = "idle" /\ p = NoPage
  BY <1>1 DEF Sound
<1>2. CASE ~ (s = "idle" /\ p = NoPage)
  <2>1. IsPage(p) /\ Holds(p.filled) \subseteq Tickers /\ p.common \subseteq Days
    BY <1>2, HoldsType DEF Sound, IsPage
  <2>2. Dating(p) => Dating(p)'
    BY <2>1 DEF RowsStay, Dating, Begun
  <2>3. Closing(p) => Closing(p)'
    BY <2>1 DEF RowsStay, Closing
  <2> QED
    BY <1>2, <2>2, <2>3 DEF Sound, Begun, Shown
<1> QED
  BY <1>1, <1>2

-----------------------------------------------------------------------------
(* The statements of a reader *)

LEMMA SoundStep ==
  ASSUME PageInv, NEW r \in Readers, NEW s, NEW p, Step(r, s, p), Sound(s, p)
  PROVE  PageInv'
<1>1. RowsStay
  BY DEF Step, vars, RowsStay
<1>2. /\ at' \in [Readers -> Statements] /\ DOMAIN page' = Readers
      /\ at'[r] = s /\ page'[r] = p
      /\ \A x \in Readers \ {r} : at'[x] = at[x] /\ page'[x] = page[x]
  BY DEF Step, PageInv, Sound
<1>3. ASSUME NEW x \in Readers, NEW s0, NEW p0, at'[x] = s0, page'[x] = p0, Sound(s0, p0)
      PROVE  Sound(at[x], page[x])'
  <2>1. Sound(s0, p0)'
    BY <1>1, <1>3, SoundStays
  <2> QED
    BY <1>3, <2>1
<1>4. \A x \in Readers : Sound(at[x], page[x])'
  BY <1>2, <1>3 DEF PageInv
<1> QED
  BY <1>2, <1>4 DEF PageInv

LEMMA DashboardStep ==
  ASSUME IInv, PageInv, NEW r \in Readers, NEW u \in Users, Dashboard(r, u)
  PROVE  PageInv'
<1> DEFINE p == [user |-> u, filled |-> << >>, left |-> {}, common |-> Days,
                 valuation_trade_date |-> 0, closes |-> << >>, cash |-> 0,
                 unavailable_reason |-> "none", best |-> 0]
<1>1. IsPage(p)
  <2>1. DOMAIN << >> = {} /\ << >> \in [{} -> Order] /\ << >> \in [{} -> PriceRow]
    OBVIOUS
  <2> QED
    BY <2>1 DEF IsPage, Reasons
<1>2. Fills(p.filled) /\ Begun(p)
  BY DEF Fills, Begun
<1>3. Sound("readFilled", p) /\ Sound("idle", NoPage)
  BY <1>1, <1>2 DEF Sound, Statements
<1> HIDE DEF p
<1>4. Step(r, "readFilled", p) \/ Step(r, "idle", NoPage)
  BY DEF Dashboard, p
<1> QED
  BY <1>3, <1>4, SoundStep

\* A filled order has a whole execution: execute_order writes both together.
LEMMA FilledType ==
  ASSUME IInv, NEW u
  PROVE  /\ DOMAIN FilledOrders(u) \subseteq OrderIds
         /\ Fills(FilledOrders(u))
         /\ \A i \in DOMAIN FilledOrders(u) : IsComplete(FilledOrders(u)[i])
<1> DEFINE D == {j \in Ids : orders[j].account = u /\ orders[j].status = "filled"}
<1>1. FilledOrders(u) = [i \in D |-> orders[i]]
  BY DEF FilledOrders
<1>2. ASSUME NEW i \in D
      PROVE  orders[i] \in Order /\ orders[i].execution \in Execution /\ IsComplete(orders[i])
  <2>1. i \in OrderIds /\ orders[i] \in Order
    BY OrderType DEF IInv, Ids
  <2>2. orders[i].execution \in Execution
    BY <2>1 DEF IInv, DecisionsPriced
  <2>3. orders[i].execution # NoExecution
    BY <2>2, ConstantsAssumption
  <2>4. orders[i].quantity \in Positive
    BY <2>1 DEF Order
  <2>5. orders[i].execution.gross_amount_krw \in Positive /\ orders[i].execution.fee_krw \in Nat
    BY <2>2 DEF Execution
  <2> QED
    BY <2>1, <2>2, <2>3, <2>4, <2>5 DEF IsComplete, Positive
<1>3. D \subseteq OrderIds
  BY DEF Ids
<1> HIDE DEF D
<1> QED
  BY <1>1, <1>2, <1>3 DEF Fills

LEMMA ReadFilledStep ==
  ASSUME IInv, PageInv, NEW r \in Readers, ReadFilled(r)
  PROVE  PageInv'
<1> DEFINE filled == FilledOrders(page[r].user)
           best   == IF filled = << >> THEN 0 ELSE BestDay(filled)
           read   == [page[r] EXCEPT !.filled = filled, !.best = best]
<1>1. IsPage(page[r]) /\ Begun(page[r])
  BY DEF ReadFilled, PageInv, Sound
<1>2. /\ DOMAIN filled \subseteq OrderIds
      /\ Fills(filled)
      /\ \A i \in DOMAIN filled : IsComplete(filled[i])
  BY <1>1, FilledType
<1>3. /\ best \in {0} \cup Days
      /\ filled = << >> => best = 0
      /\ best # 0 => /\ best >= LatestExecution(filled)
                     /\ \A t \in Holds(filled) : dailyPrice[t][best] # NoRow
  BY BestDayIsStored
<1>4. /\ filled = << >> => Step(r, "readCash", read)
      /\ filled # << >> => Step(r, "readDates", [read EXCEPT !.left = Holds(filled)])
  BY <1>2 DEF ReadFilled
<1> HIDE DEF filled, best
<1>5. /\ IsPage(read)
      /\ read.filled = filled /\ read.best = best
      /\ read.common = Days /\ DOMAIN read.closes = {}
      /\ read.unavailable_reason = "none"
  BY <1>1, <1>2, <1>3 DEF IsPage, Begun, Fills
<1>6. CASE filled = << >>
  <2>1. Shown(read)
    BY <1>3, <1>5, <1>6 DEF Shown
  <2>2. Sound("readCash", read)
    BY <1>2, <1>5, <2>1 DEF Sound, Statements
  <2> HIDE DEF read
  <2> QED
    BY <1>4, <1>6, <2>2, SoundStep
<1>7. CASE filled # << >>
  <2> DEFINE next == [read EXCEPT !.left = Holds(filled)]
  <2>1. Holds(filled) \subseteq Tickers /\ Holds(filled) # {}
    BY <1>2, <1>7, HoldsType, HoldsSome DEF Fills
  <2>2. /\ IsPage(next)
        /\ next.filled = filled /\ next.best = best /\ next.left = Holds(filled)
        /\ next.common = Days /\ DOMAIN next.closes = {}
        /\ next.unavailable_reason = "none"
    BY <1>5, <2>1 DEF IsPage
  <2> HIDE DEF next
  <2>3. Dating(next)
    BY <1>3, <1>7, <2>1, <2>2 DEF Dating
  <2>4. Sound("readDates", next)
    BY <1>2, <2>2, <2>3 DEF Sound, Statements
  <2>5. Step(r, "readDates", next)
    BY <1>4, <1>7 DEF next
  <2> QED
    BY <2>4, <2>5, SoundStep
<1> QED
  BY <1>6, <1>7

LEMMA ReadDatesStep ==
  ASSUME IInv, PageInv, NEW r \in Readers, ReadDates(r)
  PROVE  PageInv'
<1>1. PICK q : q = page[r]
  OBVIOUS
<1>2. IsPage(q) /\ Fills(q.filled) /\ Dating(q)
  BY <1>1 DEF ReadDates, PageInv, Sound
<1> DEFINE common(t) == q.common \cap DatesOf(t)
           left(t)   == q.left \ {t}
           read(t)   == [q EXCEPT !.common = common(t), !.left = left(t)]
           day(t)    == PickedDay(common(t), read(t).filled)
           close(t)  == [read(t) EXCEPT !.valuation_trade_date = day(t),
                                        !.left = Holds(read(t).filled)]
<1>3. PICK t \in q.left :
        IF common(t) = {} \/ (left(t) = {} /\ day(t) = 0)
        THEN Step(r, "readCash", Unavailable(read(t)))
        ELSE IF left(t) # {} THEN Step(r, "readDates", read(t))
        ELSE Step(r, "readClose", close(t))
  BY <1>1 DEF ReadDates
<1>4. PICK c : c = common(t)
  OBVIOUS
<1>5. PICK p : p = read(t)
  OBVIOUS
<1>6. /\ IsPage(p)
      /\ p.filled = q.filled /\ p.best = q.best /\ p.closes = q.closes
      /\ p.unavailable_reason = "none"
      /\ p.common = c /\ p.left = q.left \ {t}
      /\ c \subseteq Days
  BY <1>2, <1>4, <1>5 DEF IsPage, Dating
<1>7. \A d \in c : d \in q.common /\ dailyPrice[t][d] # NoRow
  BY <1>4 DEF DatesOf
<1>8. \A d \in q.common : dailyPrice[t][d] # NoRow => d \in c
  BY <1>2, <1>4 DEF DatesOf, IsPage
<1>9. q.best # 0 => q.best \in c /\ q.best >= LatestExecution(q.filled)
  BY <1>2, <1>3, <1>8 DEF Dating
<1>10. PICK n : n = PickedDay(c, p.filled)
  OBVIOUS
<1>11. /\ n \in {0} \cup c
       /\ n # 0 => n >= LatestExecution(q.filled)
       /\ \A d \in c : d >= LatestExecution(q.filled) => n # 0 /\ n >= d
  BY <1>2, <1>6, <1>10, PickedDayIsLast DEF Dating
<1>12. IF c = {} \/ (p.left = {} /\ n = 0)
       THEN Step(r, "readCash", Unavailable(p))
       ELSE IF p.left # {} THEN Step(r, "readDates", p)
       ELSE Step(r, "readClose", [p EXCEPT !.valuation_trade_date = n, !.left = Holds(p.filled)])
  BY <1>3, <1>4, <1>5, <1>6, <1>10
<1> HIDE DEF common, left, read, day, close
<1>13. CASE c = {} \/ (p.left = {} /\ n = 0)
  <2>1. p.best = 0
    BY <1>6, <1>9, <1>11, <1>13
  <2>2. PICK x : x = Unavailable(p)
    OBVIOUS
  <2>3. /\ IsPage(x) /\ x.filled = p.filled /\ x.best = 0
        /\ x.unavailable_reason = "no_common_valuation_date"
    BY <1>6, <2>1, <2>2 DEF Unavailable, IsPage, Reasons
  <2>4. Shown(x)
    BY <2>3 DEF Shown
  <2>5. Sound("readCash", x)
    BY <1>2, <1>6, <2>3, <2>4 DEF Sound, Statements
  <2> QED
    BY <1>12, <1>13, <2>2, <2>5, SoundStep
<1>14. CASE ~ (c = {} \/ (p.left = {} /\ n = 0)) /\ p.left # {}
  <2>1. \A s \in Holds(p.filled) \ p.left : \A d \in p.common : dailyPrice[s][d] # NoRow
    BY <1>2, <1>6, <1>7 DEF Dating
  <2>2. Dating(p)
    BY <1>2, <1>6, <1>9, <1>14, <2>1 DEF Dating
  <2>3. Sound("readDates", p)
    BY <1>2, <1>6, <2>2 DEF Sound, Statements
  <2> QED
    BY <1>12, <1>14, <2>3, SoundStep
<1>15. CASE ~ (c = {} \/ (p.left = {} /\ n = 0)) /\ p.left = {}
  <2>1. n \in c /\ n \in Days /\ n # 0 /\ n >= LatestExecution(q.filled)
    BY <1>6, <1>11, <1>15
  <2>2. n >= q.best
    <3>1. CASE q.best = 0
      BY <2>1, <3>1, ConstantsAssumption DEF Days
    <3>2. CASE q.best # 0
      BY <1>9, <1>11, <3>2
    <3> QED
      BY <3>1, <3>2
  <2>3. \A s \in Holds(q.filled) : dailyPrice[s][n] # NoRow
    BY <1>2, <1>6, <1>7, <1>15, <2>1 DEF Dating
  <2>4. PICK x : x = [p EXCEPT !.valuation_trade_date = n, !.left = Holds(p.filled)]
    OBVIOUS
  <2>5. Holds(q.filled) \subseteq Tickers /\ Holds(q.filled) # {}
    BY <1>2, HoldsType, HoldsSome DEF Fills, Dating
  <2>6. /\ IsPage(x)
        /\ x.filled = q.filled /\ x.best = q.best /\ x.closes = q.closes
        /\ x.unavailable_reason = "none"
        /\ x.left = Holds(q.filled) /\ x.valuation_trade_date = n
    BY <1>6, <2>1, <2>4, <2>5 DEF IsPage
  <2>7. DOMAIN x.closes = Holds(x.filled) \ x.left
    BY <1>2, <2>6 DEF Dating
  <2>8. Closing(x)
    BY <1>2, <2>1, <2>2, <2>3, <2>5, <2>6, <2>7 DEF Closing, Dating
  <2>9. Sound("readClose", x)
    BY <1>2, <2>6, <2>8 DEF Sound, Statements
  <2> QED
    BY <1>12, <1>15, <2>4, <2>9, SoundStep
<1> QED
  BY <1>13, <1>14, <1>15

LEMMA ReadCloseStep ==
  ASSUME IInv, PageInv, NEW r \in Readers, ReadClose(r)
  PROVE  PageInv'
<1>1. PICK q : q = page[r]
  OBVIOUS
<1>2. IsPage(q) /\ Fills(q.filled) /\ Closing(q)
  BY <1>1 DEF ReadClose, PageInv, Sound
<1> DEFINE row(t)  == dailyPrice[t][q.valuation_trade_date]
           held(t) == {t} \cup DOMAIN q.closes
           read(t) == [q EXCEPT !.left = q.left \ {t},
                                !.closes = [s \in held(t) |-> IF s = t THEN row(t) ELSE q.closes[s]]]
<1>3. PICK t \in q.left :
        IF row(t) = NoRow THEN Step(r, "idle", NoPage)
        ELSE Step(r, IF q.left \ {t} = {} THEN "readCash" ELSE "readClose", read(t))
  BY <1>1 DEF ReadClose
<1>4. t \in Tickers /\ t \in Holds(q.filled)
  BY <1>2, <1>3 DEF Closing, IsPage
<1>5. row(t) # NoRow /\ row(t) \in PriceRow
  BY <1>2, <1>4 DEF Closing, IInv, TypeOK, TablesOK
<1>6. PICK closes : closes = [s \in held(t) |-> IF s = t THEN row(t) ELSE q.closes[s]]
  OBVIOUS
<1>7. /\ DOMAIN closes = Holds(q.filled) \ (q.left \ {t})
      /\ DOMAIN closes \subseteq Tickers
      /\ closes \in [DOMAIN closes -> PriceRow]
  <2>1. DOMAIN closes = held(t)
    BY <1>6
  <2>2. held(t) = Holds(q.filled) \ (q.left \ {t})
    BY <1>2, <1>3, <1>4 DEF Closing
  <2>3. held(t) \subseteq Tickers
    BY <1>2, <1>4 DEF IsPage
  <2>4. \A s \in held(t) : (IF s = t THEN row(t) ELSE q.closes[s]) \in PriceRow
    BY <1>2, <1>5 DEF IsPage
  <2> HIDE DEF held, row
  <2>5. closes \in [held(t) -> PriceRow]
    BY <1>6, <2>4
  <2> QED
    BY <2>1, <2>2, <2>3, <2>5
<1>8. PICK p : p = [q EXCEPT !.left = q.left \ {t}, !.closes = closes]
  OBVIOUS
<1>9. Step(r, IF q.left \ {t} = {} THEN "readCash" ELSE "readClose", p)
  BY <1>3, <1>5, <1>6, <1>8
<1> HIDE DEF row, held, read
<1>10. /\ IsPage(p)
       /\ p.filled = q.filled /\ p.best = q.best /\ p.closes = closes
       /\ p.valuation_trade_date = q.valuation_trade_date
       /\ p.unavailable_reason = "none"
       /\ p.left = q.left \ {t}
  BY <1>2, <1>7, <1>8 DEF IsPage, Closing
<1>11. CASE q.left \ {t} = {}
  <2>1. Shown(p)
    BY <1>2, <1>7, <1>10, <1>11 DEF Shown, Closing
  <2>2. Sound("readCash", p)
    BY <1>2, <1>10, <2>1 DEF Sound, Statements
  <2> QED
    BY <1>9, <1>11, <2>2, SoundStep
<1>12. CASE q.left \ {t} # {}
  <2>1. Closing(p)
    BY <1>2, <1>7, <1>10, <1>12 DEF Closing
  <2>2. Sound("readClose", p)
    BY <1>2, <1>10, <2>1 DEF Sound, Statements
  <2> QED
    BY <1>9, <1>12, <2>2, SoundStep
<1> QED
  BY <1>11, <1>12

LEMMA ReadCashStep ==
  ASSUME IInv, PageInv, NEW r \in Readers, ReadPageCash(r)
  PROVE  PageInv'
<1>1. PICK q : q = page[r]
  OBVIOUS
<1>2. IsPage(q) /\ Fills(q.filled) /\ Shown(q)
  BY <1>1 DEF ReadPageCash, PageInv, Sound
<1>3. PICK p : p = [q EXCEPT !.cash = AvailableCash(q.user)]
  OBVIOUS
<1>4. AvailableCash(q.user) \in Int
  BY CashType DEF IInv
<1>5. /\ IsPage(p)
      /\ p.filled = q.filled /\ p.best = q.best /\ p.closes = q.closes
      /\ p.valuation_trade_date = q.valuation_trade_date
      /\ p.unavailable_reason = q.unavailable_reason
  BY <1>2, <1>3, <1>4 DEF IsPage
<1>6. Sound("idle", p)
  BY <1>2, <1>5 DEF Sound, Statements, Shown
<1>7. Step(r, "idle", p)
  BY <1>1, <1>3 DEF ReadPageCash
<1> QED
  BY <1>6, <1>7, SoundStep

LEMMA PageStep == IInv /\ PageInv /\ [PageNext]_<<vars, pages>> => PageInv'
<1> SUFFICES ASSUME IInv, PageInv, [PageNext]_<<vars, pages>> PROVE PageInv'
  OBVIOUS
<1>1. ASSUME UNCHANGED pages, RowsStay PROVE PageInv'
  <2>1. at' = at /\ page' = page
    BY <1>1 DEF pages
  <2>2. ASSUME NEW x \in Readers, NEW s0, NEW p0, at[x] = s0, page[x] = p0
        PROVE  Sound(at[x], page[x])'
    <3>1. Sound(s0, p0)
      BY <2>2 DEF PageInv
    <3>2. Sound(s0, p0)'
      BY <1>1, <3>1, SoundStays
    <3> QED
      BY <2>1, <2>2, <3>2
  <2> QED
    BY <2>1, <2>2 DEF PageInv
<1>2. CASE Write
  BY <1>1, <1>2, PricesStay DEF Write
<1>3. CASE UNCHANGED <<vars, pages>>
  BY <1>1, <1>3 DEF vars, RowsStay
<1> QED
  BY <1>2, <1>3, DashboardStep, ReadFilledStep, ReadDatesStep, ReadCloseStep, ReadCashStep
  DEF PageNext

-----------------------------------------------------------------------------
(* The cash and the fills of an account *)

LEMMA CostsSummable ==
  ASSUME NEW filled, Fills(filled), DOMAIN filled \subseteq OrderIds
  PROVE  /\ IsFiniteSet(Costs(filled))
         /\ \A row \in Costs(filled) : row.amount_krw \in Int
         /\ Cost(filled) \in Int
<1>1. IsFiniteSet(DOMAIN filled)
  <2>1. IsFiniteSet(OrderIds)
    BY ConstantsAssumption, FS_Interval DEF OrderIds
  <2> QED
    BY <2>1, FS_Subset
<1>2. IsFiniteSet(Costs(filled))
  <2> DEFINE row == [i \in DOMAIN filled |->
                       [order |-> i, amount_krw |-> Needed(filled[i].execution)]]
  <2>1. Costs(filled) = {row[i] : i \in DOMAIN row} /\ IsFiniteSet(DOMAIN row)
    BY <1>1 DEF Costs
  <2> HIDE DEF row
  <2> QED
    BY <2>1, RangeFinite
<1>3. \A i \in DOMAIN filled : Needed(filled[i].execution) \in Int
  BY DEF Fills, Execution, Needed, Positive
<1>4. \A row \in Costs(filled) : row.amount_krw \in Int
  BY <1>3 DEF Costs
<1> QED
  BY <1>2, <1>4, SumType DEF Cost

\* What the filled orders of a user have cost is what his cash lacks of the opening.
Books(u) ==
  AvailableCash(u) + Cost(FilledOrders(u)) =
    IF account[u] = NoAccount THEN 0 ELSE account[u].initial_cash_krw

Balanced == \A u \in Users : Books(u)

LEMMA InitBalanced == Init => Balanced
<1> SUFFICES ASSUME Init, NEW u \in Users PROVE Books(u)
  BY DEF Balanced
<1>1. Entries(u) = {} /\ account[u] = NoAccount
  BY DEF Init, Entries
<1>2. DOMAIN FilledOrders(u) = {}
  BY DEF Init, FilledOrders, Ids
<1>3. Costs(FilledOrders(u)) = {}
  BY <1>2 DEF Costs
<1> QED
  BY <1>1, <1>3, SumEmpty DEF Books, AvailableCash, Cost

\* A user's fills stay when his filled orders do and no other order of his becomes one.
LEMMA FilledKept ==
  ASSUME NEW u,
         {j \in Ids : orders[j].account = u /\ orders[j].status = "filled"}' =
           {j \in Ids : orders[j].account = u /\ orders[j].status = "filled"},
         \A j \in Ids : orders[j].account = u /\ orders[j].status = "filled" =>
           orders'[j] = orders[j]
  PROVE  FilledOrders(u)' = FilledOrders(u)
BY DEF FilledOrders

\* A filled order is not written again, an open account is not opened again.
LEMMA FillsStay ==
  ASSUME IInv, [Next]_vars
  PROVE  /\ \A i \in Ids : orders[i].status = "filled" => i \in Ids' /\ orders'[i] = orders[i]
         /\ \A u \in Users : account[u] # NoAccount => account'[u] = account[u]
<1> USE DEF IInv
<1>1. CASE Quiet
  BY <1>1 DEF Quiet, Ids
<1>2. ASSUME NEW u \in Users, NEW policy \in Policies, OpenAccount(u, policy)
      PROVE  /\ orders' = orders
             /\ \A v \in Users : account[v] # NoAccount => account'[v] = account[v]
  BY <1>2 DEF OpenAccount, TypeOK, TablesOK
<1>3. ASSUME NEW w \in Workers, InsertOrder(w), orders' # orders
      PROVE  /\ account' = account
             /\ \A i \in Ids : orders'[i] = orders[i]
  <2>1. account' = account /\ ReadsTrue(w)
    BY <1>3 DEF InsertOrder, ReadsStayTrue
  <2> QED
    BY <1>3, <2>1, InsertedRow DEF Ids
<1>4. ASSUME NEW w \in Workers, NEW status, pc[w] \in OrderHeld,
             orders' = Decided(w, status), account' = account
      PROVE  \A i \in Ids : orders[i].status = "filled" => orders'[i] = orders[i]
  <2>1. ReadsTrue(w)
    BY DEF ReadsStayTrue
  <2> QED
    BY <1>4, <2>1, DecidedRow DEF Ids
<1>5. ASSUME NEW w \in Workers, SaveFilled(w)
      PROVE  pc[w] \in OrderHeld /\ orders' = Decided(w, "filled") /\ account' = account
  BY <1>5 DEF SaveFilled, OrderHeld, Locked
<1>6. ASSUME NEW w \in Workers, SaveRejected(w) PROVE pc[w] \in OrderHeld /\ account' = account
  BY <1>6 DEF SaveRejected, OrderHeld, Locked
<1>7. \A i \in Ids : orders[i].status = "filled" /\ orders'[i] = orders[i] => i \in Ids'
  BY DEF Ids
<1> QED
  BY <1>1, <1>2, <1>3, <1>4, <1>5, <1>6, <1>7, StepCases

LEMMA BalancedStep == IInv /\ Balanced /\ [Next]_vars => Balanced'
<1> SUFFICES ASSUME IInv, Balanced, [Next]_vars, NEW v \in Users PROVE Books(v)'
  BY DEF Balanced
<1> USE DEF IInv
<1>0. Books(v) /\ AvailableCash(v) \in Int /\ Cost(FilledOrders(v)) \in Int
  BY CashType, FilledType, CostsSummable DEF Balanced
<1>a. ASSUME UNCHANGED <<ledger, account>>, FilledOrders(v)' = FilledOrders(v) PROVE Books(v)'
  <2>1. AvailableCash(v)' = AvailableCash(v)
    BY <1>a, CashUnchanged
  <2>2. Cost(FilledOrders(v))' = Cost(FilledOrders(v))
    BY <1>a DEF Cost, Costs, Needed
  <2> QED
    BY <1>0, <1>a, <2>1, <2>2 DEF Books
<1>1. CASE Quiet
  <2>1. FilledOrders(v)' = FilledOrders(v)
    BY <1>1 DEF Quiet, FilledOrders, Ids
  <2> QED
    BY <1>1, <1>a, <2>1 DEF Quiet
<1>2. ASSUME NEW u \in Users, NEW policy \in Policies, OpenAccount(u, policy)
      PROVE  Books(v)'
  <2>1. PICK row : row = [id                 |-> Cardinality(ledger) + 1,
                          account            |-> u,
                          entry_type         |-> "opening_balance",
                          amount_krw         |-> policy.initial_cash_krw,
                          execution_order_id |-> 0]
    OBVIOUS
  <2>2. /\ policy.initial_cash_krw \in Int
        /\ AvailableCash(v)' =
             IF v = u THEN AvailableCash(v) + policy.initial_cash_krw ELSE AvailableCash(v)
    BY <1>2, <2>1, OpeningEntry DEF Positive
  <2>3. /\ account[u] = NoAccount
        /\ account'[v] = IF v = u THEN policy ELSE account[v]
        /\ policy # NoAccount
        /\ orders' = orders
    BY <1>2, ConstantsAssumption DEF OpenAccount, TypeOK, TablesOK
  <2>4. Cost(FilledOrders(v))' = Cost(FilledOrders(v))
    BY <2>3 DEF FilledOrders, Ids, Cost, Costs, Needed
  <2> QED
    BY <1>0, <2>2, <2>3, <2>4 DEF Books
<1>3. ASSUME NEW w \in Workers, InsertOrder(w), orders' # orders PROVE Books(v)'
  <2>1. PICK i \in OrderIds :
          /\ orders[i] = AbsentOrder
          /\ orders'[i].status = "pending"
          /\ \A j \in OrderIds \ {i} : orders'[j] = orders[j]
    BY <1>3, InsertedRow DEF ReadsStayTrue
  <2>2. FilledOrders(v)' = FilledOrders(v)
    BY <2>1, FilledKept DEF Ids
  <2> QED
    BY <1>3, <1>a, <2>2 DEF InsertOrder
<1>4. ASSUME NEW w \in Workers, SaveFilled(w) PROVE Books(v)'
  <2>0. PICK i : i = request[w].order_id
    OBVIOUS
  <2>1. ReadsTrue(w) /\ pc[w] \in OrderHeld \ {"readPrice"}
    BY <1>4 DEF ReadsStayTrue, SaveFilled, OrderHeld, Locked
  <2>2. /\ i \in Ids /\ i \in OrderIds
        /\ orders[i].status = "pending" /\ orders[i].account = request[w].user
        /\ orders'[i].status = "filled"
        /\ orders'[i].execution = Calculated(w)
        /\ orders'[i].account = request[w].user
        /\ \A j \in OrderIds \ {i} : orders'[j] = orders[j]
    BY <1>4, <2>0, <2>1, DecidedRow DEF SaveFilled, ReadsTrue, Ids
  <2>3. AvailableCash(v)' =
          IF v = request[w].user THEN AvailableCash(v) - Needed(Calculated(w))
          ELSE AvailableCash(v)
    BY <1>4, FillEntry
  <2>4. Needed(Calculated(w)) \in Int
    BY <2>1, CalculatedType DEF Positive
  <2>5. account' = account
    BY <1>4 DEF SaveFilled
  <2>6. i \in Ids' /\ orders'[i] # AbsentOrder
    BY <2>2 DEF Ids, AbsentOrder
  <2>7. CASE v # request[w].user
    <3>1. FilledOrders(v)' = FilledOrders(v)
      BY <2>2, <2>7, FilledKept DEF Ids
    <3>2. Cost(FilledOrders(v))' = Cost(FilledOrders(v))
      BY <3>1 DEF Cost, Costs, Needed
    <3> QED
      BY <1>0, <2>3, <2>5, <2>7, <3>2 DEF Books
  <2>8. CASE v = request[w].user
    <3> DEFINE D == {j \in Ids : orders[j].account = v /\ orders[j].status = "filled"}
               cost == [order |-> i, amount_krw |-> Needed(Calculated(w))]
    <3>1. FilledOrders(v) = [j \in D |-> orders[j]] /\ i \notin D /\ D \subseteq OrderIds
      BY <2>2 DEF FilledOrders, Ids
    <3>2. D' = D \cup {i}
      BY <2>2, <2>6, <2>8 DEF Ids
    <3>3. FilledOrders(v)' = [j \in D \cup {i} |-> orders'[j]]
      BY <3>2 DEF FilledOrders
    <3> HIDE DEF D
    <3>4. Costs(FilledOrders(v))' = Costs(FilledOrders(v)) \cup {cost}
      <4>1. Costs(FilledOrders(v)) =
              {[order |-> j, amount_krw |-> Needed(orders[j].execution)] : j \in D}
        BY <3>1 DEF Costs
      <4>2. Costs(FilledOrders(v))' =
              {[order |-> j, amount_krw |-> Needed(orders'[j].execution)] : j \in D \cup {i}}
        BY <3>3 DEF Costs, Needed
      <4>3. \A j \in D : orders'[j] = orders[j]
        BY <2>2, <3>1
      <4> QED
        BY <2>2, <4>1, <4>2, <4>3
    <3>5. cost \notin Costs(FilledOrders(v)) /\ cost.amount_krw \in Int
      BY <2>4, <3>1 DEF Costs
    <3>6. /\ IsFiniteSet(Costs(FilledOrders(v)))
          /\ \A row \in Costs(FilledOrders(v)) : row.amount_krw \in Int
      BY FilledType, CostsSummable
    <3>7. SumAmount(Costs(FilledOrders(v)) \cup {cost}) = Cost(FilledOrders(v)) + cost.amount_krw
      BY <3>5, <3>6, SumInsert DEF Cost
    <3>8. Cost(FilledOrders(v))' = Cost(FilledOrders(v)) + Needed(Calculated(w))
      BY <3>4, <3>7 DEF Cost
    <3> HIDE DEF cost
    <3> QED
      BY <1>0, <2>3, <2>4, <2>5, <2>8, <3>8 DEF Books
  <2> QED
    BY <2>7, <2>8
<1>5. ASSUME NEW w \in Workers, SaveRejected(w),
             orders' = Decided(w, "rejected_insufficient_cash")
      PROVE  Books(v)'
  <2>0. PICK i : i = request[w].order_id
    OBVIOUS
  <2>1. ReadsTrue(w) /\ pc[w] \in OrderHeld
    BY <1>5 DEF ReadsStayTrue, SaveRejected, OrderHeld, Locked
  <2>2. /\ i \in OrderIds
        /\ orders[i].status = "pending"
        /\ orders'[i].status = "rejected_insufficient_cash"
        /\ \A j \in OrderIds \ {i} : orders'[j] = orders[j]
    BY <1>5, <2>0, <2>1, DecidedRow DEF Ids
  <2>3. FilledOrders(v)' = FilledOrders(v)
    BY <2>2, FilledKept DEF Ids
  <2> QED
    BY <1>5, <1>a, <2>3 DEF SaveRejected
<1> QED
  BY <1>1, <1>2, <1>3, <1>4, <1>5, StepCases

\* What a page has read of an account and its fills is there until it is computed.
StillFilled(u, filled) ==
  /\ account[u] # NoAccount
  /\ \A i \in DOMAIN filled :
       i \in Ids /\ orders[i] = filled[i] /\ filled[i].account = u /\ filled[i].status = "filled"

PageStill(s, p) == s # "idle" => StillFilled(p.user, p.filled)

PagesStill == \A r \in Readers : PageStill(at[r], page[r])

LEMMA StillStays ==
  ASSUME IInv, [Next]_vars, NEW u \in Users, NEW filled, StillFilled(u, filled)
  PROVE  StillFilled(u, filled)'
BY FillsStay DEF StillFilled

LEMMA StillStep ==
  ASSUME PageInv, PagesStill, NEW r \in Readers, NEW s, NEW p, Step(r, s, p), PageStill(s, p)
  PROVE  PagesStill'
<1>1. /\ at'[r] = s /\ page'[r] = p
      /\ \A x \in Readers \ {r} : at'[x] = at[x] /\ page'[x] = page[x]
      /\ UNCHANGED <<account, orders>>
  BY DEF Step, PageInv, vars
<1> SUFFICES ASSUME NEW x \in Readers, NEW s0, NEW p0, at'[x] = s0, page'[x] = p0,
                    PageStill(s0, p0)
             PROVE  PageStill(at[x], page[x])'
  BY <1>1 DEF PagesStill
<1> QED
  BY <1>1 DEF PageStill, StillFilled, Ids

LEMMA PagesStillStep ==
  IInv /\ PageInv /\ PagesStill /\ [PageNext]_<<vars, pages>> => PagesStill'
<1> SUFFICES ASSUME IInv, PageInv, PagesStill, [PageNext]_<<vars, pages>> PROVE PagesStill'
  OBVIOUS
<1>1. ASSUME UNCHANGED pages, [Next]_vars PROVE PagesStill'
  <2> SUFFICES ASSUME NEW x \in Readers, at[x] # "idle"
               PROVE  StillFilled(page[x].user, page[x].filled)'
    BY <1>1 DEF pages, PagesStill, PageStill
  <2>1. PICK u, filled : u = page[x].user /\ filled = page[x].filled
    OBVIOUS
  <2>2. u \in Users /\ StillFilled(u, filled)
    BY <2>1 DEF PageInv, Sound, IsPage, PagesStill, PageStill
  <2>3. StillFilled(u, filled)'
    BY <1>1, <2>2, StillStays
  <2>4. page'[x] = page[x]
    BY <1>1 DEF pages
  <2> QED
    BY <2>1, <2>3, <2>4 DEF StillFilled
<1>2. ASSUME NEW r \in Readers, NEW u \in Users, Dashboard(r, u) PROVE PagesStill'
  <2> DEFINE p == [user |-> u, filled |-> << >>, left |-> {}, common |-> Days,
                   valuation_trade_date |-> 0, closes |-> << >>, cash |-> 0,
                   unavailable_reason |-> "none", best |-> 0]
  <2>1. account[u] # NoAccount => PageStill("readFilled", p)
    BY DEF PageStill, StillFilled
  <2>2. PageStill("idle", NoPage)
    BY DEF PageStill
  <2>3. IF account[u] = NoAccount THEN Step(r, "idle", NoPage) ELSE Step(r, "readFilled", p)
    BY <1>2 DEF Dashboard
  <2> HIDE DEF p
  <2> QED
    BY <2>1, <2>2, <2>3, StillStep
<1>3. ASSUME NEW r \in Readers, ReadFilled(r) PROVE PagesStill'
  <2> DEFINE filled == FilledOrders(page[r].user)
             read   == [page[r] EXCEPT !.filled = filled,
                                       !.best = IF filled = << >> THEN 0 ELSE BestDay(filled)]
             held   == [read EXCEPT !.left = Holds(filled)]
             lost   == [read EXCEPT !.unavailable_reason = "incomplete_fill_data"]
  <2>1. IsPage(page[r]) /\ account[page[r].user] # NoAccount
    BY <1>3 DEF ReadFilled, PageInv, Sound, PagesStill, PageStill, StillFilled
  <2>2. StillFilled(page[r].user, filled)
    BY <2>1 DEF StillFilled, FilledOrders
  <2> HIDE DEF filled
  <2>3. \A q \in {read, held, lost} : q.user = page[r].user /\ q.filled = filled
    BY <2>1 DEF IsPage
  <2>4. \A q \in {read, held, lost} : \A s : PageStill(s, q)
    BY <2>2, <2>3 DEF PageStill
  <2>5. \E q \in {read, held, lost}, s \in Statements : Step(r, s, q)
    BY <1>3 DEF ReadFilled, filled, Statements
  <2> HIDE DEF read, held, lost
  <2> QED
    BY <2>4, <2>5, StillStep
<1>4. ASSUME NEW r \in Readers, ReadDates(r) PROVE PagesStill'
  <2>1. PICK q : q = page[r]
    OBVIOUS
  <2>2. IsPage(q) /\ \A s : PageStill(s, q)
    BY <1>4, <2>1 DEF ReadDates, PageInv, Sound, PagesStill, PageStill
  <2> DEFINE read(t)  == [q EXCEPT !.common = q.common \cap DatesOf(t), !.left = q.left \ {t}]
             day(t)   == PickedDay(q.common \cap DatesOf(t), read(t).filled)
             close(t) == [read(t) EXCEPT !.valuation_trade_date = day(t),
                                         !.left = Holds(read(t).filled)]
             gone(t)  == Unavailable(read(t))
  <2>3. PICK t \in q.left : \E s : Step(r, s, gone(t)) \/ Step(r, s, read(t)) \/ Step(r, s, close(t))
    BY <1>4, <2>1 DEF ReadDates
  <2>4. /\ read(t).user = q.user /\ read(t).filled = q.filled
        /\ gone(t).user = q.user /\ gone(t).filled = q.filled
        /\ close(t).user = q.user /\ close(t).filled = q.filled
    BY <2>2 DEF IsPage, Unavailable
  <2> HIDE DEF read, day, close, gone
  <2> QED
    BY <2>2, <2>3, <2>4, StillStep DEF PageStill
<1>5. ASSUME NEW r \in Readers, ReadClose(r) PROVE PagesStill'
  <2>1. PICK q : q = page[r]
    OBVIOUS
  <2>2. IsPage(q) /\ \A s : PageStill(s, q)
    BY <1>5, <2>1 DEF ReadClose, PageInv, Sound, PagesStill, PageStill
  <2> DEFINE row(t)  == dailyPrice[t][q.valuation_trade_date]
             read(t) == [q EXCEPT !.left = q.left \ {t},
                           !.closes = [x \in {t} \cup DOMAIN q.closes |->
                                         IF x = t THEN row(t) ELSE q.closes[x]]]
  <2>3. PICK t \in q.left : Step(r, "idle", NoPage) \/ \E s : Step(r, s, read(t))
    BY <1>5, <2>1 DEF ReadClose
  <2>4. read(t).user = q.user /\ read(t).filled = q.filled
    BY <2>2 DEF IsPage
  <2>5. PageStill("idle", NoPage)
    BY DEF PageStill
  <2> HIDE DEF row, read
  <2> QED
    BY <2>2, <2>3, <2>4, <2>5, StillStep DEF PageStill
<1>6. ASSUME NEW r \in Readers, ReadPageCash(r) PROVE PagesStill'
  BY <1>6, StillStep DEF ReadPageCash, PageStill
<1>7. CASE Write
  BY <1>1, <1>7 DEF Write
<1>8. CASE UNCHANGED <<vars, pages>>
  BY <1>1, <1>8
<1> QED
  BY <1>2, <1>3, <1>4, <1>5, <1>6, <1>7, <1>8 DEF PageNext

-----------------------------------------------------------------------------
(* The theorems *)

\* What the writers do beside readers is what they do without them.
LEMMA WritersAreThemselves == PageSpec => []IInv
<1>1. PageInit => Init
  BY DEF PageInit
<1>2. [PageNext]_<<vars, pages>> => [Next]_vars
  BY DEF PageNext, Write, Dashboard, ReadFilled, ReadDates, ReadClose, ReadPageCash, Step
<1> QED
  BY <1>1, <1>2, Invariant, PTL DEF PageSpec, Spec

\* PageInv is inductive, and so always true: what the page of a dashboard has read of orders and
\* days still fits the tables, however they have changed since (portfolio.py:107-195).
THEOREM PageInvariant == PageSpec => []PageInv
<1>1. PageInit => PageInv
  BY DEF PageInit, PageInv, Sound, Statements
<1> QED
  BY <1>1, PageStep, WritersAreThemselves, PTL DEF PageSpec

\* A reader's page is of its type at every statement, and a computed page has one price for
\* every ticker held (portfolio.py:107-219).
THEOREM PagesCorrect == PageSpec => []PagesOK
<1>1. PageInv => PagesOK
  BY DEF PageInv, Sound, PagesOK, Statements, Dating, Closing, Shown, Computed, Valued
<1> QED
  BY <1>1, PageInvariant, PTL

\* The price row of the day chosen is there whenever the loop over the holdings reads it
\* (portfolio.py:62-73, 177-180).
THEOREM ClosesAreStored == PageSpec => []ClosesAreThere
<1>1. PageInv => ClosesAreThere
  BY DEF PageInv, Sound, ClosesAreThere, Closing
<1> QED
  BY <1>1, PageInvariant, PTL

\* Collections never make the day of a page worse than that of a page read in one instant
\* (portfolio.py:62-73).
THEOREM DaysAreOfTheRead == PageSpec => []DayIsOfTheRead
<1>1. PageInv => DayIsOfTheRead
  <2> SUFFICES ASSUME PageInv, NEW r \in Readers, Computed(r)
               PROVE  /\ IsPage(page[r])
                      /\ Shown(page[r])
                      /\ \A t \in DOMAIN page[r].closes : page[r].closes[t] # NoRow
    BY DEF DayIsOfTheRead, Shown, Valued
  <2>1. IsPage(page[r]) /\ Shown(page[r])
    BY DEF PageInv, Sound, Computed
  <2> QED
    BY <2>1, ConstantsAssumption DEF IsPage
<1> QED
  BY <1>1, PageInvariant, PTL

\* Money is neither made nor lost: at any time the cash of an account and what its filled
\* orders have cost it add up to the cash it was opened with, whatever threads, collections
\* and readers do at once (accounts.py:71-75, orders.py:140-145).
THEOREM BooksBalance == PageSpec => []Balanced
<1>1. PageInit => Balanced
  BY InitBalanced DEF PageInit
<1>2. [PageNext]_<<vars, pages>> => [Next]_vars
  BY DEF PageNext, Write, Dashboard, ReadFilled, ReadDates, ReadClose, ReadPageCash, Step
<1> QED
  BY <1>1, <1>2, BalancedStep, WritersAreThemselves, PTL DEF PageSpec

\* The cash of a page and the cost of its holdings add up to the initial cash, less what was
\* filled after the page had read its orders (portfolio.py:109, 197).
THEOREM TotalsAreWhole == PageSpec => TotalsMissOnlyLaterFills
<1> DEFINE Later(r)  == [i \in DOMAIN FilledOrders(page[r].user) \ DOMAIN page[r].filled |->
                          FilledOrders(page[r].user)[i]]
           Totals(r) == page'[r].cash + Cost(page[r].filled) = InitialCash(r) - Cost(Later(r))
<1>1. ASSUME IInv, PageInv, Balanced, PagesStill, NEW r \in Readers, ReadPageCash(r)
      PROVE  Totals(r)
  <2> DEFINE u == page[r].user
             now == FilledOrders(u)
             filled == page[r].filled
             later == Later(r)
  <2>1. /\ IsPage(page[r]) /\ Fills(filled) /\ u \in Users
        /\ DOMAIN filled \subseteq OrderIds
        /\ StillFilled(u, filled)
    BY <1>1 DEF ReadPageCash, PageInv, Sound, IsPage, PagesStill, PageStill
  <2>2. page'[r].cash = AvailableCash(u)
    BY <1>1, <2>1 DEF ReadPageCash, Step, PageInv, IsPage
  <2>3. /\ AvailableCash(u) + Cost(now) = InitialCash(r)
        /\ AvailableCash(u) \in Int
    BY <1>1, <2>1, CashType DEF Balanced, Books, StillFilled, InitialCash, IInv
  <2>4. Fills(now) /\ DOMAIN now \subseteq OrderIds
    BY <1>1, FilledType
  <2>5. /\ DOMAIN filled \subseteq DOMAIN now
        /\ \A i \in DOMAIN filled : now[i] = filled[i]
    BY <2>1 DEF StillFilled, FilledOrders
  <2>6. /\ DOMAIN later = DOMAIN now \ DOMAIN filled
        /\ \A i \in DOMAIN later : later[i] = now[i]
        /\ later \in [DOMAIN later -> Order]
    BY <2>4 DEF Fills
  <2> HIDE DEF now, filled, later, u
  <2>7. Fills(later) /\ DOMAIN later \subseteq OrderIds
    BY <2>4, <2>6 DEF Fills
  <2>8. Costs(now) = Costs(filled) \cup Costs(later) /\ Costs(filled) \cap Costs(later) = {}
    BY <2>5, <2>6 DEF Costs
  <2>9. Cost(now) = Cost(filled) + Cost(later) /\ Cost(filled) \in Int /\ Cost(later) \in Int
    BY <2>1, <2>7, <2>8, CostsSummable, SumUnion DEF Cost
  <2> QED
    BY <2>2, <2>3, <2>9 DEF filled, later
<1>2. PageInit => PagesStill
  BY DEF PageInit, PagesStill, PageStill
<1>3. IInv /\ PageInv /\ PagesStill /\ [PageNext]_<<vars, pages>> => PagesStill'
  BY PagesStillStep
<1>4. IInv /\ PageInv /\ Balanced /\ PagesStill /\ [PageNext]_<<vars, pages>>
        => [\A r \in Readers : ReadPageCash(r) => Totals(r)]_<<vars, pages>>
  BY <1>1
<1> QED
  BY <1>2, <1>3, <1>4, WritersAreThemselves, PageInvariant, BooksBalance, PTL
  DEF PageSpec, TotalsMissOnlyLaterFills

=============================================================================
