--------------------------- MODULE PriceValidation ---------------------------
(***************************************************************************)
(* The loop of market_data.validate_and_transform, row by row, and the     *)
(* status and the reasons that store_collection derives from its result.   *)
(***************************************************************************)
EXTENDS PriceRows, SequencesExt

CONSTANTS
  Rows,       \* what the provider may return as a row
  MaxRows,    \* bound: how long a frame is
  From, To    \* the days that were asked for

\* A row that parses holds five integers.
Numeric(row) == {row.open, row.high, row.low, row.close, row.volume} \subseteq Int

ASSUME ValidationAssumption ==
  /\ MaxRows \in Nat /\ From \in Int /\ To \in Int
  /\ \A row \in Rows : row.trade_date \in Int /\ (row.parses => Numeric(row))

VARIABLES
  frame,      \* the DataFrame
  next,       \* the row the loop looks at
  seen,       \* seen_dates
  valid,      \* the rows kept
  excluded,   \* the rows left out, with their reason
  summary     \* the status and excluded_reasons of the run, once the loop has ended

vars == <<frame, next, seen, valid, excluded, summary>>

NoSummary == [status |-> <<"none", "none">>, reasons |-> <<>>]

Init ==
  /\ frame \in UNION {[1 .. n -> Rows] : n \in 0 .. MaxRows}
  /\ next = 1
  /\ seen = {}
  /\ valid = <<>>
  /\ excluded = <<>>
  /\ summary = NoSummary

Row == frame[next]

Exclude(reason) ==
  excluded' = Append(excluded, [trade_date |-> Row.trade_date, reason |-> reason])

\* A day seen before is a duplicate, whatever the rows of it hold.
SkipDuplicate ==
  /\ next <= Len(frame) /\ next' = next + 1
  /\ Row.trade_date \in seen
  /\ Exclude("duplicate_date")
  /\ UNCHANGED <<frame, seen, valid, summary>>

\* Mutant: a row that does not parse leaves the loop before its day is noted.
CheckRowLate ==
  /\ next <= Len(frame) /\ next' = next + 1
  /\ Row.trade_date \notin seen
  /\ seen' = IF Row.parses THEN seen \cup {Row.trade_date} ELSE seen
  /\ IF Fault(Row, From, To) = "none"
     THEN valid' = Append(valid, Row) /\ UNCHANGED excluded
     ELSE Exclude(Fault(Row, From, To)) /\ UNCHANGED valid
  /\ UNCHANGED <<frame, summary>>

\* Mutant: the test for duplicates is gone.
CheckRowAnyway ==
  /\ next <= Len(frame) /\ next' = next + 1
  /\ seen' = seen \cup {Row.trade_date}
  /\ IF Fault(Row, From, To) = "none"
     THEN valid' = Append(valid, Row) /\ UNCHANGED excluded
     ELSE Exclude(Fault(Row, From, To)) /\ UNCHANGED valid
  /\ UNCHANGED <<frame, summary>>

CheckRow ==
  /\ next <= Len(frame) /\ next' = next + 1
  /\ Row.trade_date \notin seen
  /\ seen' = seen \cup {Row.trade_date}
  /\ IF Fault(Row, From, To) = "none"
     THEN valid' = Append(valid, Row) /\ UNCHANGED excluded
     ELSE Exclude(Fault(Row, From, To)) /\ UNCHANGED valid
  /\ UNCHANGED <<frame, summary>>

\* Mutant: the rows returned are counted as kept.
SummarizeReturned ==
  /\ next > Len(frame) /\ summary = NoSummary
  /\ summary' = [status  |-> DecideStatus(Len(frame), Len(frame) - Len(excluded), 0),
                 reasons |-> [r \in {e.reason : e \in ToSet(excluded)} |-> 1]]
  /\ UNCHANGED <<frame, next, seen, valid, excluded>>

\* _decide_status and summarize_excluded, a Counter of the reasons.
Summarize ==
  /\ next > Len(frame) /\ summary = NoSummary
  /\ summary' = [status  |-> DecideStatus(Len(frame), Len(valid), Len(excluded)),
                 reasons |-> [r \in {e.reason : e \in ToSet(excluded)} |->
                                Cardinality({k \in DOMAIN excluded : excluded[k].reason = r})]]
  /\ UNCHANGED <<frame, next, seen, valid, excluded>>

Next == SkipDuplicate \/ CheckRow \/ Summarize

Spec == Init /\ [][Next]_vars

-----------------------------------------------------------------------------
(* Properties *)

\* The loop keeps what Kept says, in the order of the frame: the first row of every day, when
\* it is sound; a bad first row hides a good second one (market_data.py:71-75).
LoopKeepsFirstSoundRows ==
  next > Len(frame) => valid = ValidRows(frame, From, To)

\* No row is lost or counted twice: at every turn of the loop the rows before it are kept or
\* excluded, and no two kept rows are of one day, so that a transaction upserts no row of
\* daily_prices twice (market_data.py:71-107).
EveryRowAccountedFor ==
  /\ Len(valid) + Len(excluded) = next - 1
  /\ \A j, k \in DOMAIN valid : valid[j].trade_date = valid[k].trade_date => j = k

\* A price that a fill may use is sound: positive, inside its day's range and in the range
\* of days that was asked for (market_data.py:88-95).
KeptRowsAreSound ==
  \A k \in DOMAIN valid :
    LET row == valid[k]
    IN  /\ 0 < row.low /\ row.low <= row.open /\ row.open <= row.high
        /\ row.low <= row.close /\ row.close <= row.high
        /\ row.volume >= 0 /\ row.trade_date \in From .. To

\* The run tells what was lost: it is a success exactly when every row returned is stored and
\* there is one, and the counts of the reasons add up to the rows that are not stored
\* (market_data.py:112-123, README.md:85).
SummaryTellsLoss ==
  LET count(r) == IF r \in DOMAIN summary.reasons THEN summary.reasons[r] ELSE 0
  IN  summary # NoSummary =>
        /\ summary.status[1] = "success" <=> Len(valid) = Len(frame) /\ frame # <<>>
        /\ \A r \in DOMAIN summary.reasons : summary.reasons[r] > 0
        /\ count("duplicate_date") + count("malformed_row") + count("out_of_range")
             + count("non_positive_price") + count("invalid_ohlc") + count("negative_volume")
             = Len(frame) - Len(valid)

=============================================================================
