------------------------ MODULE PriceValidation_proofs ------------------------
(***************************************************************************)
(* The loop of validate_and_transform keeps what Kept says, for every      *)
(* frame of every length.                                                  *)
(*                                                                         *)
(* A turn of the loop knows only the days it has seen and the length of    *)
(* what it has kept.  The invariant LoopInv says what these stand for: the *)
(* days above the row, and the rank of the last row kept.                  *)
(***************************************************************************)
EXTENDS PriceValidation, PriceRows_proofs

\* The rows of the frame above the k-th that are kept.
KeptBefore(k) == {i \in Kept(frame, From, To) : i <= k - 1}

\* The reasons of the excluded rows.
Reason == {"duplicate_date", "malformed_row", "out_of_range", "non_positive_price",
           "invalid_ohlc", "negative_volume"}

Exclusion == [trade_date : Int, reason : Reason]

LoopInv ==
  /\ frame \in UNION {[1 .. n -> Rows] : n \in 0 .. MaxRows}
  /\ next \in 1 .. Len(frame) + 1
  /\ seen = {frame[j].trade_date : j \in 1 .. (next - 1)}
  /\ Len(valid) \in Nat /\ DOMAIN valid = 1 .. Len(valid) /\ valid \in Seq(Rows)
  /\ excluded \in Seq(Exclusion)
  /\ Len(valid) + Len(excluded) = next - 1
  /\ Len(valid) = Cardinality(KeptBefore(next))
  /\ \A k \in 1 .. Len(valid) : \E i \in KeptBefore(next) :
       Rank(Kept(frame, From, To), i) = k /\ valid[k] = frame[i]

LEMMA FrameType ==
  ASSUME frame \in UNION {[1 .. n -> Rows] : n \in 0 .. MaxRows}
  PROVE  /\ IsFrame(frame)
         /\ \A i \in 1 .. Len(frame) : frame[i] \in Rows
<1>1. PICK n \in 0 .. MaxRows : frame \in [1 .. n -> Rows]
  OBVIOUS
<1>2. n \in Nat /\ DOMAIN frame = 1 .. n
  BY <1>1, ValidationAssumption
<1>3. Len(frame) = n
  BY <1>1, <1>2
<1> QED
  BY <1>1, <1>2, <1>3, ValidationAssumption DEF IsFrame

LEMMA KeptBeforeFinite ==
  ASSUME IsFrame(frame), NEW k
  PROVE  IsFiniteSet(KeptBefore(k)) /\ Cardinality(KeptBefore(k)) \in Nat
<1>1. KeptBefore(k) \in SUBSET Kept(frame, From, To) /\ IsFiniteSet(Kept(frame, From, To))
  BY KeptFinite DEF KeptBefore
<1> QED
  BY <1>1, FS_Subset, FS_CardinalityType

LEMMA InitLoop == Init => LoopInv
<1> SUFFICES ASSUME Init PROVE LoopInv
  OBVIOUS
<1>1. frame \in UNION {[1 .. n -> Rows] : n \in 0 .. MaxRows}
  BY DEF Init
<1>2. Len(frame) \in Nat /\ Kept(frame, From, To) \subseteq 1 .. Len(frame)
  BY <1>1, FrameType, KeptFinite DEF IsFrame
<1>3. next = 1 /\ seen = {} /\ valid = << >> /\ excluded = << >>
  BY DEF Init
<1>4. KeptBefore(next) = {}
  BY <1>2, <1>3 DEF KeptBefore
<1>5. Cardinality(KeptBefore(next)) = 0
  BY <1>4, FS_EmptySet
<1>6. seen = {frame[j].trade_date : j \in 1 .. (next - 1)}
  BY <1>3
<1> QED
  BY <1>1, <1>2, <1>3, <1>5, <1>6 DEF LoopInv

\* The row the loop looks at is one of those to keep when it is sound and its day not seen.
LEMMA NextIsKept ==
  ASSUME LoopInv, next <= Len(frame)
  PROVE  /\ next \in Nat /\ next \in 1 .. Len(frame) /\ Row \in Rows
         /\ next \in Kept(frame, From, To) <=>
              Fault(Row, From, To) = "none" /\ Row.trade_date \notin seen
<1>1. IsFrame(frame) /\ Len(frame) \in Nat /\ next \in 1 .. Len(frame)
  BY FrameType DEF LoopInv, IsFrame
<1>2. Row \in Rows
  BY <1>1, FrameType DEF LoopInv, Row
<1>3. next \in Kept(frame, From, To) <=>
        /\ Fault(Row, From, To) = "none"
        /\ \A j \in 1 .. (next - 1) : frame[j].trade_date # Row.trade_date
  BY <1>1 DEF Kept, Row, IsFrame
<1>4. Row.trade_date \notin seen <=>
        \A j \in 1 .. (next - 1) : frame[j].trade_date # Row.trade_date
  BY DEF LoopInv
<1> QED
  BY <1>1, <1>2, <1>3, <1>4

\* The days seen after a turn, whether the row's day was new or not.
LEMMA SeenAfter ==
  ASSUME LoopInv, next <= Len(frame), next' = next + 1, frame' = frame,
         seen' = seen \cup {Row.trade_date}
  PROVE  seen' = {frame'[j].trade_date : j \in 1 .. (next' - 1)}
<1>1. next \in Int /\ next >= 1
  BY NextIsKept
<1>2. 1 .. (next' - 1) = (1 .. (next - 1)) \cup {next}
  BY <1>1
<1>3. seen = {frame[j].trade_date : j \in 1 .. (next - 1)} /\ Row = frame[next]
  BY DEF LoopInv, Row
<1> QED
  BY <1>2, <1>3

\* A turn that excludes its row.
LEMMA ExcludeTurn ==
  ASSUME LoopInv, next <= Len(frame), next' = next + 1, frame' = frame,
         seen' = seen \cup {Row.trade_date}, valid' = valid,
         next \notin Kept(frame, From, To),
         NEW e \in Exclusion, excluded' = Append(excluded, e)
  PROVE  LoopInv'
<1>1. next \in Int /\ next \in 1 .. Len(frame) /\ Kept(frame, From, To) \subseteq Int
  BY NextIsKept, FrameType, KeptFinite DEF LoopInv
<1>2. PICK kept : kept = KeptBefore(next)
  OBVIOUS
<1>3. KeptBefore(next)' = kept
  <2>1. \A i \in Kept(frame, From, To) : i <= next' - 1 <=> i <= next - 1
    BY <1>1
  <2> QED
    BY <1>2, <2>1 DEF KeptBefore
<1>4. Len(excluded') = Len(excluded) + 1 /\ excluded' \in Seq(Exclusion)
  BY DEF LoopInv
<1>5. /\ Len(valid') + Len(excluded') = next' - 1
      /\ next' \in 1 .. Len(frame') + 1
  <2>1. Len(valid) \in Nat /\ Len(excluded) \in Nat /\ Len(valid) + Len(excluded) = next - 1
    BY DEF LoopInv
  <2>2. Len(frame) \in Nat
    BY FrameType DEF LoopInv, IsFrame
  <2> QED
    BY <1>1, <1>4, <2>1, <2>2
<1>6. /\ Len(valid') = Cardinality(KeptBefore(next)')
      /\ \A k \in 1 .. Len(valid') : \E i \in KeptBefore(next)' :
           Rank(Kept(frame, From, To), i) = k /\ valid'[k] = frame'[i]
  <2>1. Cardinality(KeptBefore(next)') = Cardinality(kept)
    BY <1>3, Zenon
  <2>2. /\ Len(valid) = Cardinality(kept)
        /\ \A k \in 1 .. Len(valid) : \E i \in kept :
             Rank(Kept(frame, From, To), i) = k /\ valid[k] = frame[i]
    BY <1>2 DEF LoopInv
  <2> QED
    BY <1>3, <2>1, <2>2
<1>7. seen' = {frame'[j].trade_date : j \in 1 .. (next' - 1)}
  BY SeenAfter
<1> QED
  BY <1>4, <1>5, <1>6, <1>7 DEF LoopInv

\* A turn that keeps its row: the row is the next by rank.
LEMMA KeepTurn ==
  ASSUME LoopInv, next <= Len(frame), next' = next + 1, frame' = frame,
         seen' = seen \cup {Row.trade_date}, valid' = Append(valid, Row), excluded' = excluded,
         next \in Kept(frame, From, To)
  PROVE  LoopInv'
<1>1. /\ IsFrame(frame) /\ Len(frame) \in Nat
      /\ next \in Int /\ next \in 1 .. Len(frame) /\ Row \in Rows
      /\ Kept(frame, From, To) \subseteq Int
  BY NextIsKept, FrameType, KeptFinite DEF LoopInv, IsFrame
<1>2. PICK kept : kept = KeptBefore(next)
  OBVIOUS
<1>3. IsFiniteSet(kept) /\ Cardinality(kept) \in Nat /\ next \notin kept
  <2>1. IsFiniteSet(kept) /\ Cardinality(kept) \in Nat
    BY <1>1, <1>2, KeptBeforeFinite
  <2>2. next \notin kept
    BY <1>1, <1>2 DEF KeptBefore
  <2> QED
    BY <2>1, <2>2
<1>4. KeptBefore(next)' = kept \cup {next}
  <2>1. \A i \in Kept(frame, From, To) : i <= next' - 1 <=> i <= next - 1 \/ i = next
    BY <1>1
  <2> QED
    BY <1>2, <2>1 DEF KeptBefore
<1>5. Cardinality(kept \cup {next}) = Cardinality(kept) + 1
  BY <1>3, FS_AddElement
<1>6. Rank(Kept(frame, From, To), next) = Cardinality(kept) + 1
  <2>1. {j \in Kept(frame, From, To) : j <= next} = kept \cup {next}
    <3>1. \A j \in Kept(frame, From, To) : j <= next <=> j <= next - 1 \/ j = next
      BY <1>1
    <3> QED
      BY <1>2, <3>1 DEF KeptBefore
  <2> QED
    BY <1>5, <2>1 DEF Rank
<1>7. PICK n : n = Len(valid)
  OBVIOUS
<1>8. /\ n \in Nat /\ n = Cardinality(kept)
      /\ valid \in Seq(Rows) /\ DOMAIN valid = 1 .. n
      /\ \A k \in 1 .. n : \E i \in kept :
           Rank(Kept(frame, From, To), i) = k /\ valid[k] = frame[i]
  BY <1>2, <1>7 DEF LoopInv
<1>9. /\ Len(valid') = n + 1 /\ DOMAIN valid' = 1 .. n + 1 /\ valid' \in Seq(Rows)
      /\ valid'[n + 1] = frame[next]
      /\ \A k \in 1 .. n : valid'[k] = valid[k]
  BY <1>1, <1>7, <1>8 DEF Row
<1>10. ASSUME NEW k \in 1 .. n + 1
       PROVE  \E i \in kept \cup {next} :
                Rank(Kept(frame, From, To), i) = k /\ valid'[k] = frame[i]
  <2>1. CASE k = n + 1
    BY <1>6, <1>8, <1>9, <2>1
  <2>2. CASE k # n + 1
    <3>1. k \in 1 .. n
      BY <1>8, <2>2
    <3> QED
      BY <1>8, <1>9, <3>1
  <2> QED
    BY <2>1, <2>2
<1>11. seen' = {frame'[j].trade_date : j \in 1 .. (next' - 1)}
  BY SeenAfter
<1>12. /\ Len(valid') + Len(excluded') = next' - 1
       /\ next' \in 1 .. Len(frame') + 1
  <2>1. Len(excluded) \in Nat /\ n + Len(excluded) = next - 1
    BY <1>7 DEF LoopInv
  <2> QED
    BY <1>1, <1>8, <1>9, <2>1
<1>13. /\ Len(valid') \in Nat
       /\ Len(valid') = Cardinality(KeptBefore(next)')
       /\ \A k \in 1 .. Len(valid') : \E i \in KeptBefore(next)' :
            Rank(Kept(frame, From, To), i) = k /\ valid'[k] = frame'[i]
  <2>1. n + 1 \in Nat /\ n + 1 = Cardinality(KeptBefore(next)')
    <3>1. Cardinality(KeptBefore(next)') = Cardinality(kept \cup {next})
      BY <1>4, Zenon
    <3> QED
      BY <1>5, <1>8, <3>1
  <2>2. \A k \in 1 .. n + 1 : \E i \in KeptBefore(next)' :
          Rank(Kept(frame, From, To), i) = k /\ valid'[k] = frame'[i]
    BY <1>4, <1>10
  <2> QED
    BY <1>9, <2>1, <2>2
<1>14. frame' \in UNION {[1 .. m -> Rows] : m \in 0 .. MaxRows}
  BY DEF LoopInv
<1>15. excluded' \in Seq(Exclusion)
  BY DEF LoopInv
<1>16. DOMAIN valid' = 1 .. Len(valid') /\ valid' \in Seq(Rows)
  BY <1>9
<1> QED
  BY <1>11, <1>12, <1>13, <1>14, <1>15, <1>16 DEF LoopInv

LEMMA LoopStep == LoopInv /\ [Next]_vars => LoopInv'
<1> SUFFICES ASSUME LoopInv, [Next]_vars PROVE LoopInv'
  OBVIOUS
<1>1. ASSUME NEW reason \in Reason, next <= Len(frame)
      PROVE  [trade_date |-> Row.trade_date, reason |-> reason] \in Exclusion
  <2>1. Row.trade_date \in Int
    BY <1>1, NextIsKept, ValidationAssumption
  <2> QED
    BY <2>1 DEF Exclusion
<1>2. CASE SkipDuplicate
  <2>1. next \notin Kept(frame, From, To)
    BY <1>2, NextIsKept DEF SkipDuplicate
  <2>2. seen' = seen \cup {Row.trade_date}
    BY <1>2 DEF SkipDuplicate
  <2>3. [trade_date |-> Row.trade_date, reason |-> "duplicate_date"] \in Exclusion
    BY <1>1, <1>2 DEF SkipDuplicate, Reason
  <2> QED
    BY <1>2, <2>1, <2>2, <2>3, ExcludeTurn DEF SkipDuplicate, Exclude
<1>3. CASE CheckRow /\ Fault(Row, From, To) = "none"
  <2>1. next \in Kept(frame, From, To)
    BY <1>3, NextIsKept DEF CheckRow
  <2> QED
    BY <1>3, <2>1, KeepTurn DEF CheckRow
<1>4. CASE CheckRow /\ Fault(Row, From, To) # "none"
  <2>1. next \notin Kept(frame, From, To)
    BY <1>4, NextIsKept DEF CheckRow
  <2>2. Fault(Row, From, To) \in Reason
    BY <1>4 DEF Fault, Reason
  <2>3. [trade_date |-> Row.trade_date, reason |-> Fault(Row, From, To)] \in Exclusion
    BY <1>1, <1>4, <2>2 DEF CheckRow
  <2> QED
    BY <1>4, <2>1, <2>3, ExcludeTurn DEF CheckRow, Exclude
<1>5. CASE Summarize
  BY <1>5 DEF Summarize, LoopInv, KeptBefore
<1>6. CASE UNCHANGED vars
  BY <1>6 DEF vars, LoopInv, KeptBefore
<1> QED
  BY <1>2, <1>3, <1>4, <1>5, <1>6 DEF Next

-----------------------------------------------------------------------------
(* The theorems *)

\* The lists that validate_and_transform builds are, at every turn, those of the rows read so far
\* (market_data.py:64-107).
THEOREM LoopInvariant == Spec => []LoopInv
BY InitLoop, LoopStep, PTL DEF Spec

\* At the end of the loop the rows kept are those of the definition, the first row of each day
\* where it is sound, in the order of the frame (market_data.py:68-107).
THEOREM LoopComputesValidRows == Spec => []LoopKeepsFirstSoundRows
<1>1. LoopInv => LoopKeepsFirstSoundRows
  <2> SUFFICES ASSUME LoopInv, next > Len(frame) PROVE valid = ValidRows(frame, From, To)
    BY DEF LoopKeepsFirstSoundRows
  <2> DEFINE kept == Kept(frame, From, To)
  <2>1. IsFrame(frame) /\ Len(frame) \in Nat /\ kept \subseteq 1 .. Len(frame)
    BY FrameType, KeptFinite DEF LoopInv, IsFrame
  <2>2. KeptBefore(next) = kept
    <3>1. next = Len(frame) + 1
      BY <2>1 DEF LoopInv
    <3>2. \A i \in kept : i <= next - 1
      BY <2>1, <3>1
    <3> QED
      BY <3>2 DEF KeptBefore
  <2>3. /\ Len(valid) = Cardinality(kept)
        /\ valid \in Seq(Rows) /\ DOMAIN valid = 1 .. Cardinality(kept)
        /\ \A k \in 1 .. Cardinality(kept) : \E i \in kept :
             Rank(kept, i) = k /\ valid[k] = frame[i]
    BY <2>2 DEF LoopInv
  <2>4. \A i, j \in kept : Rank(kept, i) = Rank(kept, j) => i = j
    BY <2>1, KeptFinite, Ranks
  <2>5. /\ \A k \in 1 .. Cardinality(kept) :
             /\ Origin(frame, From, To, k) \in kept
             /\ Rank(kept, Origin(frame, From, To, k)) = k
        /\ ValidRows(frame, From, To) =
             [k \in 1 .. Cardinality(kept) |-> frame[Origin(frame, From, To, k)]]
    BY <2>1, Origins
  <2> HIDE DEF kept
  <2>6. \A k \in 1 .. Cardinality(kept) : valid[k] = frame[Origin(frame, From, To, k)]
    BY <2>3, <2>4, <2>5
  <2>7. valid = [k \in 1 .. Cardinality(kept) |-> valid[k]]
    BY <2>3
  <2> QED
    BY <2>5, <2>6, <2>7, Zenon
<1> QED
  BY <1>1, LoopInvariant, PTL

\* Every turn puts its row in one of the two lists, and never two rows of a day in the first
\* (market_data.py:70-107).
THEOREM NoRowIsLost == Spec => []EveryRowAccountedFor
<1>1. LoopInv => EveryRowAccountedFor
  <2> SUFFICES ASSUME LoopInv, NEW j \in DOMAIN valid, NEW k \in DOMAIN valid,
                      valid[j].trade_date = valid[k].trade_date
               PROVE  j = k
    BY DEF EveryRowAccountedFor, LoopInv
  <2>1. PICK a \in KeptBefore(next) : Rank(Kept(frame, From, To), a) = j /\ valid[j] = frame[a]
    BY DEF LoopInv
  <2>2. PICK b \in KeptBefore(next) : Rank(Kept(frame, From, To), b) = k /\ valid[k] = frame[b]
    BY DEF LoopInv
  <2>3. /\ a \in Kept(frame, From, To) /\ b \in Kept(frame, From, To)
        /\ a \in Int /\ b \in Int /\ a >= 1 /\ b >= 1
    BY FrameType, KeptFinite DEF LoopInv, KeptBefore
  <2>4. ~ (a < b) /\ ~ (b < a)
    BY <2>1, <2>2, <2>3 DEF Kept
  <2>5. a = b
    BY <2>3, <2>4
  <2> QED
    BY <2>1, <2>2, <2>5
<1> QED
  BY <1>1, LoopInvariant, PTL

\* The price a fill may use is positive, inside its day's range, and of a day asked for
\* (market_data.py:77-99).
THEOREM KeptRowsAreRight == Spec => []KeptRowsAreSound
<1>1. ASSUME NEW row \in Rows, Fault(row, From, To) = "none"
      PROVE  /\ 0 < row.low /\ row.low <= row.open /\ row.open <= row.high
             /\ row.low <= row.close /\ row.close <= row.high
             /\ row.volume >= 0 /\ row.trade_date \in From .. To
  <2> DEFINE prices == {row.open, row.high, row.low, row.close}
             lowest == CHOOSE p \in prices : \A q \in prices : p <= q
  <2>1. /\ row.parses
        /\ From <= row.trade_date /\ row.trade_date <= To
        /\ ~ (lowest <= 0)
        /\ row.low <= row.open /\ row.open <= row.high
        /\ row.low <= row.close /\ row.close <= row.high
        /\ ~ (row.volume < 0)
    BY <1>1 DEF Fault
  <2>2. /\ row.open \in Int /\ row.high \in Int /\ row.low \in Int /\ row.close \in Int
        /\ row.volume \in Int /\ row.trade_date \in Int
    BY <2>1, ValidationAssumption DEF Numeric
  <2>3. row.low \in prices /\ \A q \in prices : row.low <= q
    BY <2>1, <2>2
  <2>4. lowest \in prices /\ \A q \in prices : lowest <= q
    BY <2>3
  <2>5. lowest \in Int /\ lowest <= row.low
    BY <2>2, <2>4
  <2> HIDE DEF lowest
  <2> QED
    BY <2>1, <2>2, <2>5, ValidationAssumption
<1>2. LoopInv => KeptRowsAreSound
  <2> SUFFICES ASSUME LoopInv, NEW k \in DOMAIN valid
               PROVE  valid[k] \in Rows /\ Fault(valid[k], From, To) = "none"
    BY <1>1 DEF KeptRowsAreSound
  <2>1. PICK i \in KeptBefore(next) : valid[k] = frame[i]
    BY DEF LoopInv
  <2>2. i \in Kept(frame, From, To) /\ valid[k] \in Rows
    BY DEF LoopInv, KeptBefore
  <2> QED
    BY <2>1, <2>2 DEF Kept
<1> QED
  BY <1>2, LoopInvariant, PTL

-----------------------------------------------------------------------------
(* The summary *)

\* The excluded rows that have a reason.
Of(r) == {k \in 1 .. Len(excluded) : excluded[k].reason = r}

\* The summary is that of the lists at the end of the loop, which nobody touches again.
SummaryInv ==
  summary # NoSummary =>
    /\ next = Len(frame) + 1
    /\ summary.status = DecideStatus(Len(frame), Len(valid), Len(excluded))
    /\ summary.reasons = [r \in {excluded[k].reason : k \in 1 .. Len(excluded)} |->
                            Cardinality(Of(r))]

LEMMA SummaryStep == LoopInv /\ SummaryInv /\ [Next]_vars => SummaryInv'
<1> SUFFICES ASSUME LoopInv, SummaryInv, [Next]_vars PROVE SummaryInv'
  OBVIOUS
<1>1. Len(frame) \in Nat /\ next \in Int /\ next <= Len(frame) + 1
  BY FrameType DEF LoopInv, IsFrame
<1>2. CASE SkipDuplicate \/ CheckRow
  <2>1. next <= Len(frame) /\ summary' = summary
    BY <1>2 DEF SkipDuplicate, CheckRow
  <2>2. next # Len(frame) + 1
    BY <1>1, <2>1
  <2> QED
    BY <2>1, <2>2 DEF SummaryInv
<1>3. CASE Summarize
  <2>1. next = Len(frame) + 1
    BY <1>1, <1>3 DEF Summarize
  <2>2. DOMAIN excluded = 1 .. Len(excluded)
    BY DEF LoopInv
  <2>3. {e.reason : e \in ToSet(excluded)} = {excluded[k].reason : k \in 1 .. Len(excluded)}
    BY <2>2 DEF ToSet
  <2>4. \A r : {k \in DOMAIN excluded : excluded[k].reason = r} = Of(r)
    BY <2>2 DEF Of
  <2>5. summary' = [status  |-> DecideStatus(Len(frame), Len(valid), Len(excluded)),
                    reasons |-> [r \in {excluded[k].reason : k \in 1 .. Len(excluded)} |->
                                   Cardinality(Of(r))]]
    BY <1>3, <2>3, <2>4 DEF Summarize
  <2>6. UNCHANGED <<frame, next, valid, excluded>>
    BY <1>3 DEF Summarize
  <2> QED
    BY <2>1, <2>5, <2>6 DEF SummaryInv, Of
<1>4. CASE UNCHANGED vars
  BY <1>4 DEF vars, SummaryInv, Of
<1> QED
  BY <1>2, <1>3, <1>4 DEF Next

LEMMA DisjointSum ==
  ASSUME NEW S, NEW T, IsFiniteSet(S), IsFiniteSet(T), S \cap T = {}
  PROVE  /\ IsFiniteSet(S \cup T)
         /\ Cardinality(S \cup T) = Cardinality(S) + Cardinality(T)
<1>1. /\ IsFiniteSet(S \cup T)
      /\ Cardinality(S \cup T) = Cardinality(S) + Cardinality(T) - Cardinality(S \cap T)
  BY FS_Union
<1>2. Cardinality(S \cap T) = 0 /\ Cardinality(S) \in Nat /\ Cardinality(T) \in Nat
  BY FS_EmptySet, FS_CardinalityType
<1> QED
  BY <1>1, <1>2

\* Every excluded row has one reason.
LEMMA ReasonsAddUp ==
  ASSUME LoopInv
  PROVE  Cardinality(Of("duplicate_date")) + Cardinality(Of("malformed_row"))
           + Cardinality(Of("out_of_range")) + Cardinality(Of("non_positive_price"))
           + Cardinality(Of("invalid_ohlc")) + Cardinality(Of("negative_volume"))
           = Len(excluded)
<1>1. Len(excluded) \in Nat /\ \A k \in 1 .. Len(excluded) : excluded[k].reason \in Reason
  <2>1. excluded \in Seq(Exclusion)
    BY DEF LoopInv
  <2>2. Len(excluded) \in Nat /\ \A k \in 1 .. Len(excluded) : excluded[k] \in Exclusion
    BY <2>1
  <2> QED
    BY <2>2 DEF Exclusion
<1>2. \A r : IsFiniteSet(Of(r)) /\ Cardinality(Of(r)) \in Nat
  <2> TAKE r
  <2>1. IsFiniteSet(1 .. Len(excluded)) /\ Of(r) \in SUBSET (1 .. Len(excluded))
    BY <1>1, FS_Interval DEF Of
  <2> QED
    BY <2>1, FS_Subset, FS_CardinalityType
<1>3. \A r, s : r # s => Of(r) \cap Of(s) = {}
  BY DEF Of
<1> DEFINE A == Of("duplicate_date")
           B == A \cup Of("malformed_row")
           C == B \cup Of("out_of_range")
           D == C \cup Of("non_positive_price")
           E == D \cup Of("invalid_ohlc")
           F == E \cup Of("negative_volume")
<1>4. /\ A \cap Of("malformed_row") = {} /\ B \cap Of("out_of_range") = {}
      /\ C \cap Of("non_positive_price") = {} /\ D \cap Of("invalid_ohlc") = {}
      /\ E \cap Of("negative_volume") = {}
  BY <1>3
<1>5. IsFiniteSet(A)
  BY <1>2
<1>6. IsFiniteSet(B) /\ Cardinality(B) = Cardinality(A) + Cardinality(Of("malformed_row"))
  BY <1>2, <1>4, <1>5, DisjointSum
<1>7. IsFiniteSet(C) /\ Cardinality(C) = Cardinality(B) + Cardinality(Of("out_of_range"))
  BY <1>2, <1>4, <1>6, DisjointSum
<1>8. IsFiniteSet(D) /\ Cardinality(D) = Cardinality(C) + Cardinality(Of("non_positive_price"))
  BY <1>2, <1>4, <1>7, DisjointSum
<1>9. IsFiniteSet(E) /\ Cardinality(E) = Cardinality(D) + Cardinality(Of("invalid_ohlc"))
  BY <1>2, <1>4, <1>8, DisjointSum
<1>10. Cardinality(F) = Cardinality(E) + Cardinality(Of("negative_volume"))
  BY <1>2, <1>4, <1>9, DisjointSum
<1>11. F = 1 .. Len(excluded)
  BY <1>1 DEF Of, Reason
<1>12. Cardinality(F) = Len(excluded)
  <2>1. Cardinality(1 .. Len(excluded)) = Len(excluded)
    <3>1. \A n \in Nat : Cardinality(1 .. n) = IF 1 > n THEN 0 ELSE n - 1 + 1
      BY FS_Interval
    <3>2. \A n \in Nat : Cardinality(1 .. n) = n
      BY <3>1
    <3> QED
      BY <1>1, <3>2
  <2> HIDE DEF F
  <2> QED
    BY <1>11, <2>1
<1> HIDE DEF A, B, C, D, E, F
<1>13. Cardinality(A) = Cardinality(Of("duplicate_date"))
  BY DEF A
<1> QED
  BY <1>2, <1>6, <1>7, <1>8, <1>9, <1>10, <1>12, <1>13

\* A run is a success exactly when every row that was returned is stored, and its reasons
\* count every other row (market_data.py:112-123).
THEOREM LossesAreTold == Spec => []SummaryTellsLoss
<1>1. Init => SummaryInv
  BY DEF Init, SummaryInv
<1>2. LoopInv /\ SummaryInv => SummaryTellsLoss
  <2> SUFFICES ASSUME LoopInv, SummaryInv, summary # NoSummary PROVE SummaryTellsLoss
    BY DEF SummaryTellsLoss
  <2> DEFINE count(r) == IF r \in DOMAIN summary.reasons THEN summary.reasons[r] ELSE 0
  <2>1. /\ Len(frame) \in Nat /\ Len(valid) \in Nat /\ Len(excluded) \in Nat
        /\ Len(valid) + Len(excluded) = Len(frame)
        /\ frame # <<>> <=> Len(frame) > 0
    <3>1. PICK n \in 0 .. MaxRows : frame \in [1 .. n -> Rows]
      BY DEF LoopInv
    <3>2. n \in Nat /\ Len(frame) = n /\ frame \in Seq(Rows)
      BY <3>1, ValidationAssumption
    <3>3. Len(valid) \in Nat /\ Len(excluded) \in Nat /\ Len(valid) + Len(excluded) = n
      BY <3>2 DEF LoopInv, SummaryInv
    <3> QED
      BY <3>2, <3>3
  <2>2. summary.status[1] = "success" <=> Len(valid) = Len(frame) /\ frame # <<>>
    BY <2>1 DEF SummaryInv, DecideStatus
  <2>3. \A r : IsFiniteSet(Of(r)) /\ Cardinality(Of(r)) \in Nat
    <3> TAKE r
    <3>1. IsFiniteSet(1 .. Len(excluded)) /\ Of(r) \in SUBSET (1 .. Len(excluded))
      BY <2>1, FS_Interval DEF Of
    <3> QED
      BY <3>1, FS_Subset, FS_CardinalityType
  <2>4. \A r \in DOMAIN summary.reasons : Of(r) # {} /\ summary.reasons[r] = Cardinality(Of(r))
    BY DEF SummaryInv, Of
  <2>5. \A r \in DOMAIN summary.reasons : summary.reasons[r] > 0
    BY <2>3, <2>4, FS_EmptySet
  <2>6. \A r : count(r) = Cardinality(Of(r))
    <3> TAKE r
    <3>1. CASE r \in DOMAIN summary.reasons
      BY <2>4, <3>1
    <3>2. CASE r \notin DOMAIN summary.reasons
      <4>1. Of(r) = {}
        BY <3>2 DEF SummaryInv, Of
      <4> QED
        BY <3>2, <4>1, FS_EmptySet
    <3> QED
      BY <3>1, <3>2
  <2> HIDE DEF count
  <2>7. count("duplicate_date") + count("malformed_row") + count("out_of_range")
          + count("non_positive_price") + count("invalid_ohlc") + count("negative_volume")
          = Len(frame) - Len(valid)
    BY <2>1, <2>3, <2>6, ReasonsAddUp
  <2> QED
    BY <2>2, <2>5, <2>7 DEF SummaryTellsLoss, count
<1> QED
  BY <1>1, <1>2, SummaryStep, LoopInvariant, PTL DEF Spec

=============================================================================
