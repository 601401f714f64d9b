--------------------------- MODULE PriceRows_proofs ---------------------------
(***************************************************************************)
(* ValidRows, for every frame: the rows it returns are the kept ones, each *)
(* once, in their order, no two of one day, and all of them asked for.     *)
(*                                                                         *)
(* ValidRows finds the k-th kept row by its rank, the number of kept rows  *)
(* up to it.  That every rank up to the number of kept rows occurs follows *)
(* by counting, without induction: ranks differ, and there are as many as  *)
(* kept rows.                                                              *)
(***************************************************************************)
EXTENDS PriceRows, FiniteSetTheorems, TLAPS

\* What the provider returns, as far as the proofs need it.
IsFrame(frame) ==
  /\ Len(frame) \in Nat
  /\ DOMAIN frame = 1 .. Len(frame)
  /\ \A i \in DOMAIN frame : frame[i].trade_date \in Int

Rank(kept, i) == Cardinality({j \in kept : j <= i})

\* The numbers up to n are n.
LEMMA IntervalSize ==
  ASSUME NEW n \in Nat
  PROVE  IsFiniteSet(1 .. n) /\ Cardinality(1 .. n) = n
<1>1. 1 \in Int /\ n \in Int
  OBVIOUS
<1>2. IsFiniteSet(1 .. n) /\ Cardinality(1 .. n) = IF 1 > n THEN 0 ELSE n - 1 + 1
  BY <1>1, FS_Interval
<1> QED
  BY <1>2

\* The ranks of a finite set of integers are the numbers up to its size, each once.
LEMMA Ranks ==
  ASSUME NEW kept, IsFiniteSet(kept), kept \subseteq Int
  PROVE  /\ Cardinality(kept) \in Nat
         /\ \A i \in kept : Rank(kept, i) \in 1 .. Cardinality(kept)
         /\ \A i, j \in kept : Rank(kept, i) = Rank(kept, j) => i = j
         /\ \A i, j \in kept : Rank(kept, i) < Rank(kept, j) => i < j
         /\ \A k \in 1 .. Cardinality(kept) : \E i \in kept : Rank(kept, i) = k
<1> DEFINE upTo(i) == {j \in kept : j <= i}
           n == Cardinality(kept)
           rank == [i \in kept |-> Rank(kept, i)]
<1>1. n \in Nat
  BY FS_CardinalityType
<1>2. ASSUME NEW i \in kept PROVE IsFiniteSet(upTo(i)) /\ Rank(kept, i) \in 1 .. n
  <2>1. upTo(i) \in SUBSET kept
    OBVIOUS
  <2>2. IsFiniteSet(upTo(i)) /\ Cardinality(upTo(i)) <= n
    BY <2>1, FS_Subset
  <2>3. Cardinality(upTo(i)) \in Nat
    BY <2>2, FS_CardinalityType
  <2>4. i \in upTo(i)
    OBVIOUS
  <2>5. Cardinality(upTo(i)) # 0
    BY <2>2, <2>4, FS_EmptySet
  <2> HIDE DEF upTo
  <2>6. Cardinality(upTo(i)) \in 1 .. n
    BY <1>1, <2>2, <2>3, <2>5
  <2>7. Rank(kept, i) = Cardinality(upTo(i))
    BY DEF Rank, upTo
  <2> QED
    BY <2>2, <2>6, <2>7
<1>3. ASSUME NEW i \in kept, NEW j \in kept, i < j PROVE Rank(kept, i) < Rank(kept, j)
  <2>1. i \in Int /\ j \in Int /\ ~ (j <= i) /\ j <= j
    BY <1>3
  <2>2. upTo(i) \in SUBSET upTo(j)
    <3>1. \A x \in Int : x <= i => x <= j
      BY <1>3, <2>1
    <3> QED
      BY <3>1
  <2>3. j \in upTo(j) /\ j \notin upTo(i)
    BY <2>1
  <2>4. /\ Cardinality(upTo(i)) # Cardinality(upTo(j))
        /\ Cardinality(upTo(i)) <= Cardinality(upTo(j))
    BY <1>2, <2>2, <2>3, FS_Subset
  <2>5. Rank(kept, i) = Cardinality(upTo(i)) /\ Rank(kept, j) = Cardinality(upTo(j))
    BY DEF Rank
  <2> HIDE DEF upTo
  <2>6. Rank(kept, i) \in Int /\ Rank(kept, j) \in Int
    BY <1>1, <1>2
  <2> QED
    BY <2>4, <2>5, <2>6
<1>a. \A i \in kept : Rank(kept, i) \in Int
  <2>1. \A i \in kept : Rank(kept, i) \in 1 .. n
    BY <1>2
  <2> HIDE DEF n
  <2> QED
    BY <1>1, <2>1
<1>4. \A i, j \in kept : Rank(kept, i) = Rank(kept, j) => i = j
  <2> SUFFICES ASSUME NEW i \in kept, NEW j \in kept, Rank(kept, i) = Rank(kept, j), i # j
               PROVE  FALSE
    OBVIOUS
  <2>1. i < j \/ j < i
    OBVIOUS
  <2>2. Rank(kept, i) \in Int /\ Rank(kept, j) \in Int
    BY <1>a
  <2> QED
    BY <1>3, <2>1, <2>2
<1>5. rank \in Injection(kept, 1 .. n)
  BY <1>2, <1>4 DEF Injection, IsInjective
<1>6. IsFiniteSet(1 .. n) /\ Cardinality(1 .. n) = n
  BY <1>1, IntervalSize
<1>7. rank \in Surjection(kept, 1 .. n)
  BY <1>5, <1>6, FS_Injection
<1>8. \A k \in 1 .. n : \E i \in kept : Rank(kept, i) = k
  BY <1>7 DEF Surjection
<1>9. ASSUME NEW i \in kept, NEW j \in kept, Rank(kept, i) < Rank(kept, j) PROVE i < j
  <2>1. i < j \/ i = j \/ j < i
    OBVIOUS
  <2>2. Rank(kept, i) \in Int /\ Rank(kept, j) \in Int
    BY <1>a
  <2> QED
    BY <1>3, <1>9, <2>1, <2>2
<1> QED
  BY <1>1, <1>2, <1>4, <1>8, <1>9

\* Which row of the frame becomes the k-th of the kept ones.
Origin(frame, from, to, k) ==
  CHOOSE i \in Kept(frame, from, to) : Rank(Kept(frame, from, to), i) = k

LEMMA KeptFinite ==
  ASSUME NEW frame, IsFrame(frame), NEW from, NEW to
  PROVE  /\ Kept(frame, from, to) \subseteq 1 .. Len(frame)
         /\ Kept(frame, from, to) \subseteq Int
         /\ IsFiniteSet(Kept(frame, from, to))
         /\ Cardinality(Kept(frame, from, to)) \in Nat
         /\ Cardinality(Kept(frame, from, to)) <= Len(frame)
<1>1. Kept(frame, from, to) \in SUBSET (1 .. Len(frame))
  BY DEF IsFrame, Kept
<1>2. Len(frame) \in Nat
  BY DEF IsFrame
<1>3. IsFiniteSet(1 .. Len(frame)) /\ Cardinality(1 .. Len(frame)) = Len(frame)
  BY <1>2, IntervalSize
<1>4. /\ IsFiniteSet(Kept(frame, from, to))
      /\ Cardinality(Kept(frame, from, to)) <= Cardinality(1 .. Len(frame))
  BY <1>1, <1>3, FS_Subset
<1> QED
  BY <1>1, <1>3, <1>4, FS_CardinalityType

LEMMA Origins ==
  ASSUME NEW frame, IsFrame(frame), NEW from, NEW to
  PROVE  LET kept == Kept(frame, from, to)
         IN  /\ \A k \in 1 .. Cardinality(kept) :
                  /\ Origin(frame, from, to, k) \in kept
                  /\ Rank(kept, Origin(frame, from, to, k)) = k
             /\ \A k, l \in 1 .. Cardinality(kept) :
                  k < l => Origin(frame, from, to, k) < Origin(frame, from, to, l)
             /\ \A i \in kept : \E k \in 1 .. Cardinality(kept) : Origin(frame, from, to, k) = i
             /\ ValidRows(frame, from, to) =
                  [k \in 1 .. Cardinality(kept) |-> frame[Origin(frame, from, to, k)]]
<1> DEFINE kept == Kept(frame, from, to)
<1>1. /\ \A i \in kept : Rank(kept, i) \in 1 .. Cardinality(kept)
      /\ \A i, j \in kept : Rank(kept, i) = Rank(kept, j) => i = j
      /\ \A i, j \in kept : Rank(kept, i) < Rank(kept, j) => i < j
      /\ \A k \in 1 .. Cardinality(kept) : \E i \in kept : Rank(kept, i) = k
  BY KeptFinite, Ranks
<1>2. ASSUME NEW k \in 1 .. Cardinality(kept)
      PROVE  Origin(frame, from, to, k) \in kept /\ Rank(kept, Origin(frame, from, to, k)) = k
  BY <1>1 DEF Origin
<1>3. ASSUME NEW i \in kept
      PROVE  \E k \in 1 .. Cardinality(kept) : Origin(frame, from, to, k) = i
  BY <1>1, <1>2
<1>4. ValidRows(frame, from, to) =
        [k \in 1 .. Cardinality(kept) |-> frame[Origin(frame, from, to, k)]]
  BY DEF ValidRows, Origin, Rank
<1>5. ASSUME NEW k \in 1 .. Cardinality(kept), NEW l \in 1 .. Cardinality(kept), k < l
      PROVE  Origin(frame, from, to, k) < Origin(frame, from, to, l)
  BY <1>1, <1>2, <1>5
<1> QED
  BY <1>2, <1>3, <1>4, <1>5

\* Every row that is returned was kept, in the range that was asked for, and no two are of
\* one day; every kept row is returned; and they come in the order of the frame
\* (market_data.py:62-109).
THEOREM ValidRowsAreKept ==
  ASSUME NEW frame, IsFrame(frame), NEW from \in Int, NEW to \in Int
  PROVE  LET rows == ValidRows(frame, from, to)
         IN  /\ Len(rows) \in Nat /\ DOMAIN rows = 1 .. Len(rows)
             /\ Len(rows) <= Len(frame)
             /\ \A k \in DOMAIN rows :
                  /\ \E i \in Kept(frame, from, to) : rows[k] = frame[i]
                  /\ rows[k].trade_date \in from .. to
             /\ \A k, l \in DOMAIN rows : rows[k].trade_date = rows[l].trade_date => k = l
             /\ \A i \in Kept(frame, from, to) : \E k \in DOMAIN rows : rows[k] = frame[i]
             /\ \A k, l \in DOMAIN rows : k < l =>
                  \E i, j \in Kept(frame, from, to) :
                    i < j /\ rows[k] = frame[i] /\ rows[l] = frame[j]
<1> DEFINE kept == Kept(frame, from, to)
           n == Cardinality(kept)
           rows == ValidRows(frame, from, to)
<1>1. n \in Nat /\ n <= Len(frame) /\ kept \subseteq 1 .. Len(frame)
  BY KeptFinite
<1>2. /\ \A k \in 1 .. n :
           /\ Origin(frame, from, to, k) \in kept
           /\ Rank(kept, Origin(frame, from, to, k)) = k
      /\ \A k, l \in 1 .. n :
           k < l => Origin(frame, from, to, k) < Origin(frame, from, to, l)
      /\ \A i \in kept : \E k \in 1 .. n : Origin(frame, from, to, k) = i
      /\ rows = [k \in 1 .. n |-> frame[Origin(frame, from, to, k)]]
  BY Origins
<1>3. ASSUME NEW i \in kept PROVE frame[i].trade_date \in from .. to
  <2>1. frame[i].trade_date \in Int /\ Fault(frame[i], from, to) = "none"
    BY <1>1 DEF Kept, IsFrame
  <2>2. from <= frame[i].trade_date /\ frame[i].trade_date <= to
    BY <2>1 DEF Fault
  <2> QED
    BY <2>1, <2>2
<1>4. ASSUME NEW i \in kept, NEW j \in kept, frame[i].trade_date = frame[j].trade_date
      PROVE  i = j
  <2>1. i \in Int /\ j \in Int /\ i >= 1 /\ j >= 1
    BY <1>1 DEF IsFrame
  <2>2. ~ (i < j) /\ ~ (j < i)
    BY <1>4, <2>1 DEF Kept
  <2> QED
    BY <2>1, <2>2
<1> HIDE DEF kept, n, rows
<1>5. Len(rows) = n /\ DOMAIN rows = 1 .. n
  BY <1>1, <1>2
<1>6. ASSUME NEW k \in 1 .. n
      PROVE  \E i \in kept : rows[k] = frame[i]
  BY <1>2
<1>7. \A k \in 1 .. n : rows[k].trade_date \in from .. to
  BY <1>3, <1>6
<1>8. ASSUME NEW k \in 1 .. n, NEW l \in 1 .. n, rows[k].trade_date = rows[l].trade_date
      PROVE  k = l
  <2>1. Origin(frame, from, to, k) = Origin(frame, from, to, l)
    BY <1>2, <1>4, <1>8
  <2> QED
    BY <1>2, <2>1
<1>9. ASSUME NEW i \in kept PROVE \E k \in 1 .. n : rows[k] = frame[i]
  BY <1>2
<1>10. ASSUME NEW k \in 1 .. n, NEW l \in 1 .. n, k < l
       PROVE  \E i, j \in kept : i < j /\ rows[k] = frame[i] /\ rows[l] = frame[j]
  BY <1>2, <1>10
<1>11. \A k, l \in DOMAIN rows : k < l =>
         \E i, j \in kept : i < j /\ rows[k] = frame[i] /\ rows[l] = frame[j]
  BY <1>5, <1>10
<1>12. /\ \A k \in DOMAIN rows : /\ \E i \in kept : rows[k] = frame[i]
                                 /\ rows[k].trade_date \in from .. to
       /\ \A k, l \in DOMAIN rows : rows[k].trade_date = rows[l].trade_date => k = l
       /\ \A i \in kept : \E k \in DOMAIN rows : rows[k] = frame[i]
  BY <1>5, <1>6, <1>7, <1>8, <1>9
<1> QED
  BY <1>1, <1>5, <1>11, <1>12 DEF kept, rows

=============================================================================
