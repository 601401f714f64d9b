-------------------------- MODULE LedgerSum_proofs --------------------------
(***************************************************************************)
(* What LedgerSum computes: 0 for an empty ledger, and one row more adds   *)
(* its amount.  The two facts determine the sum of every finite ledger.    *)
(***************************************************************************)
EXTENDS LedgerSum, FiniteSetTheorems, TLAPS

\* A row stands for as many units as its amount says.
LEMMA UnitsOfRow ==
  ASSUME NEW row, NEW n \in Int
  PROVE  /\ IsFiniteSet({row} \X (1 .. n))
         /\ Cardinality({row} \X (1 .. n)) = IF n > 0 THEN n ELSE 0
<1> DEFINE U == {row} \X (1 .. n)
           f == [k \in 1 .. n |-> <<row, k>>]
<1>1. IsFiniteSet(1 .. n) /\ Cardinality(1 .. n) = IF 1 > n THEN 0 ELSE n - 1 + 1
  BY FS_Interval
<1>2. f \in Bijection(1 .. n, U)
  <2>1. f \in [1 .. n -> U]
    OBVIOUS
  <2>2. \A j, k \in 1 .. n : f[j] = f[k] => j = k
    OBVIOUS
  <2>3. \A u \in U : \E k \in 1 .. n : f[k] = u
    <3>1. \A u \in U : \E k \in 1 .. n : u = <<row, k>>
      OBVIOUS
    <3> QED
      BY <3>1
  <2> HIDE DEF f
  <2> QED
    BY <2>1, <2>2, <2>3 DEF Bijection, Injection, IsInjective, Surjection
<1>3. IsFiniteSet(U) /\ Cardinality(U) = Cardinality(1 .. n)
  BY <1>1, <1>2, FS_Bijection DEF ExistsBijection
<1> QED
  BY <1>1, <1>3

\* A function of a finite domain takes finitely many values.
LEMMA RangeFinite ==
  ASSUME NEW row, IsFiniteSet(DOMAIN row)
  PROVE  IsFiniteSet({row[i] : i \in DOMAIN row})
<1> DEFINE f == [i \in DOMAIN row |-> row[i]]
<1>1. f \in Surjection(DOMAIN row, {row[i] : i \in DOMAIN row})
  BY DEF Surjection
<1> QED
  BY <1>1, FS_Surjection

\* A finite ledger stands for finitely many units, whatever its amounts are.
LEMMA CreditUnitsFinite ==
  ASSUME NEW rows, IsFiniteSet(rows), \A r \in rows : r.amount_krw \in Int
  PROVE  IsFiniteSet(UNION {CreditUnits(r) : r \in rows})
<1> DEFINE T == {CreditUnits(r) : r \in rows}
           f == [r \in rows |-> CreditUnits(r)]
<1>1. f \in Surjection(rows, T)
  BY DEF Surjection
<1>2. IsFiniteSet(T)
  BY <1>1, FS_Surjection
<1>3. \A U \in T : IsFiniteSet(U)
  BY UnitsOfRow DEF CreditUnits
<1> QED
  BY <1>2, <1>3, FS_UNION

LEMMA DebitUnitsFinite ==
  ASSUME NEW rows, IsFiniteSet(rows), \A r \in rows : r.amount_krw \in Int
  PROVE  IsFiniteSet(UNION {DebitUnits(r) : r \in rows})
<1> DEFINE T == {DebitUnits(r) : r \in rows}
           f == [r \in rows |-> DebitUnits(r)]
<1>1. f \in Surjection(rows, T)
  BY DEF Surjection
<1>2. IsFiniteSet(T)
  BY <1>1, FS_Surjection
<1>3. \A U \in T : IsFiniteSet(U)
  <2>1. \A r \in rows : -r.amount_krw \in Int
    OBVIOUS
  <2> QED
    BY <2>1, UnitsOfRow DEF DebitUnits
<1> QED
  BY <1>2, <1>3, FS_UNION

\* SUM over no rows is 0: the `total or 0` of available_cash.
LEMMA SumEmpty == SumAmount({}) = 0
BY FS_EmptySet DEF SumAmount, Credits, Debits

\* The sum of integer amounts is an integer.
LEMMA SumType ==
  ASSUME NEW rows, IsFiniteSet(rows), \A r \in rows : r.amount_krw \in Int
  PROVE  SumAmount(rows) \in Int
<1>1. Credits(rows) \in Nat
  BY CreditUnitsFinite, FS_CardinalityType DEF Credits
<1>2. Debits(rows) \in Nat
  BY DebitUnitsFinite, FS_CardinalityType DEF Debits
<1> QED
  BY <1>1, <1>2 DEF SumAmount

\* One row more adds its amount, whether it is a credit or a debit.
THEOREM SumInsert ==
  ASSUME NEW rows, IsFiniteSet(rows), \A r \in rows : r.amount_krw \in Int,
         NEW row, row \notin rows, row.amount_krw \in Int
  PROVE  SumAmount(rows \cup {row}) = SumAmount(rows) + row.amount_krw
<1> DEFINE C == UNION {CreditUnits(r) : r \in rows}
           D == UNION {DebitUnits(r) : r \in rows}
           n == row.amount_krw
<1>1. IsFiniteSet(C) /\ Cardinality(C) \in Nat
  BY CreditUnitsFinite, FS_CardinalityType
<1>2. IsFiniteSet(D) /\ Cardinality(D) \in Nat
  BY DebitUnitsFinite, FS_CardinalityType
<1>3. /\ IsFiniteSet(CreditUnits(row))
      /\ Cardinality(CreditUnits(row)) = IF n > 0 THEN n ELSE 0
  BY UnitsOfRow DEF CreditUnits
<1>4. /\ IsFiniteSet(DebitUnits(row))
      /\ Cardinality(DebitUnits(row)) = IF -n > 0 THEN -n ELSE 0
  <2>1. -n \in Int
    OBVIOUS
  <2> QED
    BY <2>1, UnitsOfRow DEF DebitUnits
<1>5. C \cap CreditUnits(row) = {}
  BY DEF CreditUnits
<1>6. D \cap DebitUnits(row) = {}
  BY DEF DebitUnits
<1>7. Credits(rows \cup {row}) = Cardinality(C) + (IF n > 0 THEN n ELSE 0)
  <2>1. UNION {CreditUnits(r) : r \in rows \cup {row}} = C \cup CreditUnits(row)
    OBVIOUS
  <2>2. Cardinality(C \cup CreditUnits(row)) =
          Cardinality(C) + Cardinality(CreditUnits(row)) - Cardinality({})
    BY <1>1, <1>3, <1>5, FS_Union
  <2>3. Credits(rows \cup {row}) = Cardinality(C \cup CreditUnits(row))
    BY <2>1 DEF Credits
  <2>4. Cardinality({}) = 0
    BY FS_EmptySet
  <2>5. n \in Int
    OBVIOUS
  <2> HIDE DEF C, n
  <2> QED
    BY <2>2, <2>3, <2>4, <2>5, <1>1, <1>3
<1>8. Debits(rows \cup {row}) = Cardinality(D) + (IF -n > 0 THEN -n ELSE 0)
  <2>1. UNION {DebitUnits(r) : r \in rows \cup {row}} = D \cup DebitUnits(row)
    OBVIOUS
  <2>2. Cardinality(D \cup DebitUnits(row)) =
          Cardinality(D) + Cardinality(DebitUnits(row)) - Cardinality({})
    BY <1>2, <1>4, <1>6, FS_Union
  <2>3. Debits(rows \cup {row}) = Cardinality(D \cup DebitUnits(row))
    BY <2>1 DEF Debits
  <2>4. Cardinality({}) = 0
    BY FS_EmptySet
  <2>5. n \in Int
    OBVIOUS
  <2> HIDE DEF D, n
  <2> QED
    BY <2>2, <2>3, <2>4, <2>5, <1>2, <1>4
<1>9. Credits(rows) = Cardinality(C) /\ Debits(rows) = Cardinality(D)
  BY DEF Credits, Debits
<1> HIDE DEF C, D
<1> QED
  BY <1>1, <1>2, <1>7, <1>8, <1>9 DEF SumAmount

\* Two sets of rows that share none add up.
LEMMA SumUnion ==
  ASSUME NEW rows, IsFiniteSet(rows), \A r \in rows : r.amount_krw \in Int,
         NEW more, IsFiniteSet(more), \A r \in more : r.amount_krw \in Int,
         rows \cap more = {}
  PROVE  SumAmount(rows \cup more) = SumAmount(rows) + SumAmount(more)
<1> DEFINE C(S) == UNION {CreditUnits(r) : r \in S}
           D(S) == UNION {DebitUnits(r) : r \in S}
<1>1. /\ IsFiniteSet(C(rows)) /\ IsFiniteSet(C(more))
      /\ IsFiniteSet(D(rows)) /\ IsFiniteSet(D(more))
  BY CreditUnitsFinite, DebitUnitsFinite
<1>2. C(rows) \cap C(more) = {} /\ D(rows) \cap D(more) = {}
  BY DEF CreditUnits, DebitUnits
<1>3. C(rows \cup more) = C(rows) \cup C(more) /\ D(rows \cup more) = D(rows) \cup D(more)
  OBVIOUS
<1>4. \A S : Credits(S) = Cardinality(C(S)) /\ Debits(S) = Cardinality(D(S))
  BY DEF Credits, Debits
<1> HIDE DEF C, D
<1>5. Cardinality({}) = 0
  BY FS_EmptySet
<1>6. /\ Credits(rows) \in Nat /\ Credits(more) \in Nat
      /\ Credits(rows \cup more) = Credits(rows) + Credits(more)
  <2>1. Cardinality(C(rows) \cup C(more))
          = Cardinality(C(rows)) + Cardinality(C(more)) - Cardinality(C(rows) \cap C(more))
    BY <1>1, FS_Union
  <2>2. Cardinality(C(rows)) \in Nat /\ Cardinality(C(more)) \in Nat
    BY <1>1, FS_CardinalityType
  <2>3. Cardinality(C(rows) \cap C(more)) = 0
    BY <1>2, <1>5
  <2>4. Credits(rows \cup more) = Cardinality(C(rows) \cup C(more))
    BY <1>3, <1>4
  <2>5. Credits(rows) = Cardinality(C(rows)) /\ Credits(more) = Cardinality(C(more))
    BY <1>4
  <2> QED
    BY <2>1, <2>2, <2>3, <2>4, <2>5
<1>7. /\ Debits(rows) \in Nat /\ Debits(more) \in Nat
      /\ Debits(rows \cup more) = Debits(rows) + Debits(more)
  <2>1. Cardinality(D(rows) \cup D(more))
          = Cardinality(D(rows)) + Cardinality(D(more)) - Cardinality(D(rows) \cap D(more))
    BY <1>1, FS_Union
  <2>2. Cardinality(D(rows)) \in Nat /\ Cardinality(D(more)) \in Nat
    BY <1>1, FS_CardinalityType
  <2>3. Cardinality(D(rows) \cap D(more)) = 0
    BY <1>2, <1>5
  <2>4. Debits(rows \cup more) = Cardinality(D(rows) \cup D(more))
    BY <1>3, <1>4
  <2>5. Debits(rows) = Cardinality(D(rows)) /\ Debits(more) = Cardinality(D(more))
    BY <1>4
  <2> QED
    BY <2>1, <2>2, <2>3, <2>4, <2>5
<1> QED
  BY <1>6, <1>7 DEF SumAmount

=============================================================================
