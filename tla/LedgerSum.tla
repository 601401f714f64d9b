----------------------------- MODULE LedgerSum -----------------------------
(***************************************************************************)
(* The balance of an account, accounts.available_cash: SELECT SUM of       *)
(* amount_krw over the rows of the cash ledger, and 0 when there are none. *)
(*                                                                         *)
(* A ledger is a finite set of rows, records with an integer field         *)
(* amount_krw.  The sum is defined without recursion, so that it can be    *)
(* reasoned about: a row of +n stands for n units of credit, a row of -n   *)
(* for n units of debit, and the balance is the number of units of credit  *)
(* less the number of units of debit.                                      *)
(***************************************************************************)
EXTENDS Integers, FiniteSets

\* The units a row brings in, and the units it takes out.
CreditUnits(row) == {row} \X (1 .. row.amount_krw)
DebitUnits(row)  == {row} \X (1 .. -row.amount_krw)

Credits(rows) == Cardinality(UNION {CreditUnits(row) : row \in rows})
Debits(rows)  == Cardinality(UNION {DebitUnits(row) : row \in rows})

SumAmount(rows) == Credits(rows) - Debits(rows)

=============================================================================
