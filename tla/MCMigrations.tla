----------------------------- MODULE MCMigrations -----------------------------
(* Instances of Migrations small enough for TLC. *)
EXTENDS Migrations, TLC

MCTerms == {[initial_cash_krw |-> 1]}

MCSymmetry == Permutations(Processes)

=============================================================================
