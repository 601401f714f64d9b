---------------------------- MODULE AccountHolders ----------------------------
(***************************************************************************)
(* What accounts.py and ownership.py promise whoever reads their tables:   *)
(* an account appears in one indivisible step, with its owner, the policy  *)
(* of that moment and the cash this policy grants; a user has one account  *)
(* at most; the account without an owner finds one once, among those who   *)
(* may claim it; and nothing else ever happens to an account.              *)
(*                                                                         *)
(* AccountOwnership implements this specification; Migrations, which has   *)
(* the schema change beneath it, rests on it.                              *)
(***************************************************************************)
EXTENDS Integers

CONSTANTS
  Users,
  InitialOwners,  \* the users who may claim
  AccountIds,
  Terms,          \* the policies an account can have
  NoOwner,        \* the account has no owner
  NoRow,          \* there is no such account
  NoPolicy        \* its policy, then

VARIABLES
  owner,      \* by account
  terms,      \* the policy snapshot, by account
  openings    \* the opening rows of the ledger add up to this, by account

holders == <<owner, terms, openings>>

\* There is an account without an owner, older than the users, or none.
Init ==
  \E legacy \in SUBSET AccountIds, policy \in Terms :
    /\ \A a, b \in legacy : a = b
    /\ owner = [a \in AccountIds |-> IF a \in legacy THEN NoOwner ELSE NoRow]
    /\ terms = [a \in AccountIds |-> IF a \in legacy THEN policy ELSE NoPolicy]
    /\ openings = [a \in AccountIds |-> IF a \in legacy THEN policy.initial_cash_krw ELSE 0]

HasAccount(u) == \E a \in AccountIds : owner[a] = u

Open(a, u, policy) ==
  /\ owner[a] = NoRow
  /\ ~HasAccount(u)
  /\ owner' = [owner EXCEPT ![a] = u]
  /\ terms' = [terms EXCEPT ![a] = policy]
  /\ openings' = [openings EXCEPT ![a] = policy.initial_cash_krw]

Claim(a, u) ==
  /\ owner[a] = NoOwner
  /\ u \in InitialOwners
  /\ ~HasAccount(u)
  /\ owner' = [owner EXCEPT ![a] = u]
  /\ UNCHANGED <<terms, openings>>

Next ==
  \E a \in AccountIds, u \in Users :
    \/ \E policy \in Terms : Open(a, u, policy)
    \/ Claim(a, u)

Spec == Init /\ [][Next]_holders

=============================================================================
