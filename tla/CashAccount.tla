----------------------------- MODULE CashAccount -----------------------------
(***************************************************************************)
(* What the order service promises the owner of a virtual account, with    *)
(* the database, its locks and the requests left out: every order is       *)
(* decided once, in one indivisible step.  It is filled, and then exactly  *)
(* its cost leaves the balance of its owner, or it is rejected, and then   *)
(* the balance stays as it is; and it is filled exactly when the balance   *)
(* covers the cost.                                                        *)
(*                                                                         *)
(* VirtualOrders implements this specification.                            *)
(***************************************************************************)
EXTENDS Integers

CONSTANTS
  Users,      \* the users who may hold an account
  OrderIds,   \* the orders that may ever be placed
  NoUser      \* the owner of an order that was not placed

VARIABLES
  opened,     \* the users whose account is open
  balance,    \* the cash of every user, 0 before the account is open
  owner,      \* the owner of every order
  status,     \* where every order is in its life
  cost        \* what the order cost, or would have cost; 0 until it is decided

vars == <<opened, balance, owner, status, cost>>

Statuses == {"absent", "pending", "filled", "rejected_insufficient_cash"}

Init ==
  /\ opened = {}
  /\ balance = [u \in Users |-> 0]
  /\ owner = [i \in OrderIds |-> NoUser]
  /\ status = [i \in OrderIds |-> "absent"]
  /\ cost = [i \in OrderIds |-> 0]

\* An account opens once, with a positive balance.
Open(u) ==
  /\ u \notin opened
  /\ opened' = opened \cup {u}
  /\ balance'[u] > 0
  /\ balance' = [balance EXCEPT ![u] = balance'[u]]
  /\ UNCHANGED <<owner, status, cost>>

\* Placing an order moves no cash and reserves none.
Place(u, i) ==
  /\ u \in opened
  /\ status[i] = "absent"
  /\ owner' = [owner EXCEPT ![i] = u]
  /\ status' = [status EXCEPT ![i] = "pending"]
  /\ UNCHANGED <<opened, balance, cost>>

\* The order gets a cost, above zero, when it is decided.
Priced(i) ==
  /\ status[i] = "pending"
  /\ cost'[i] > 0
  /\ cost' = [cost EXCEPT ![i] = cost'[i]]

Fill(i) ==
  /\ Priced(i)
  /\ balance[owner[i]] >= cost'[i]
  /\ balance' = [balance EXCEPT ![owner[i]] = @ - cost'[i]]
  /\ status' = [status EXCEPT ![i] = "filled"]
  /\ UNCHANGED <<opened, owner>>

Reject(i) ==
  /\ Priced(i)
  /\ balance[owner[i]] < cost'[i]
  /\ status' = [status EXCEPT ![i] = "rejected_insufficient_cash"]
  /\ UNCHANGED <<opened, balance, owner>>

Next ==
  \/ \E u \in Users : Open(u)
  \/ \E u \in Users, i \in OrderIds : Place(u, i)
  \/ \E i \in OrderIds : Fill(i)
  \/ \E i \in OrderIds : Reject(i)

Spec == Init /\ [][Next]_vars

=============================================================================
