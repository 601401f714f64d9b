------------------------------ MODULE Migrations ------------------------------
(***************************************************************************)
(* The schema under the accounts: what manage.py migrate does to a         *)
(* database of any age each time the web container starts, and what the    *)
(* accounts keep through it.                                               *)
(*                                                                         *)
(* Every process reads which migrations are recorded, plans the rest, and  *)
(* applies them one transaction at a time; then it serves.  Several        *)
(* processes may do so at once.  Their transactions overlap, so a          *)
(* statement may ask for a table another has made and not committed; and   *)
(* one applies again what another has applied since it made its plan,      *)
(* beneath users who are served already: the SQL of 0001 and 0002 says     *)
(* that it bears being run again.  The service is AccountHolders, which    *)
(* AccountOwnership implements.                                            *)
(*                                                                         *)
(* A transaction of a migration is two steps: what its first statement     *)
(* finds, and the rest to the COMMIT.  From the first statement on it      *)
(* holds what the next one of the same migration waits for, a table it     *)
(* alters or the name of one it creates, so that the rest of two of them   *)
(* never overlaps.                                                         *)
(***************************************************************************)
EXTENDS Integers

CONSTANTS
  Processes,      \* containers, or shells, that run manage.py migrate
  Users, InitialOwners,
  AccountIds,
  Terms,          \* the policies an account can have
  NoOwner, NoRow, NoPolicy

VARIABLES
  schema,     \* the tables, columns, constraints and indexes there are, of those that vary
  applied,    \* django_migrations
  plan,       \* what each process has yet to apply
  state,      \* what each process does
  open,       \* the migration whose transaction each process has begun
  creates,    \* whether its CREATE TABLE IF NOT EXISTS found no table of that name
  reversed,   \* history: 0002 was reversed once
  owner,      \* virtual_accounts.owner_id, by primary key: NoOwner where there is no column
  terms,      \* its policy columns
  openings    \* the cash of the ledger, by account

processes == <<plan, state, open, creates>>
holders   == <<owner, terms, openings>>
vars      == <<schema, applied, plan, state, open, creates, reversed, owner, terms, openings>>

Holders == INSTANCE AccountHolders

ASSUME MigrationsAssumption ==
  /\ InitialOwners \subseteq Users
  /\ AccountIds \subseteq Nat
  /\ NoOwner \notin Users /\ NoRow \notin Users /\ NoRow # NoOwner

-----------------------------------------------------------------------------
(* Schemas *)

PriceTables   == {"market_data_collection_runs", "daily_prices"}
AccountTables == {"virtual_accounts", "cash_ledger_entries"}
Tables        == PriceTables \cup AccountTables \cup {"virtual_buy_orders"}

Singleton == {"singleton", "singleton UNIQUE CHECK"}

\* What was added to tables that existed already.
RunColumns   == {"excluded_reasons"}
OrderColumns == {"execution_order_id", "uq_cash_ledger_execution_order"}
OwnerColumns == {"owner_id", "virtual_accounts_owner_id_key", "virtual_accounts_owner_id_fk"}

\* The schema the models describe.
ModelSchema == Tables \cup RunColumns \cup OrderColumns \cup OwnerColumns \cup {"auth_user"}

\* What the services before Django may have left: each made the tables it needed.
OldSchemas ==
  {prices \cup accounts :
     prices   \in {{}, PriceTables, PriceTables \cup RunColumns},
     accounts \in {{}, AccountTables \cup Singleton,
                   AccountTables \cup Singleton \cup {"virtual_buy_orders"} \cup OrderColumns}}

-----------------------------------------------------------------------------
(* The SQL of the migrations *)

\* Mutant: 0001 creates tables only, and no column in a table that is there.
AdoptTablesOnly(s) ==
  s \cup Tables
    \cup (IF "market_data_collection_runs" \in s THEN {} ELSE RunColumns)
    \cup (IF "cash_ledger_entries" \in s THEN {} ELSE OrderColumns)
    \cup (IF "virtual_accounts" \in s THEN {} ELSE Singleton)

\* 0001: a table that is there stays as it is, but for the two columns and the index.
Adopt(s) ==
  s \cup Tables \cup RunColumns \cup OrderColumns
    \cup (IF "virtual_accounts" \in s THEN {} ELSE Singleton)

\* Mutant: 0002 gives the index another name than the model.
OwnAccountsMisnaming(s) ==
  (s \cup {"owner_id", "owner_id_key", "virtual_accounts_owner_id_fk"}) \ Singleton

\* 0002: DROP COLUMN takes the constraints of the column with it.
OwnAccounts(s) == (s \cup OwnerColumns) \ Singleton

\* 0002 reversed: the column comes back, its constraints do not.
DisownAccounts(s) == (s \cup {"singleton"}) \ OwnerColumns

\* The table that 0001 asks for first: its CREATE TABLE IF NOT EXISTS, its ALTER TABLE.
FirstTable == "market_data_collection_runs"

\* Mutant: ADD COLUMN owner_id without IF NOT EXISTS.
RaisesAgain(p, m) ==
  \/ m = "auth" /\ "auth_user" \in schema
  \/ m = "0001" /\ creates[p] /\ FirstTable \in schema
  \/ m = "0002" /\ ("owner_id" \in schema \/ ~ ({"virtual_accounts", "auth_user"} \subseteq schema))

\* What makes the SQL of a migration fail: Django's own makes its table without asking; 0001
\* makes one it did not find, and which another has committed since (a unique violation of
\* the catalogue: IF NOT EXISTS looks before it waits); 0002 alters one table and refers to
\* another.
Raises(p, m) ==
  \/ m = "auth" /\ "auth_user" \in schema
  \/ m = "0001" /\ creates[p] /\ FirstTable \in schema
  \/ m = "0002" /\ ~ ({"virtual_accounts", "auth_user"} \subseteq schema)

After(m, s) ==
  CASE m = "auth" -> s \cup {"auth_user"}
    [] m = "0001" -> Adopt(s)
    [] m = "0002" -> OwnAccounts(s)

\* Mutant: 0002 makes the column anew.
OwnersAnew(m) ==
  IF m # "0002" THEN owner
  ELSE [a \in AccountIds |-> IF owner[a] = NoRow THEN NoRow ELSE NoOwner]

\* The owners once a migration is applied: a column that is new is NULL in every row.
OwnersAfter(m) ==
  IF m # "0002" \/ "owner_id" \in schema THEN owner
  ELSE [a \in AccountIds |-> IF owner[a] = NoRow THEN NoRow ELSE NoOwner]

-----------------------------------------------------------------------------
(* manage.py migrate *)

MigrationNames == {"auth", "0001", "0002"}

Dependencies(m) == IF m = "0002" THEN {"auth", "0001"} ELSE {}

Pending == MigrationNames \ applied

\* What a process may apply next: Django's order is one of those the dependencies allow.
Ready(p, m) == m \in plan[p] /\ Dependencies(m) \cap plan[p] = {}

\* A database that is new, or that one of the earlier services has left: with the one account
\* the singleton allows, or none.  From T-005 to T-009 there was 0001 and no 0002, and
\* Django's own migrations had been applied as well or not.
Init ==
  /\ Holders!Init
  /\ \E old \in OldSchemas :
       \/ /\ (\E a \in AccountIds : owner[a] # NoRow) => "virtual_accounts" \in old
          /\ schema = old
          /\ applied = {}
       \/ schema = Adopt(old) /\ applied = {"0001"}
       \/ schema = Adopt(old) \cup {"auth_user"} /\ applied = {"auth", "0001"}
  /\ plan = [p \in Processes |-> {}]
  /\ open = [p \in Processes |-> "none"]
  /\ creates = [p \in Processes |-> FALSE]
  /\ state = [p \in Processes |-> "down"]
  /\ reversed = FALSE

Start(p) ==
  /\ state[p] = "down"
  /\ state' = [state EXCEPT ![p] = "migrating"]
  /\ plan' = [plan EXCEPT ![p] = Pending]
  /\ UNCHANGED <<schema, applied, open, creates, reversed, holders>>

\* BEGIN and the first statement, which sees what is committed.
Begin(p, m) ==
  /\ state[p] = "migrating"
  /\ open[p] = "none"
  /\ Ready(p, m)
  /\ open' = [open EXCEPT ![p] = m]
  /\ creates' = [creates EXCEPT ![p] = (m = "0001" /\ FirstTable \notin schema)]
  /\ UNCHANGED <<schema, applied, plan, state, reversed, holders>>

\* The rest of the SQL, its record in django_migrations and the COMMIT.
Apply(p, m) ==
  /\ open[p] = m
  /\ ~Raises(p, m)
  /\ schema' = After(m, schema)
  /\ owner' = OwnersAfter(m)
  /\ applied' = applied \cup {m}
  /\ plan' = [plan EXCEPT ![p] = @ \ {m}]
  /\ open' = [open EXCEPT ![p] = "none"]
  /\ creates' = [creates EXCEPT ![p] = FALSE]
  /\ UNCHANGED <<state, reversed, terms, openings>>

\* migrate && runserver
Serve(p) ==
  /\ state[p] = "migrating"
  /\ plan[p] = {}
  /\ state' = [state EXCEPT ![p] = "serving"]
  /\ UNCHANGED <<schema, applied, plan, open, creates, reversed, holders>>

\* The SQL raises, or the container is stopped, or dies: what was not committed is undone.
Exit(p) ==
  /\ state[p] # "down"
  /\ state' = [state EXCEPT ![p] = "down"]
  /\ plan' = [plan EXCEPT ![p] = {}]
  /\ open' = [open EXCEPT ![p] = "none"]
  /\ creates' = [creates EXCEPT ![p] = FALSE]
  /\ UNCHANGED <<schema, applied, reversed, holders>>

\* manage.py migrate trading 0001, by hand and with nothing running.
Reverse ==
  /\ \A p \in Processes : state[p] = "down"
  /\ "0002" \in applied
  /\ schema' = DisownAccounts(schema)
  /\ applied' = applied \ {"0002"}
  /\ owner' = [a \in AccountIds |-> IF owner[a] = NoRow THEN NoRow ELSE NoOwner]
  /\ reversed' = TRUE
  /\ UNCHANGED <<processes, terms, openings>>

\* A user who is served opens his account, or claims one.
Request ==
  /\ \E p \in Processes : state[p] = "serving"
  /\ Holders!Next
  /\ UNCHANGED <<schema, applied, processes, reversed>>

Next ==
  \/ \E p \in Processes :
       \/ Start(p)
       \/ \E m \in MigrationNames : Begin(p, m) \/ Apply(p, m)
       \/ Serve(p)
       \/ Exit(p)
  \/ Reverse
  \/ Request

Spec == Init /\ [][Next]_vars

-----------------------------------------------------------------------------
(* Properties *)

\* Every variable is of its type.
TypeOK ==
  /\ schema \subseteq ModelSchema \cup Singleton
  /\ applied \subseteq MigrationNames
  /\ plan \in [Processes -> SUBSET MigrationNames]
  /\ state \in [Processes -> {"down", "migrating", "serving"}]
  /\ open \in [Processes -> MigrationNames \cup {"none"}]
  /\ creates \in [Processes -> BOOLEAN]
  /\ reversed \in BOOLEAN
  /\ owner \in [AccountIds -> Users \cup {NoOwner, NoRow}]
  /\ terms \in [AccountIds -> Terms \cup {NoPolicy}]

\* Whoever is served is served on the schema of the models, nothing missing and no singleton
\* left that would refuse the second account: from a database of any age, whatever was
\* interrupted, applied twice or reversed in between (Dockerfile:15, 0001:12-93, 0002:10-24).
ServedOnModelSchema ==
  (\E p \in Processes : state[p] = "serving") => schema = ModelSchema

\* A stale plan never keeps a container down.  0002 never raises, although another process may
\* have applied it since it was planned; 0001 raises only where two transactions found no
\* price tables and created them at once, and then it is recorded by the one that won: the
\* container that is started again does not plan it (0001:3, 0002:3, "idempotent SQL", which
\* IF NOT EXISTS keeps for a migration run again and not for two at once, 0001:13).
PlannedMigrationsRun ==
  \A p \in Processes, m \in MigrationNames \ {"auth"} :
    open[p] = m /\ Raises(p, m) => m = "0001" /\ creates[p] /\ m \in applied

\* Unless 0002 was reversed there is one account without an owner at most, as
\* AccountOwnership!Init has it: what 0002 does again takes no account from its owner.
OneLegacyAccount ==
  ~reversed => \A a, b \in AccountIds : owner[a] = NoOwner /\ owner[b] = NoOwner => a = b

\* No migration touches a row: accounts change as AccountHolders says and in no other way,
\* but that the reverse of 0002 forgets the owners, and even that keeps every account, its
\* policy and its cash (0001:5-6, 0002:2).
RowsSurvive ==
  [][ \/ Holders!Next
      \/ UNCHANGED holders
      \/ "0002" \in applied \ applied' /\ UNCHANGED <<terms, openings>> ]_vars

=============================================================================
