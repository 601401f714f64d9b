-------------------------- MODULE Migrations_proofs --------------------------
(***************************************************************************)
(* The schema and the accounts survive their migrations, however many      *)
(* processes migrate at once and on whatever plans.                        *)
(*                                                                         *)
(* A plan goes stale: what it lists may have been applied since.  The      *)
(* invariant therefore says of a process only that what it has not planned *)
(* is applied, and of the schema what every migration that was applied has *)
(* left in it; and of a transaction that found no price tables, that they  *)
(* are still missing unless 0001 is recorded.  RowsSurvive rests on        *)
(* NoOwnersYet: where the column owner_id is missing, nobody owns an       *)
(* account, so adding it loses none.                                       *)
(***************************************************************************)
EXTENDS Migrations, TLAPS

\* What each migration leaves behind, and the later ones do not undo.
SchemaOK ==
  /\ schema \subseteq ModelSchema \cup Singleton
  /\ "auth" \in applied => "auth_user" \in schema
  /\ "0001" \in applied => Tables \cup RunColumns \cup OrderColumns \subseteq schema
  /\ "0002" \in applied =>
       /\ "virtual_accounts" \in schema
       /\ OwnerColumns \subseteq schema
       /\ schema \cap Singleton = {}

\* A process has planned whatever is not applied.
PlansOK ==
  \A p \in Processes :
    /\ state[p] # "migrating" => plan[p] = {}
    /\ state[p] # "down" => MigrationNames \subseteq plan[p] \cup applied
    /\ open[p] # "none" => state[p] = "migrating" /\ Ready(p, open[p])
    /\ creates[p] => FirstTable \notin schema \/ "0001" \in applied

NoOwnersYet ==
  "owner_id" \notin schema => \A a \in AccountIds : owner[a] \in {NoOwner, NoRow}

\* Before there were owners the singleton allowed one account.
OneAccountYet ==
  ~reversed /\ "owner_id" \notin schema =>
    \A a, b \in AccountIds : owner[a] # NoRow /\ owner[b] # NoRow => a = b

IInv ==
  /\ TypeOK
  /\ SchemaOK
  /\ PlansOK
  /\ NoOwnersYet
  /\ OneAccountYet
  /\ OneLegacyAccount

-----------------------------------------------------------------------------
(* Schemas *)

\* The names of the tables, columns, constraints and indexes.
LEMMA SchemaNames ==
  /\ Tables = {"market_data_collection_runs", "daily_prices", "virtual_accounts",
               "cash_ledger_entries", "virtual_buy_orders"}
  /\ Singleton = {"singleton", "singleton UNIQUE CHECK"}
  /\ RunColumns = {"excluded_reasons"}
  /\ OrderColumns = {"execution_order_id", "uq_cash_ledger_execution_order"}
  /\ OwnerColumns = {"owner_id", "virtual_accounts_owner_id_key",
                     "virtual_accounts_owner_id_fk"}
  /\ ModelSchema = Tables \cup RunColumns \cup OrderColumns \cup OwnerColumns \cup {"auth_user"}
BY DEF Tables, PriceTables, AccountTables, Singleton, RunColumns, OrderColumns, OwnerColumns,
       ModelSchema

\* A schema that all migrations have been applied to is that of the models.
LEMMA AllApplied ==
  ASSUME SchemaOK, MigrationNames \subseteq applied
  PROVE  schema = ModelSchema
<1>1. "auth" \in applied /\ "0001" \in applied /\ "0002" \in applied
  BY DEF MigrationNames
<1> QED
  BY <1>1 DEF SchemaOK, ModelSchema

\* A migration that is applied, for the first time or again, leaves the schema in order.
LEMMA AfterMigration ==
  ASSUME SchemaOK, NEW p \in Processes, NEW m \in MigrationNames, ~Raises(p, m),
         schema' = After(m, schema), applied' = applied \cup {m}
  PROVE  SchemaOK' /\ ("owner_id" \in schema => "owner_id" \in schema')
<1>1. CASE m = "auth"
  <2>1. schema' = schema \cup {"auth_user"} /\ applied' = applied \cup {"auth"}
    BY <1>1 DEF After
  <2> QED
    BY <2>1, SchemaNames DEF SchemaOK
<1>2. CASE m = "0001"
  <2>1. /\ schema' = schema \cup Tables \cup RunColumns \cup OrderColumns
                       \cup (IF "virtual_accounts" \in schema THEN {} ELSE Singleton)
        /\ applied' = applied \cup {"0001"}
    BY <1>2 DEF After, Adopt
  <2> QED
    BY <2>1, SchemaNames DEF SchemaOK
<1>3. CASE m = "0002"
  <2>1. /\ schema' = (schema \cup OwnerColumns) \ Singleton
        /\ applied' = applied \cup {"0002"}
        /\ "virtual_accounts" \in schema
    BY <1>3 DEF After, OwnAccounts, Raises
  <2> QED
    BY <2>1, SchemaNames DEF SchemaOK
<1> QED
  BY <1>1, <1>2, <1>3 DEF MigrationNames

\* The owners keep their accounts when a migration is applied, again or for the first time.
LEMMA OwnersStay ==
  ASSUME owner \in [AccountIds -> Users \cup {NoOwner, NoRow}], NoOwnersYet,
         NEW m \in MigrationNames, owner' = OwnersAfter(m)
  PROVE  owner' = owner
<1>1. CASE m # "0002" \/ "owner_id" \in schema
  BY <1>1 DEF OwnersAfter
<1>2. CASE ~ (m # "0002" \/ "owner_id" \in schema)
  <2>1. \A a \in AccountIds : owner[a] \in {NoOwner, NoRow}
    BY <1>2 DEF NoOwnersYet
  <2>2. owner' = [a \in AccountIds |-> IF owner[a] = NoRow THEN NoRow ELSE NoOwner]
    BY <1>2 DEF OwnersAfter
  <2> QED
    BY <2>1, <2>2
<1> QED
  BY <1>1, <1>2

-----------------------------------------------------------------------------
(* The invariant *)

LEMMA InitInv == Init => IInv
<1> SUFFICES ASSUME Init PROVE IInv
  OBVIOUS
<1>1. PICK legacy \in SUBSET AccountIds, policy \in Terms :
        /\ \A a, b \in legacy : a = b
        /\ owner = [a \in AccountIds |-> IF a \in legacy THEN NoOwner ELSE NoRow]
        /\ terms = [a \in AccountIds |-> IF a \in legacy THEN policy ELSE NoPolicy]
  BY DEF Init, Holders!Init
<1>2. PICK old \in OldSchemas :
        \/ schema = old /\ applied = {}
        \/ schema = Adopt(old) /\ applied = {"0001"}
        \/ schema = Adopt(old) \cup {"auth_user"} /\ applied = {"auth", "0001"}
  BY DEF Init
<1>3. old \subseteq Tables \cup RunColumns \cup OrderColumns \cup Singleton
  <2>1. PICK prices \in {{}, PriceTables, PriceTables \cup RunColumns},
             accounts \in {{}, AccountTables \cup Singleton,
                          AccountTables \cup Singleton \cup {"virtual_buy_orders"}
                            \cup OrderColumns} :
          old = prices \cup accounts
    BY DEF OldSchemas
  <2> QED
    BY <2>1 DEF Tables
<1>4. SchemaOK
  BY <1>2, <1>3, SchemaNames DEF SchemaOK, Adopt
<1>5. TypeOK
  BY <1>1, <1>2, <1>4 DEF Init, TypeOK, SchemaOK, MigrationNames
<1>6. PlansOK
  BY DEF Init, PlansOK
<1>7. NoOwnersYet /\ OneAccountYet /\ OneLegacyAccount
  BY <1>1, MigrationsAssumption DEF NoOwnersYet, OneAccountYet, OneLegacyAccount
<1> QED
  BY <1>4, <1>5, <1>6, <1>7 DEF IInv

LEMMA ApplyInv ==
  ASSUME IInv, NEW p \in Processes, NEW m \in MigrationNames, Apply(p, m)
  PROVE  IInv' /\ UNCHANGED holders
<1> USE DEF IInv
<1>1. SchemaOK' /\ ("owner_id" \in schema => "owner_id" \in schema')
  BY AfterMigration DEF Apply
<1>2. UNCHANGED <<owner, terms, openings, reversed>>
  BY OwnersStay DEF Apply, TypeOK
<1>3. TypeOK'
  BY <1>1, <1>2 DEF Apply, TypeOK, SchemaOK
<1>4. PlansOK'
  <2>1. /\ applied' = applied \cup {m}
        /\ state' = state
        /\ plan' = [plan EXCEPT ![p] = @ \ {m}]
        /\ open' = [open EXCEPT ![p] = "none"]
        /\ creates' = [creates EXCEPT ![p] = FALSE]
        /\ open[p] = m
    BY DEF Apply
  <2>2. FirstTable \in schema' => FirstTable \in schema \/ "0001" \in applied'
    <3>1. CASE m = "auth"
      BY <3>1 DEF Apply, After, FirstTable
    <3>2. CASE m = "0001"
      BY <2>1, <3>2
    <3>3. CASE m = "0002"
      BY <3>3, SchemaNames DEF Apply, After, OwnAccounts, FirstTable
    <3> QED
      BY <3>1, <3>2, <3>3 DEF MigrationNames
  <2>3. ASSUME NEW q \in Processes
        PROVE  /\ state'[q] # "migrating" => plan'[q] = {}
               /\ state'[q] # "down" => MigrationNames \subseteq plan'[q] \cup applied'
               /\ creates'[q] => FirstTable \notin schema' \/ "0001" \in applied'
    BY <2>1, <2>2 DEF Ready, PlansOK, TypeOK, MigrationNames
  <2>4. ASSUME NEW q \in Processes, open'[q] # "none"
        PROVE  state'[q] = "migrating" /\ Ready(q, open[q])' /\ open'[q] = open[q]
    <3>1. q # p /\ open'[q] = open[q] /\ plan'[q] = plan[q]
      BY <2>1, <2>4 DEF TypeOK
    <3> QED
      BY <2>1, <2>4, <3>1 DEF PlansOK, Ready
  <2> QED
    BY <2>3, <2>4 DEF PlansOK, Ready
<1>5. NoOwnersYet' /\ OneAccountYet' /\ OneLegacyAccount'
  BY <1>1, <1>2 DEF NoOwnersYet, OneAccountYet, OneLegacyAccount
<1> QED
  BY <1>1, <1>2, <1>3, <1>4, <1>5 DEF holders

LEMMA ReverseInv ==
  ASSUME IInv, Reverse
  PROVE  IInv'
<1> USE DEF IInv
<1>1. /\ schema' = (schema \cup {"singleton"}) \ OwnerColumns
      /\ applied' = applied \ {"0002"}
      /\ reversed'
      /\ UNCHANGED <<plan, state, open, creates, terms, openings>>
      /\ \A p \in Processes : state[p] = "down"
  BY DEF Reverse, DisownAccounts, processes
<1>2. SchemaOK'
  BY <1>1, SchemaNames DEF SchemaOK
<1>3. \A a \in AccountIds : owner'[a] \in {NoOwner, NoRow}
  BY DEF Reverse
<1>4. TypeOK'
  BY <1>1, <1>2 DEF Reverse, TypeOK, SchemaOK
<1>5. PlansOK'
  BY <1>1, SchemaNames DEF PlansOK, FirstTable, Ready
<1>6. NoOwnersYet' /\ OneAccountYet' /\ OneLegacyAccount'
  BY <1>1, <1>3 DEF NoOwnersYet, OneAccountYet, OneLegacyAccount
<1> QED
  BY <1>2, <1>4, <1>5, <1>6

\* Whoever is served is served on the schema of the models.
LEMMA Served ==
  ASSUME IInv, NEW p \in Processes, state[p] = "serving"
  PROVE  schema = ModelSchema
<1>1. MigrationNames \subseteq applied
  BY DEF IInv, PlansOK
<1> QED
  BY <1>1, AllApplied DEF IInv

LEMMA RequestInv ==
  ASSUME IInv, Request
  PROVE  IInv'
<1> USE DEF IInv
<1>1. "owner_id" \in schema
  BY Served, SchemaNames DEF Request
<1>2. UNCHANGED <<schema, applied, plan, state, open, creates, reversed>>
  BY DEF Request, processes
<1>3. PICK a \in AccountIds, u \in Users :
        \/ \E policy \in Terms : Holders!Open(a, u, policy)
        \/ Holders!Claim(a, u)
  BY DEF Request, Holders!Next
<1>4. TypeOK'
  BY <1>2, <1>3 DEF TypeOK, Holders!Open, Holders!Claim
<1>5. OneLegacyAccount'
  BY <1>2, <1>3, MigrationsAssumption
     DEF OneLegacyAccount, TypeOK, Holders!Open, Holders!Claim
<1>6. SchemaOK' /\ PlansOK' /\ NoOwnersYet' /\ OneAccountYet'
  BY <1>1, <1>2 DEF SchemaOK, PlansOK, Ready, NoOwnersYet, OneAccountYet
<1> QED
  BY <1>4, <1>5, <1>6

LEMMA StepInv == IInv /\ [Next]_vars => IInv'
<1> SUFFICES ASSUME IInv, [Next]_vars PROVE IInv'
  OBVIOUS
<1>1. ASSUME UNCHANGED <<schema, applied, reversed, holders>>, TypeOK', PlansOK' PROVE IInv'
  BY <1>1 DEF IInv, holders, SchemaOK, NoOwnersYet, OneAccountYet, OneLegacyAccount
<1>2. ASSUME NEW p \in Processes, Start(p) PROVE IInv'
  <2>1. TypeOK'
    BY <1>2 DEF IInv, Start, holders, TypeOK, Pending
  <2>2. PlansOK'
    BY <1>2 DEF IInv, Start, PlansOK, TypeOK, Pending, Ready
  <2> QED
    BY <1>1, <1>2, <2>1, <2>2 DEF Start
<1>3. ASSUME NEW p \in Processes, NEW m \in MigrationNames, Begin(p, m) PROVE IInv'
  <2>1. TypeOK'
    BY <1>3 DEF IInv, Begin, holders, TypeOK
  <2>2. PlansOK'
    BY <1>3 DEF IInv, Begin, PlansOK, TypeOK, Ready, MigrationNames
  <2> QED
    BY <1>1, <1>3, <2>1, <2>2 DEF Begin
<1>4. ASSUME NEW p \in Processes, Serve(p) PROVE IInv'
  <2>1. TypeOK'
    BY <1>4 DEF IInv, Serve, holders, TypeOK
  <2>2. PlansOK'
    BY <1>4 DEF IInv, Serve, PlansOK, TypeOK, Ready
  <2> QED
    BY <1>1, <1>4, <2>1, <2>2 DEF Serve
<1>5. ASSUME NEW p \in Processes, Exit(p) PROVE IInv'
  <2>1. TypeOK'
    BY <1>5 DEF IInv, Exit, holders, TypeOK
  <2>2. PlansOK'
    BY <1>5 DEF IInv, Exit, PlansOK, TypeOK, Ready
  <2> QED
    BY <1>1, <1>5, <2>1, <2>2 DEF Exit
<1>6. CASE UNCHANGED vars
  <2>1. TypeOK' /\ PlansOK'
    BY <1>6 DEF IInv, vars, processes, holders, TypeOK, PlansOK, Ready
  <2> QED
    BY <1>1, <1>6, <2>1 DEF vars, holders
<1> QED
  BY <1>2, <1>3, <1>4, <1>5, <1>6, ApplyInv, ReverseInv, RequestInv DEF Next

\* IInv is inductive, and so always true: the schema is at each moment the one that the recorded
\* migrations leave, whoever has applied them (0001:224-235, 0002:42-63).
THEOREM Invariant == Spec => []IInv
<1> QED
  BY InitInv, StepInv, PTL DEF Spec

-----------------------------------------------------------------------------
(* What follows from it *)

\* Every reachable state is of its type: the schema, the recorded migrations, and the plans of
\* the processes that apply them (0001:224-235, 0002:42-63).
THEOREM TypeCorrect == Spec => []TypeOK
<1>1. IInv => TypeOK
  BY DEF IInv
<1> QED
  BY <1>1, Invariant, PTL

\* Nobody is served on another schema than that of the models (Dockerfile:15, 0001:12-93,
\* 0002:10-24).
THEOREM ServedRightly == Spec => []ServedOnModelSchema
<1>1. IInv => ServedOnModelSchema
  BY Served DEF ServedOnModelSchema
<1> QED
  BY <1>1, Invariant, PTL

\* However the transactions of the migrations overlap and however old the plans, 0002 never
\* raises, and 0001 raises only once another process has recorded it, so that the container
\* comes up when it is started again (0001:3, 13; 0002:3).
THEOREM StalePlansRun == Spec => []PlannedMigrationsRun
<1>1. IInv => PlannedMigrationsRun
  <2> SUFFICES ASSUME IInv, NEW p \in Processes, NEW m \in MigrationNames \ {"auth"},
                      open[p] = m, Raises(p, m)
               PROVE  m = "0001" /\ creates[p] /\ m \in applied
    BY DEF PlannedMigrationsRun
  <2>1. Ready(p, m) /\ state[p] = "migrating"
    BY DEF IInv, PlansOK, MigrationNames
  <2>2. CASE m = "0002"
    <3>1. ~ ({"virtual_accounts", "auth_user"} \subseteq schema)
      BY <2>2 DEF Raises
    <3>2. "auth" \notin plan[p] /\ "0001" \notin plan[p]
      BY <2>1, <2>2 DEF Ready, Dependencies
    <3>3. "auth" \in applied /\ "0001" \in applied
      BY <2>1, <3>2 DEF IInv, PlansOK, TypeOK, MigrationNames
    <3> QED
      BY <3>1, <3>3, SchemaNames DEF IInv, SchemaOK
  <2>3. CASE m = "0001"
    BY <2>3 DEF Raises, IInv, PlansOK
  <2> QED
    BY <2>2, <2>3 DEF MigrationNames
<1> QED
  BY <1>1, Invariant, PTL

\* Applying 0002 again takes no account from its owner (0002:11).
THEOREM LegacyAccountIsOne == Spec => []OneLegacyAccount
<1>1. IInv => OneLegacyAccount
  BY DEF IInv
<1> QED
  BY <1>1, Invariant, PTL

\* No migration touches an account, but that the reverse of 0002 forgets the owners
\* (0001:5-6, 0002:2).
THEOREM RowsAreSpared == Spec => RowsSurvive
<1> DEFINE Spared ==
  \/ Holders!Next
  \/ UNCHANGED holders
  \/ "0002" \in applied \ applied' /\ UNCHANGED <<terms, openings>>
<1>1. IInv /\ [Next]_vars => [Spared]_vars
  <2> SUFFICES ASSUME IInv, [Next]_vars PROVE Spared
    OBVIOUS
  <2>1. ASSUME NEW p \in Processes, NEW m \in MigrationNames,
               Start(p) \/ Begin(p, m) \/ Serve(p) \/ Exit(p)
        PROVE  Spared
    BY <2>1 DEF Start, Begin, Serve, Exit
  <2>2. ASSUME NEW p \in Processes, NEW m \in MigrationNames, Apply(p, m) PROVE Spared
    BY <2>2, ApplyInv
  <2>3. CASE Reverse
    BY <2>3 DEF Reverse
  <2>4. CASE Request
    BY <2>4 DEF Request
  <2>5. CASE UNCHANGED vars
    BY <2>5 DEF vars, holders
  <2>6. MigrationNames # {}
    BY DEF MigrationNames
  <2> QED
    BY <2>1, <2>2, <2>3, <2>4, <2>5, <2>6 DEF Next
<1> QED
  BY <1>1, Invariant, PTL DEF Spec, RowsSurvive

=============================================================================
