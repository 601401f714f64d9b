# Formal models of the virtual stock account service

TLA+ specifications of the service under `src/backend/trading`: virtual buy orders over a
cash ledger, the accounts and their owners, the policy they are opened under, the migrations
of the schema beneath them, the collection of daily prices, and the portfolio page. TLC checks
every model on small instances. TLAPS proves the safety properties of every model and, where
there is an abstract specification, that it is implemented, for all values of the constants;
what it cannot reach is listed in section 5.

## 1. The system

A Django process (`manage.py runserver`, one thread per request) in front of PostgreSQL. There
is no `ATOMIC_REQUESTS`: a statement outside `transaction.atomic()` commits by itself, and
every statement sees what was committed before it (READ COMMITTED). No component calls another
over a network; they interact through the tables, row locks, unique indexes and, in one place,
a lock and the standard streams of the process.

| Component | State | Operations | Interacts with |
|---|---|---|---|
| Orders (`orders.py`) | `virtual_buy_orders`, rows of the ledger | `create_order`, `execute_order`, `list_orders` | locks the account row, reads prices and cash, inserts into the ledger |
| Ledger and balance (`accounts.py`) | `cash_ledger_entries` | `available_cash`, `list_cash_ledger` | written by the opening of an account and by `execute_order` |
| Accounts (`accounts.py`, `ownership.py`) | `virtual_accounts`, its unique `owner_id` | `initialize_account`, `get_account`, `claim_legacy_account`, `can_claim_legacy` | reads the policy; races with itself |
| Policy (`config.py`, `settings.py`) | the environment, read when the process starts | `load_virtual_policy` | read by `initialize_account` and by the setup page |
| Migrations (`migrations/`, `Dockerfile`) | the schema, `django_migrations` | `migrate`, its reverse | run by every container before it serves |
| Collection (`market_data.py`) | `daily_prices`, `market_data_collection_runs`, `_PYKRX_GUARD`, `sys.stdout` | `collect_daily_prices`, `fetch_ohlcv`, `store_collection`, `record_failed_fetch` | calls pykrx; overwrites the prices that orders and pages read |
| Validation (`market_data.py`) | none | `validate_and_transform`, `_decide_status`, `summarize_excluded` | between fetch and store |
| Portfolio (`portfolio.py`) | none, reads only | `compute_portfolio` | reads orders, prices and ledger one SELECT at a time |
| HTTP boundary (`views.py`) | none | parsing, login, error mapping, forms, the two pages | calls the services |
| Login (`jumong/`, allauth), templates, scripts | sessions | | |

What is hard in it, and what makes each component correct:

- **Orders.** Two executes of one account or one order, a retry after a lost answer, a crash
  between the ledger row and the order, a price that is collected again meanwhile, costs equal
  to the cash to the last won, amounts wider than a column. Correct: reads stay true until
  they are acted on, no overdraft, ledger and orders agree, a decision is final and rests on an
  open that was really stored after the decision day, no request waits for ever.
- **Accounts.** `initialize_account` and `claim_legacy_account` check, then write, in any
  number of threads; a COMMIT may be made and its answer lost; a process may be restarted with
  another environment. Correct: one account per user, one opening per account, the loser of a
  race still gets the winner's account, an account changes hands once at most, what a page
  or an answer says is so, and no page leaves out the offer an initial owner could take.
- **Policy.** Raw values that are missing, malformed, NaN, out of range or too wide for a
  column. Correct: an account is opened with a policy that an execution can compute with.
- **Migrations.** Databases of every age, containers that start together and plan on what
  another one then changes, transactions of two that overlap, interruptions, a reverse by hand.
  Correct: nobody is served on a schema other than that of the models, a planned migration
  still runs when its turn comes, or is done by then, and no account, policy or cash is lost.
- **Collection.** Process-wide streams, one guard, a provider that raises, two transactions
  over the same days, restarts, a failed record of a failure. Correct: the streams come back,
  counts are those of the commit, rows and run record appear together, the client is told what
  the tables say, nobody deadlocks.
- **Validation.** Order of the tests, duplicates of faulty rows, boundaries. Correct: the loop
  keeps exactly the first, sound row of each day, and the run's status tells of a loss.
- **Portfolio.** Reads that are torn by commits in between. Correct: one valuation day that is
  good for every holding, rows that exist when they are read, totals that miss at most what was
  filled during the computation.

`PROJECT.json` lists every hazard at its line, with the properties that would catch it.

## 2. Modules

| Module | What it is |
|---|---|
| `LedgerSum` | the balance as a sum over ledger rows, without recursion |
| `VirtualOrders` | `orders.py` statement by statement, with the account opening and price collection as one-step environment |
| `CashAccount` | abstract: an account whose orders are decided once, in one step |
| `VirtualPolicy` | `load_virtual_policy` over what an environment may hold |
| `AccountOwnership` | `accounts.py`, `ownership.py` and the views that call them, statement by statement |
| `AccountHolders` | abstract: accounts that appear and find their owner in one step |
| `Migrations` | `manage.py migrate` in several processes, over users served by `AccountHolders` |
| `PriceRows` | the pure part of the validation, and what it should keep |
| `PriceValidation` | the loop of `validate_and_transform` |
| `MarketData` | `collect_daily_prices` and what its client is told, step by step |
| `PriceStore` | abstract: a price table to which collections happen in one step |
| `Portfolio` | composes `VirtualOrders` with threads that compute the page |
| `MC*` | values of the constants for TLC |
| `*_proofs` | theorems about the module they are named after |

How they fit together:

- `VirtualOrders` takes `OpenAccount` as one step, which `AccountOwnership` is shown to give it
  (`ImplementsAccountHolders`), with policies it can compute with (`TermsAreSound`); and
  `StoreCollection` as one step, which `MarketData` gives it (`ImplementsPriceStore`). The
  theorem `AccountsAppearOnce` states the first for what `OpenAccount` writes, and `PricesStay`
  the second for what `VirtualOrders` and `Portfolio` rely on: a stored price stays, and changes
  only in the step that records the run it then names.
- `Migrations` changes the schema beneath users who are served; these are
  `AccountHolders!Next`, so what `AccountOwnership` implements is what the migrations bear.
  `AccountOwnership!Init` is in turn the state that the migrations leave
  (`OneLegacyAccount`).
- `MarketData` takes its rows from `PriceRows!ValidRows`, which `PriceValidation` shows the loop
  to compute.
- `Portfolio` extends `VirtualOrders`, so its pages are read in the middle of real executions.
- The proofs follow the same lines: `Portfolio_proofs` rests on the invariant of
  `VirtualOrders_proofs`; `MarketData_proofs` and `PriceValidation_proofs` on what
  `PriceRows_proofs` says of `ValidRows`.

### From code to model

A thread's position (`pc`, or `at` for pages) names the SQL statement or step it executes next;
one action is one statement with the conditions, assignments and early returns up to the next
one.

- *Row locks* (`select_for_update`) are not variables: `HoldsAccount`, `HoldsOrder`, `HoldsKey`
  and `Holds` say who has locked what from the statement reached, and the locking actions wait
  for them. A query locks, and waits for, the rows it selects: `LockOrder` asks for an order of
  the user's own account, so another user's order is neither locked nor waited for (`OwnOrder`).
- *Foreign keys* lock too: the INSERT of an order takes the row of its account FOR KEY SHARE,
  which waits for an execution that holds it FOR UPDATE, so `InsertOrder` waits. It holds that
  row for the one statement only. The ledger rows of an execution refer to rows it holds itself.
- *Transactions.* Writes of an open transaction are invisible to others, so they are not in
  the tables: the action of the last write performs them together with COMMIT. `Abort`,
  `Rollback` and `Restart` are crashes, lost connections and failing statements: the tables stay.
- *A COMMIT whose answer is lost.* `InsertOpening`, `SaveOwner` and `Commit` may write and still
  end as a DatabaseError: the tables have changed and the client is told 500 or 503. Retries of
  such requests are among the next requests of the thread.
- *Unique indexes* are guards of the inserting action, with the branch of the
  `IntegrityError` handler.
- *Retries*: a thread may get any request at any time, the same one again too.
- *Forms and pages.* A JSON request ends with an answer. A form of the setup page that succeeds
  redirects (303); one that fails reads the setup page again, under the status of the error,
  and that reading is statements of its own.
- *Settings* are read when a process starts. `AccountOwnership!Restart` ends all threads of the
  process and may bring another environment; within a process the environment never changes.
  Clients keep the answers and pages they have across restarts, so `AnswersHold` and
  `PagesHideNothing` speak of later processes too. A form carries nothing of the page it was on:
  after a restart it opens the account under the policy of then, whatever an older page
  announced.
- *Raw settings* are integers, or `Missing`, `Malformed`, `NotANumber`; rates count in
  `RateParts` of one, so that exactly 1 and just below 1 are different values. Comparisons with
  a NaN are false, as in Python.
- *The schema* is a set of what varies: tables, the two columns and the index that 0001 adds,
  the singleton and the owner column with their constraints. A migration is a function on such
  sets. A plan is a set of migrations with their dependencies. A migration and its record are
  one transaction of two steps: `Begin` is its first statement, which looks for the first table
  of 0001, and `Apply` all that follows, to the COMMIT. Between the two others may begin the same
  migration, or commit theirs; then `Raises` says that a table which was not found and has been
  committed since is a unique violation. From its first statement on a transaction holds what a
  second one of the same migration waits for: the name of the table it creates, or the table it
  alters.
- *What the client was told* of a collection is `told`, by run: the answer of the JSON view, or
  the redirect and the page it shows.
- *BIGINT*: `FitsBigInt` refuses what a column cannot hold, with the DataError the code does
  not catch. On the side of the ledger the refused sum is gross + fee, a bound on every amount
  of a fill.
- *Money*: slippage and fee are rounded up with the code's own integer formulas; the fee rate,
  `Decimal(str(rate))`, is a fraction. The product of a gross and the rate is exact in the model;
  in the code it is so up to the 28 digits of a Decimal, which a BIGINT and a rate of up to nine
  digits fill.
- *Prices*: a trading day is a number; all stored rows are unadjusted, as the code writes no
  other. Only the open matters to orders. In `Portfolio` a closing price is the identity of its
  row.
- *pykrx* is external: it returns a frame whose rows are sorted by day, or raises.

History variables are `stored` (`VirtualOrders`), `reversed` (`Migrations`) and the field `best`
of a page (`Portfolio`); no action depends on them.

## 3. Runs

| Run | Instance | Shows |
|---|---|---|
| `VirtualOrders.cfg` | 2 users, 2 threads, 1 stock, 3 days, 2 orders, 2 collections; 270,545 states | the eight properties of the order service |
| `VirtualOrdersLiveness.cfg` | 1 user, 2 threads, 2 orders, fair; 3,441 states | every request is answered |
| `VirtualOrdersOverflow.cfg` | 1 thread, a cost wider than a column | **violation**: finding 1 |
| `AccountOwnership.cfg` | initial owner and another user, 2 threads, 4 environments, with and without legacy account; 473,543 states | ownership, opening cash, what answers and pages say, `AccountHolders` |
| `AccountOwnershipLiveness.cfg` | initial owner, 2 threads, 7 environments, fair; 42,328 states | every request is answered; no account has unsound terms |
| `AccountOwnershipClaim.cfg` | initial owner, 2 threads | **violation**: finding 2 |
| `PriceValidation.cfg` | every frame of up to 3 rows from a set with each fault; 7,174 states | the loop against its definition |
| `MarketData.cfg` | 2 threads, 2 stocks, 2 days, 3 collections; 298,350 states | streams, counts, records, answers, no circular wait, `PriceStore` |
| `MarketDataLiveness.cfg` | 2 threads, 1 stock, 2 days, 3 collections, fair; 7,672 states | every collection is answered |
| `Migrations.cfg` | 2 processes, databases of every age, 2 users, 3 accounts; 2,805 states | schema, plans, and what accounts keep |
| `Portfolio.cfg` | 1 writer, 1 reader, 2 stocks, 3 days, 2 orders, 3 collections; 568,960 states | what a page shows while tables change |
| `PortfolioTorn.cfg` | 1 writer, 1 reader, 1 order | **violation**: finding 3 |

**Why the bounds are enough.** A race in this code is between two transactions over one row or
key, so two threads and one or two owners show it; a third thread can only wait behind the
same locks (and the proofs of section 5 are for any number). Two orders let two charges compete
for the cash of one account, one order be retried, and orders of two owners be confused. Opens
of 3 and 5 with an initial cash of 10 make costs of exactly half the cash, and costs above it.
Three days give a decision day, a gap and a fill after it; the second collection overwrites or
fills the gap. For validation, the duplicate logic needs two rows of a day and a third of
another. Of the four environments two are policies, so that accounts opened before and after a
restart differ; one has a rate of exactly 1; and one a cash that no column can hold. The seven of
`AccountOwnershipLiveness.cfg` add what does not load: a rate that is NaN or malformed, a missing
cash, a negative slippage. Three keys are one more than users, so a legacy account and two opened
ones fit. Two processes that migrate are enough for one to act behind the other's plan and for two
transactions to overlap; a third can only find what the second has found. `MaxOrders`, `MaxRuns`, `MaxAccounts`, `MaxRows`
and `LastDay` are the bounds; they appear only in guards and domains.

Deadlock is checked where requests can always come; `MarketData` and `PriceValidation` stop
when the bounded number of collections or the frame is used up, and switch the check off.

**Fairness.** Weak fairness of a thread's next statement: a runnable thread runs, and the
provider's call ends. Strong fairness of the statements that wait for a row, a key or the guard,
the INSERT of an order with its foreign key among them: PostgreSQL queues lock waiters, and the guard is not denied for ever to a thread that waits.
Requests are never required to come, and aborts never required not to. pykrx has no timeout in
the code: that its call ends is an assumption about the provider. Nothing is assumed, and nothing
promised, about when a container migrates or whether its migration ends.

## 4. Findings

1. *An order whose amount does not fit stays pending.* `src/README.md:160` says an execute without
   enough cash ends the order as rejected. The rejection saves the amounts too
   (`orders.py:86-98`); when one exceeds BIGINT the save fails, the answer is a 500 and the
   order stays pending, at every attempt.
2. *Two claims at once: the second answers 404.* The docstring at `ownership.py:66-67` calls the
   claim idempotent. The second claim has passed the check for an account before the first
   commits, and then finds no legacy account (`ownership.py:76-78`).
3. *A page without holdings may show a loss.* `src/docs/tasks/T-006-portfolio-dashboard.md:58` says
   its total profit is 0 in the normal flow. The orders are read first and the cash last
   (`portfolio.py`, lines 109 and 78), so a fill in between is missing from the holdings and from the
   cash. What does hold is `TotalsMissOnlyLaterFills`: the page never shows too much.

## 5. Proofs

All theorems are about the modules TLC checks, for every value of the constants that satisfies
the assumptions of the module: any users, threads, processes, stocks, days, orders, frames and
amounts. What is assumed: marks such as `NoRow` are none of the values they stand beside; bounds
are natural numbers; initial cash is positive and rates are not negative (`VirtualOrders`; that
loaded policies are so is `LoadedPolicyIsSound`); the users are finite and fewer than the keys of
`virtual_accounts`, and some environment can be stored (`AccountOwnership`); the rows of a frame
have days, and parsed ones numbers (`PriceValidation`, `MarketData`), and are sorted by day
(`FramesAreSorted` of `MarketData`, cited by its `NoDeadlock` and nothing else).

- `LedgerSum_proofs`: a balance is an integer, 0 of no rows, and `SumInsert`: inserting one
  row adds its amount. The sum is defined by counting units of credit and debit, so that its
  laws follow from cardinality; a recursive sum would need induction over data, which is out
  of the prover's reach. `SumUnion`: disjoint sets of rows add up.
- `VirtualOrders_proofs`: `IInv` is inductive. Its parts are `TypeOK`, `ReadsStayTrue`,
  `LedgerMatchesOrders`, `NonNegativeCash`, `RejectionsStayShort` and the strengthening that
  decided orders carry a price (`DecisionsPriced`). None of them is inductive alone:
  `NonNegativeCash` needs, at `SaveFilled`, that the cash read several statements ago is the
  cash now, which is `ReadsStayTrue`; that needs that only the holder of the account row
  changes the account's ledger (`HoldsAlone`); and that a fill is charged once needs
  `LedgerMatchesOrders` to say that a pending order has no row yet. The proof has one lemma per
  part, a step per action in each, and a lemma `CashStep` for what a step does to a balance.
  - *Prices.* `FillsRestOnStoredOpens` follows from a second invariant, `PInv`: each row of
    `daily_prices` is in the history of what was stored and no stored day is ever empty again
    (`StoredOK`), and both the row a thread has read and every decision rest on such an open
    (`ReadRests`, `DecisionRests`). A collection that fills a gap between the read and the
    save is why the property names the days stored by the run of the decision, and no more.
  - *Amounts.* `AmountsAreRoundedUpOnce` is a third invariant over `IInv`: the price of a decided
    order is the open with the slippage of its own account's policy, its fee is the fee of its
    gross, and each is the exact value rounded up by less than one won (`CeilDivBounds`). So no
    fill is below its open times its quantity.
  - *Progress.* `NoDeadlock`: a request waits for one execution at most, of its own user, and that
    one waits for nobody (`OneWaitAtMost`). Two requests can wait, an execution for the row of its
    account and a new order for the row its foreign key refers to; whoever has that row finds
    every order of the account free, so the lock of the order is never waited for. `RequestsEnd`: each statement
    of a thread brings its request nearer to the answer, in at most six, and no step of another
    thread takes it back.
  - *`Refinement`*, `Spec => ImplementsCashAccount`. `OpenAccount` maps to `Open`, `InsertOrder`
    to `Place`, `SaveFilled` to `Fill`, `SaveRejected` to `Reject`, all other steps to stutters.
    The abstract step compares cost and balance at the commit, the code several statements
    earlier; `IInv` closes the gap.
- `AccountOwnership_proofs`: every safety property of the module and `Refinement`, `Spec =>
  ImplementsAccountHolders`. `OneAccountPerUser` is not inductive: a user is seen to have no
  account one statement, or several, before the write. `Reason` says what brings a thread to its
  statement, `Rights` what it may rely on there (at `insertOpening` the user has no account, at
  `saveOwner` the row has no owner), and `KeysHeldAlone` and `RowsLockedAlone` that no other
  thread can take it away. That a key is free when a user without an account inserts is a
  pigeonhole argument over finite sets (`KeyForTheAccountless`). `PagesTellAll` needs that once
  there is no account without an owner, or the user has one, it stays so (`SettledStays`); that is
  what a page may rely on from one of its three reads to the next, and its reader in later
  processes. `NoDeadlock` and `RequestsEnd` are
  as for orders; `AccountsAppearOnce` is the step that `VirtualOrders` takes for granted.
- `Migrations_proofs`: every property of the module. A plan goes stale, so `PlansOK` says only
  that what a process has not planned is applied, and `SchemaOK` what each applied migration has
  left in the schema. `StalePlansRun` does not say that no migration ever raises: two containers
  that create the tables of a new database at once do so once; it says that 0001 is recorded by
  then, and that 0002 never does. `RowsSurvive` rests on `NoOwnersYet`: where the column is missing nobody
  owns an account, so adding it loses none.
- `PriceRows_proofs` and `PriceValidation_proofs`: `ValidRowsAreKept` says of the definition that
  it lists exactly the kept rows; the k-th one is found by its rank, which is counted, so no
  induction is needed. `LoopInv` relates the loop to it: `seen` is the set of days above the row, and
  the last row kept has the rank that is the length of `valid`. `LossesAreTold` adds to it
  `SummaryInv`, that the summary counts exactly the rows dropped so far for each reason; the six
  sets of rows are disjoint and together the dropped ones, so their cardinalities add up.
- `MarketData_proofs`: three invariants, each resting on the one before. `Serving`: the guard has
  one holder, the streams are his, and a run that any table or client knows is no thread's any
  more. `Telling`: rows, runs and answers agree. `Counting`: two transactions never hold the
  same row, so what one has counted as new is new until it commits; `InsertedOnce`, a sum over
  runs, is the cardinality of the set of slots these runs fill. `Refinement` maps the commit to the one
  step of `PriceStore`, whose counts are those of that moment, although rows were counted
  before; `Counting` closes the gap.
  - `NoDeadlock`, the property `NobodyWaitsInACircle`: who holds the guard waits for nobody, and
    of the transactions over the rows of a stock one at least can go on. As a transaction locks
    its days in ascending order, who waits for a row waits for one that is at a later day, or
    past its rows (`Ahead`), and one of them is the furthest. This is where the order that
    `ValidRowsAreKept` gives is needed.
  - `CollectionsEnd`: a collection takes at most `LastDay + 7` steps of its own.
  - `PricesStay`: neither prices nor run records vanish, and a price changes only with the run
    it names.
- `Portfolio_proofs`: `PagesOK`, `ClosesAreThere`, `DayIsOfTheRead`, `TotalsMissOnlyLaterFills`. The pages need only that
  prices stay once stored (`RowsStay`), and that a filled order carries a whole execution, which
  is part of `IInv` of the order service. `Sound` says per statement what a reader has read.
  The totals rest on two further invariants: `Balanced` (the theorem `BooksBalance`), that a user's cash and the cost of
  his fills add up to his initial cash, which makes each commit charge exactly one fill; and
  `PagesStill`, that the fills a page has read are still filled, with the same amounts, at any
  later statement. At the read of the cash the fills of then are the page's and the later ones,
  and `SumUnion` adds them up.

**Model-checked only.** The liveness properties (`EveryRequestAnswered`,
`EveryCollectionAnswered`): liveness under fairness and ENABLED are out of the prover's reach.
Proved are the two halves that need no fairness, for all three services: nobody waits in a circle
(`NoDeadlock`), and a request has a bounded number of steps left that nobody else adds to
(`RequestsEnd`, `CollectionsEnd`). What TLC alone shows is that fair scheduling then suffices.
The violations of section 4 are TLC's too.

## 6. Not modelled

- Request parsing, CSRF and login checks, JSON shapes: they decide whether a service is called.
  The models take the requests that passed. Login itself is allauth and configuration.
- `list_orders`, `list_cash_ledger`, `query_daily_prices`, `health`: single reads.
- Market values and rates of return of a page; the branch for an account whose initial cash is
  not positive, which no policy opens (`TermsAreSound`); the list of recent orders.
- Django itself: a migration and its record are one transaction, as they are on PostgreSQL for
  these operations; the reverse of 0002, which its comment keeps for tests, is one step, done by hand
  with nothing running; nothing is reversed beyond 0002.
- Users are never deleted by the code, so `ON DELETE SET NULL` never fires.
- A frame with an infinite value: `int()` raises an OverflowError, which the loop does not catch
  (`market_data.py:84`), and neither does anything above it: a 500, with no run and no row.
- How accounts and orders wait for each other: `claim_legacy_account` locks the user's own account
  too (`ownership.py:73`), as an execution does. Who finds it there ends with that statement, and
  holds nothing before.
- An `INITIAL_OWNER_GOOGLE_EMAIL` that changes: the initial owners are the same in every process.
- A frame whose rows are not sorted by day: pykrx returns them sorted (`FramesAreSorted`);
  `NobodyWaitsInACircle` and `EveryCollectionAnswered` rest on it (their mutants deadlock without).

## 7. Plan

Every stateful component is modelled, every safety property is proved, and every abstract
specification is shown to be implemented, by TLC and by proof. Left, in order:

1. Market values and rates of return of the page.
2. A composition of `AccountOwnership` with `VirtualOrders`: the orders of an account before and
   after it is claimed. `RowsSurvive` and `ImplementsAccountHolders` say that its policy and cash
   stay; that its orders do is by the shape of the code, which refers to accounts by key.
