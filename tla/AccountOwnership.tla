-------------------------- MODULE AccountOwnership --------------------------
(***************************************************************************)
(* Who owns which virtual account, and under which policy: accounts.py and *)
(* ownership.py over the table virtual_accounts and the opening rows of    *)
(* cash_ledger_entries, with the views that call them.                     *)
(*                                                                         *)
(* A user opens an account of his own, once, under the policy the settings *)
(* hold.  The account that existed before there were users has no owner    *)
(* (owner IS NULL, the legacy account), and the initial owner may claim    *)
(* it.  Threads serve requests one SQL statement at a time: JSON requests, *)
(* forms, which end in a redirect or in the setup page with the error, and *)
(* the two pages.  Uncommitted rows are not in the tables: whether a       *)
(* thread has inserted the key of a user, or has locked the legacy row,    *)
(* follows from the statement it has reached.                              *)
(***************************************************************************)
EXTENDS VirtualPolicy, FiniteSets

CONSTANTS
  Users,          \* the users who are logged in
  InitialOwners,  \* those whose email is INITIAL_OWNER_GOOGLE_EMAIL
  Workers,        \* the threads that serve requests
  Environments,   \* what the environment may hold when the process starts
  MaxAccounts,    \* bound: the keys of virtual_accounts
  MaxBigInt,      \* the largest value a BIGINT column can hold
  MaxInteger,     \* the largest value an INTEGER column can hold
  NoOwner,        \* owner IS NULL
  NoRow, NoRequest, NoAnswer

AccountIds == 1 .. MaxAccounts

\* The policies that can be loaded and stored.
Fits(policy) == policy.initial_cash_krw <= MaxBigInt /\ policy.slippage_bps <= MaxInteger

Storable == {policy \in {LoadVirtualPolicy(raw) : raw \in Environments} \ {NoPolicy} : Fits(policy)}

ASSUME OwnershipAssumption ==
  /\ InitialOwners \subseteq Users
  /\ IsFiniteSet(Users)
  /\ MaxAccounts \in Nat
  /\ Cardinality(Users) < MaxAccounts
  /\ NoOwner \notin Users /\ NoRow \notin Users /\ NoRow # NoOwner
  /\ NoRow \notin AccountIds
  /\ MaxBigInt \in Nat /\ MaxInteger \in Nat
  /\ Storable # {}

ASSUME EnvironmentAssumption ==
  /\ Environments \subseteq Settings
  /\ NoPolicy \notin Settings

VARIABLES
  owner,     \* virtual_accounts.owner_id, by primary key
  terms,     \* the policy columns of virtual_accounts, by primary key
  openings,  \* the sum of the opening_balance rows of the ledger, by account
  settings,  \* the environment as the process read it when it started
  pc,        \* the statement each thread executes next
  request,   \* the request each thread serves, or has answered last
  found,     \* the account the thread has read or locked
  status,    \* the status of the page it is reading for
  offered,   \* whether can_claim_legacy has been TRUE for that page
  answer     \* its answer to that request

tables == <<owner, terms, openings>>
page   == <<status, offered>>
vars   == <<owner, terms, openings, settings, pc, request, found, status, offered, answer>>

Pages == {"dashboard", "setup"}
Forms == {"setupInitialize", "claim"}
Kinds == {"initialize", "get"} \cup Forms \cup Pages

Request == [user : Users, kind : Kinds]

\* A redirect does not show the account that the service has returned.
Answer == [status : {200, 303, 403, 404, 500, 503}, account : AccountIds \cup {NoRow},
           canClaim : BOOLEAN, dbError : BOOLEAN]

PageReads == {"pageAccount", "pageOwn", "pageLegacy", "pageRest"}

Statements == {"getAccount", "insertAccount", "insertOpening", "getAgain", "readCash",
               "lockExisting", "lockLegacy", "saveOwner"} \cup PageReads

-----------------------------------------------------------------------------
(* What the queries return *)

First(ids) == IF ids = {} THEN NoRow ELSE CHOOSE a \in ids : \A b \in ids : a <= b

\* Mutant: the service still asks for the one account there is, objects.first().
AccountOfAnyone(u) == First({a \in AccountIds : owner[a] # NoRow})

\* ownership.get_account_for_user
AccountOf(u) == First({a \in AccountIds : owner[a] = u})

\* Mutant: the claim takes the first account, whoever owns it.
LegacyAccountOfAnyone == First({a \in AccountIds : owner[a] # NoRow})

\* ownership._legacy_account
LegacyAccount == First({a \in AccountIds : owner[a] = NoOwner})

\* The unique index on owner_id holds the user's key for an INSERT that is not committed.
\* Mutant: a thread that is about to insert counts as having inserted.
HoldsKeyEarly(w, u) == pc[w] \in {"insertAccount", "insertOpening"} /\ request[w].user = u

HoldsKey(w, u) == pc[w] = "insertOpening" /\ request[w].user = u

KeyIsFree(w) == \A v \in Workers \ {w} : ~HoldsKey(v, request[w].user)

-----------------------------------------------------------------------------
\* At most one account is older than the users: 0001 let the table hold one row, and 0002
\* gives it no owner.  It has the policy of its time.
Init ==
  /\ \E legacy \in {{}, {1}}, policy \in Storable :
       /\ owner = [a \in AccountIds |-> IF a \in legacy THEN NoOwner ELSE NoRow]
       /\ terms = [a \in AccountIds |-> IF a \in legacy THEN policy ELSE NoPolicy]
       /\ openings = [a \in AccountIds |-> IF a \in legacy THEN policy.initial_cash_krw ELSE 0]
  /\ settings \in Environments
  /\ pc = [w \in Workers |-> "idle"]
  /\ request = [w \in Workers |-> NoRequest]
  /\ found = [w \in Workers |-> NoRow]
  /\ status = [w \in Workers |-> 200]
  /\ offered = [w \in Workers |-> FALSE]
  /\ answer = [w \in Workers |-> NoAnswer]

Goto(w, statement) ==
  /\ pc' = [pc EXCEPT ![w] = statement]
  /\ UNCHANGED <<settings, request, page, answer>>

Reply(w, code, account, canClaim, dbError) ==
  /\ pc' = [pc EXCEPT ![w] = "idle"]
  /\ found' = [found EXCEPT ![w] = NoRow]
  /\ status' = [status EXCEPT ![w] = 200]
  /\ offered' = [offered EXCEPT ![w] = FALSE]
  /\ answer' = [answer EXCEPT ![w] = [status   |-> code,
                                      account  |-> account,
                                      canClaim |-> canClaim,
                                      dbError  |-> dbError]]
  /\ UNCHANGED <<settings, request>>

\* A form that has succeeded redirects (303), so that a reload does not repeat it.
Succeed(w, account) ==
  Reply(w, IF request[w].kind \in Forms THEN 303 ELSE 200, account, FALSE, FALSE)

\* An ApiError is the answer to a JSON request; a form reads the setup page again and shows
\* it with the status of the error.
ApiError(w, code) ==
  IF request[w].kind \in Forms
  THEN /\ pc' = [pc EXCEPT ![w] = "pageAccount"]
       /\ status' = [status EXCEPT ![w] = code]
       /\ UNCHANGED <<settings, request, found, offered, answer>>
  ELSE Reply(w, code, NoRow, FALSE, FALSE)

\* A DatabaseError: the pages show what they had read, a form is answered 503 with an empty
\* page, and nothing in the JSON views catches it.
DatabaseError(w) ==
  LET kind == request[w].kind
  IN  IF pc[w] \in PageReads
      THEN Reply(w, IF kind = "setup" THEN 503 ELSE status[w],
                 IF pc[w] = "pageRest" THEN found[w] ELSE NoRow, offered[w], TRUE)
      ELSE Reply(w, IF kind \in Forms THEN 503 ELSE 500, NoRow, FALSE, TRUE)

\* A request arrives.
Begin(w, u, kind, statement, code) ==
  /\ pc[w] = "idle"
  /\ request' = [request EXCEPT ![w] = [user |-> u, kind |-> kind]]
  /\ pc' = [pc EXCEPT ![w] = statement]
  /\ status' = [status EXCEPT ![w] = code]
  /\ answer' = [answer EXCEPT ![w] = NoAnswer]
  /\ UNCHANGED <<tables, settings, found, offered>>

-----------------------------------------------------------------------------
(* initialize_account, get_account and list_cash_ledger *)

Initialize(w, u, kind) ==
  /\ LoadVirtualPolicy(settings) # NoPolicy
  /\ Begin(w, u, kind, "getAccount", 200)

\* A policy that does not load ends the request before it touches the database; the form
\* goes on to read the setup page.
InitializeWithoutPolicy(w, u, kind) ==
  /\ LoadVirtualPolicy(settings) = NoPolicy
  /\ IF kind = "setupInitialize"
     THEN Begin(w, u, kind, "pageAccount", 500)
     ELSE /\ pc[w] = "idle"
          /\ request' = [request EXCEPT ![w] = [user |-> u, kind |-> kind]]
          /\ answer' = [answer EXCEPT ![w] = [status   |-> 500,
                                              account  |-> NoRow,
                                              canClaim |-> FALSE,
                                              dbError  |-> FALSE]]
          /\ UNCHANGED <<tables, settings, pc, found, page>>

Get(w, u) == Begin(w, u, "get", "getAccount", 200)

GetAccount(w) ==
  LET account == AccountOf(request[w].user)
  IN  /\ pc[w] = "getAccount"
      /\ CASE account # NoRow ->
                found' = [found EXCEPT ![w] = account] /\ Goto(w, "readCash")
           [] account = NoRow /\ request[w].kind = "get" ->
                ApiError(w, 404)
           [] account = NoRow /\ request[w].kind # "get" ->
                Goto(w, "insertAccount") /\ UNCHANGED found
      /\ UNCHANGED tables

\* Mutant: the unique index on owner_id is missing.
InsertAccountUnchecked(w) ==
  /\ pc[w] = "insertAccount"
  /\ Goto(w, "insertOpening")
  /\ UNCHANGED <<tables, found>>

\* Mutant: a thread that sees another one insert takes the account for made.
InsertAccountUnwaiting(w) ==
  /\ pc[w] = "insertAccount"
  /\ Goto(w, IF AccountOf(request[w].user) = NoRow /\ KeyIsFree(w)
             THEN "insertOpening" ELSE "getAgain")
  /\ UNCHANGED <<tables, found>>

\* The INSERT waits for another transaction that has inserted the key; if that one commits,
\* or the key was there already, it fails with an IntegrityError.  A policy no column holds
\* is a DataError, which is not caught.
InsertAccount(w) ==
  /\ pc[w] = "insertAccount"
  /\ IF ~Fits(LoadVirtualPolicy(settings))
     THEN DatabaseError(w)
     ELSE /\ KeyIsFree(w)
          /\ Goto(w, IF AccountOf(request[w].user) = NoRow THEN "insertOpening" ELSE "getAgain")
          /\ UNCHANGED found
  /\ UNCHANGED tables

NextKey == First({a \in AccountIds : owner[a] = NoRow})

\* Mutant: without transaction.atomic() the account is committed by itself, and a thread
\* may die before it inserts the opening row.
OpenedInParts(w) ==
  LET policy == LoadVirtualPolicy(settings)
  IN  /\ owner' = [owner EXCEPT ![NextKey] = request[w].user]
      /\ terms' = [terms EXCEPT ![NextKey] = policy]
      /\ \E rows \in {0, 1} :
           openings' = [openings EXCEPT ![NextKey] = rows * policy.initial_cash_krw]

\* The account as the transaction of initialize_account leaves it.
Opened(w) ==
  LET policy == LoadVirtualPolicy(settings)
  IN  /\ owner' = [owner EXCEPT ![NextKey] = request[w].user]
      /\ terms' = [terms EXCEPT ![NextKey] = policy]
      /\ openings' = [openings EXCEPT ![NextKey] = policy.initial_cash_krw]

\* The INSERT of the opening row, and COMMIT: the account and its cash appear together.
InsertOpening(w) ==
  /\ pc[w] = "insertOpening"
  /\ Opened(w)
  /\ found' = [found EXCEPT ![w] = NextKey]
  /\ Goto(w, "readCash")

\* Mutant: the loser of the race pays in the cash as well.
GetAgainPaying(w) ==
  LET account == AccountOf(request[w].user)
  IN  /\ pc[w] = "getAgain"
      /\ found' = [found EXCEPT ![w] = account]
      /\ openings' = [openings EXCEPT ![account] = @ + terms[account].initial_cash_krw]
      /\ Goto(w, "readCash")
      /\ UNCHANGED <<owner, terms>>

\* After the IntegrityError; an account that is still missing would be an AttributeError.
GetAgain(w) ==
  LET account == AccountOf(request[w].user)
  IN  /\ pc[w] = "getAgain"
      /\ IF account = NoRow
         THEN Reply(w, 500, NoRow, FALSE, FALSE)
         ELSE found' = [found EXCEPT ![w] = account] /\ Goto(w, "readCash")
      /\ UNCHANGED tables

ReadCash(w) ==
  /\ pc[w] = "readCash"
  /\ Succeed(w, found[w])
  /\ UNCHANGED tables

-----------------------------------------------------------------------------
(* claim_legacy_account *)

Claim(w, u) == u \in InitialOwners /\ Begin(w, u, "claim", "lockExisting", 200)

ClaimForbidden(w, u) == u \notin InitialOwners /\ Begin(w, u, "claim", "pageAccount", 403)

LockExisting(w) ==
  LET account == AccountOf(request[w].user)
  IN  /\ pc[w] = "lockExisting"
      /\ IF account = NoRow
         THEN Goto(w, "lockLegacy") /\ UNCHANGED found
         ELSE Succeed(w, account)
      /\ UNCHANGED tables

\* SELECT ... FOR UPDATE waits for the claim that has locked the row; when that one has
\* committed, the row has an owner and is not returned any more.
LockLegacy(w) ==
  /\ pc[w] = "lockLegacy"
  /\ \A v \in Workers \ {w} : ~ (pc[v] = "saveOwner" /\ found[v] = LegacyAccount)
  /\ IF LegacyAccount = NoRow
     THEN ApiError(w, 404)
     ELSE found' = [found EXCEPT ![w] = LegacyAccount] /\ Goto(w, "saveOwner")
  /\ UNCHANGED tables

Saved(w) ==
  /\ AccountOf(request[w].user) \in {NoRow, found[w]}
  /\ owner' = [owner EXCEPT ![found[w]] = request[w].user]
  /\ UNCHANGED <<terms, openings>>

\* The UPDATE and COMMIT.  The unique index refuses a second account of the user with an
\* IntegrityError, which nothing but the view handles, as a DatabaseError.
SaveOwner(w) ==
  /\ pc[w] = "saveOwner"
  /\ KeyIsFree(w)
  /\ \/ Saved(w) /\ Succeed(w, found[w])
     \/ /\ AccountOf(request[w].user) \notin {NoRow, found[w]}
        /\ DatabaseError(w)
        /\ UNCHANGED tables

-----------------------------------------------------------------------------
(* The dashboard and the setup page: the account, then can_claim_legacy, then the cash of
   the account or, on the setup page, the policy an account would get by the settings *)

Page(w, u, kind) == Begin(w, u, kind, "pageAccount", 200)

PageAccount(w) ==
  /\ pc[w] = "pageAccount"
  /\ found' = [found EXCEPT ![w] = AccountOf(request[w].user)]
  /\ Goto(w, "pageOwn")
  /\ UNCHANGED tables

\* Mutant: can_claim_legacy does not look for an account of the user.
PageOwnUnasked(w) ==
  /\ pc[w] = "pageOwn"
  /\ Goto(w, IF request[w].user \notin InitialOwners THEN "pageRest" ELSE "pageLegacy")
  /\ UNCHANGED <<tables, found>>

\* Mutant: can_claim_legacy looks for the legacy account of those who have one already.
PageOwnInverted(w) ==
  /\ pc[w] = "pageOwn"
  /\ Goto(w, IF request[w].user \notin InitialOwners \/ AccountOf(request[w].user) = NoRow
             THEN "pageRest" ELSE "pageLegacy")
  /\ UNCHANGED <<tables, found>>

PageOwn(w) ==
  /\ pc[w] = "pageOwn"
  /\ Goto(w, IF request[w].user \notin InitialOwners \/ AccountOf(request[w].user) # NoRow
             THEN "pageRest" ELSE "pageLegacy")
  /\ UNCHANGED <<tables, found>>

PageLegacy(w) ==
  /\ pc[w] = "pageLegacy"
  /\ offered' = [offered EXCEPT ![w] = LegacyAccount # NoRow]
  /\ pc' = [pc EXCEPT ![w] = "pageRest"]
  /\ UNCHANGED <<tables, settings, request, found, status, answer>>

PageRest(w) ==
  /\ pc[w] = "pageRest"
  /\ Reply(w, status[w], found[w], offered[w], FALSE)
  /\ UNCHANGED tables

-----------------------------------------------------------------------------
\* A transaction that breaks is rolled back, unless it breaks while it commits.
Broken(w) ==
  \/ UNCHANGED tables
  \/ pc[w] = "insertOpening" /\ Opened(w)
  \/ pc[w] = "saveOwner" /\ KeyIsFree(w) /\ Saved(w)

\* A statement fails or the connection is lost, and the thread lives on.
DatabaseFails(w) ==
  /\ pc[w] # "idle"
  /\ ~ (pc[w] = "pageRest" /\ found[w] = NoRow)   \* reads no table
  /\ Broken(w)
  /\ DatabaseError(w)

\* The thread dies and nobody is answered; a client who asks again sends a new request.
Abort(w) ==
  /\ pc[w] # "idle"
  /\ Broken(w)
  /\ pc' = [pc EXCEPT ![w] = "idle"]
  /\ found' = [found EXCEPT ![w] = NoRow]
  /\ status' = [status EXCEPT ![w] = 200]
  /\ offered' = [offered EXCEPT ![w] = FALSE]
  /\ request' = [request EXCEPT ![w] = NoRequest]
  /\ UNCHANGED <<settings, answer>>

\* The process stops and starts again, and reads the environment.  Every thread dies; its
\* clients keep what they were shown, and may go on from there.
Restart ==
  /\ settings' \in Environments
  /\ pc' = [w \in Workers |-> "idle"]
  /\ found' = [w \in Workers |-> NoRow]
  /\ status' = [w \in Workers |-> 200]
  /\ offered' = [w \in Workers |-> FALSE]
  /\ request' = [w \in Workers |-> IF pc[w] = "idle" THEN request[w] ELSE NoRequest]
  /\ UNCHANGED <<tables, answer>>

Statement(w) ==
  \/ GetAccount(w)
  \/ InsertAccount(w)
  \/ InsertOpening(w)
  \/ GetAgain(w)
  \/ ReadCash(w)
  \/ LockExisting(w)
  \/ LockLegacy(w)
  \/ SaveOwner(w)
  \/ PageAccount(w)
  \/ PageOwn(w)
  \/ PageLegacy(w)
  \/ PageRest(w)

Asked(w, u) ==
  \/ \E kind \in {"initialize", "setupInitialize"} :
       Initialize(w, u, kind) \/ InitializeWithoutPolicy(w, u, kind)
  \/ Get(w, u)
  \/ Claim(w, u)
  \/ ClaimForbidden(w, u)
  \/ \E kind \in Pages : Page(w, u, kind)

Next ==
  \/ \E w \in Workers, u \in Users : Asked(w, u)
  \/ \E w \in Workers : Statement(w)
  \/ \E w \in Workers : DatabaseFails(w)
  \/ \E w \in Workers : Abort(w)
  \/ Restart

Spec == Init /\ [][Next]_vars

\* A thread that can run does, and PostgreSQL queues those who wait for a row or a key.
Fairness == \A w \in Workers :
  /\ WF_vars(Statement(w))
  /\ SF_vars(InsertAccount(w))
  /\ SF_vars(LockLegacy(w))
  /\ SF_vars(SaveOwner(w))

FairSpec == Spec /\ Fairness

-----------------------------------------------------------------------------
(* Properties *)

\* Every table and every thread is of its type.
TypeOK ==
  /\ owner \in [AccountIds -> Users \cup {NoOwner, NoRow}]
  /\ terms \in [AccountIds -> Environments \cup {NoPolicy}]
  /\ openings \in [AccountIds -> 0 .. MaxBigInt]
  /\ settings \in Environments
  /\ pc \in [Workers -> Statements \cup {"idle"}]
  /\ request \in [Workers -> Request \cup {NoRequest}]
  /\ found \in [Workers -> AccountIds \cup {NoRow}]
  /\ status \in [Workers -> {200, 403, 404, 500}]
  /\ offered \in [Workers -> BOOLEAN]
  /\ answer \in [Workers -> Answer \cup {NoAnswer}]

\* Whoever initializes and claims at once, no user has two accounts: neither two INSERTs
\* nor an INSERT and a claim both win (accounts.py:61-78, ownership.py:73-80).
OneAccountPerUser ==
  \A a, b \in AccountIds : owner[a] = owner[b] /\ owner[a] \in Users => a = b

\* However threads race, retry or die, and even when the answer to a COMMIT is lost, the
\* opening rows of an account are exactly the cash of its own policy snapshot: the loser of a
\* race adds none, and no account is left without (accounts.py:65-75).
OpenedWithCash ==
  \A a \in AccountIds :
    openings[a] = IF owner[a] = NoRow THEN 0 ELSE terms[a].initial_cash_krw

\* Every account has a policy that execute_order can compute with, as VirtualOrders assumes:
\* cash, rates below one and slippage in range, whatever the environment holds at each of the
\* restarts (config.py:67-86, accounts.py:56-71).
TermsAreSound ==
  \A a \in AccountIds : owner[a] # NoRow => terms[a] \in VirtualPolicy /\ Fits(terms[a])

\* An answer stays true: the account it names is the asking user's own, at any later time
\* too; what succeeds names one; and only a reader or a claim is told that there is none,
\* never an initialization that has lost a race, and a claim for good (accounts.py:76-80,
\* ownership.py:36-43, 73-76).
AnswersHold ==
  \A w \in Workers : answer[w] # NoAnswer =>
    /\ answer[w].account # NoRow => owner[answer[w].account] = request[w].user
    /\ request[w].kind \notin Pages /\ answer[w].status \in {200, 303} =>
         answer[w].account # NoRow
    /\ answer[w].status = 404 => request[w].kind \in {"get", "claim"}
    /\ answer[w].status = 404 /\ request[w].kind = "claim" => LegacyAccount = NoRow

\* A thread whose INSERT has failed finds the account of the winner (accounts.py:78).
LosersFindTheAccount ==
  \A w \in Workers : pc[w] = "getAgain" => AccountOf(request[w].user) # NoRow

\* A page that shows an account never offers to claim another, not even a page that shows
\* the error of a form: can_claim_legacy reads again what the page has read before
\* (views.py:238-239, 269-270).
ClaimOfferedToTheAccountless ==
  \A w \in Workers : answer[w] # NoAnswer /\ answer[w].canClaim =>
    answer[w].account = NoRow /\ request[w].user \in InitialOwners

\* What shows a user the setup page or the dashboard: a page, or a form that failed.
ShowsPage(w) ==
  \/ request[w].kind \in Pages
  \/ request[w].kind \in Forms /\ answer[w].status \in {403, 404, 500}

\* An initial owner is never left without the offer he may take: a page that shows him
\* neither an account nor an offer, and no error of the database, was right that there is no
\* legacy account, or he had an account by then, and stays right, in later processes too;
\* three statements read what others write in between (views.py:238-239, 269-270,
\* ownership.py:52-58).
PagesHideNothing ==
  \A w \in Workers :
    /\ answer[w] # NoAnswer /\ ShowsPage(w) /\ ~answer[w].dbError
    /\ answer[w].account = NoRow /\ ~answer[w].canClaim
    /\ request[w].user \in InitialOwners
    => LegacyAccount = NoRow \/ AccountOf(request[w].user) # NoRow

\* To a reader of the tables an account is opened, and claimed, in one step, and nothing else
\* happens to it: no owner but by a claim, no new terms, no second opening.
Holders == INSTANCE AccountHolders WITH Terms <- Storable

ImplementsAccountHolders == Holders!Init /\ [][Holders!Next]_tables

\* Every request is answered: claims and initializations that wait for each other's rows
\* and keys never wait in a circle.
EveryRequestAnswered == \A w \in Workers : pc[w] # "idle" ~> pc[w] = "idle"

\* What the docstring of claim_legacy_account says of a user who has an account, and calls
\* idempotent: when one claim of a user has been answered with the account, every claim of
\* his that is answered later, by a database that works, is answered with it too
\* (ownership.py:67).
ClaimIsIdempotent ==
  [][\A v, w \in Workers :
       /\ request[v] # NoRequest /\ request[v] = request[w] /\ request[v].kind = "claim"
       /\ answer[v] # NoAnswer /\ answer[v].status = 303
       /\ answer[w] = NoAnswer /\ answer'[w] # NoAnswer /\ ~answer'[w].dbError
       => answer'[w] = answer[v]]_vars

=============================================================================
