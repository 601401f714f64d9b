----------------------- MODULE AccountOwnership_proofs -----------------------
(***************************************************************************)
(* The accounts are right for any users, threads, environments and widths  *)
(* of columns, through every race, lost connection, death and restart.     *)
(*                                                                         *)
(* The inductive invariant is IInv.  OneAccountPerUser is not inductive by *)
(* itself: InsertOpening commits an account for a user who was seen to     *)
(* have none one statement earlier, and SaveOwner gives away a row that    *)
(* was seen without an owner.  Rights says what each thread may rely on    *)
(* at the statement it has reached, and KeysHeldAlone and RowsLockedAlone  *)
(* that no other thread can take it away.                                  *)
(*                                                                         *)
(* NoDeadlock and RequestsEnd are what the answer of every request needs   *)
(* beside fairness; AccountsAppearOnce is what the order service assumes.  *)
(***************************************************************************)
EXTENDS AccountOwnership, FiniteSetTheorems, WellFoundedInduction, TLAPS

-----------------------------------------------------------------------------
(* Policies *)

\* What load_virtual_policy returns, VirtualOrders can compute with: rates below one, cash
\* above zero, slippage not below, and a version (config.py:62-86).
THEOREM LoadedPolicyIsSound ==
  \A raw \in Settings : LoadVirtualPolicy(raw) \in VirtualPolicy \cup {NoPolicy}
<1> SUFFICES ASSUME NEW raw \in Settings, LoadVirtualPolicy(raw) # NoPolicy
             PROVE  LoadVirtualPolicy(raw) \in VirtualPolicy
  OBVIOUS
<1>1. /\ LoadVirtualPolicy(raw) = raw
      /\ Parses(raw)
      /\ raw.initial_cash_krw > 0
      /\ \A rate \in Rates : IsRate(raw[rate])
      /\ raw.slippage_bps >= 0
  BY DEF LoadVirtualPolicy
<1>2. raw.initial_cash_krw \in Nat \ {0} /\ raw.slippage_bps \in Nat
  BY <1>1 DEF Parses, IsInteger, Settings, IntegerRaw
<1>3. \A rate \in Rates : raw[rate] \in 0 .. RateParts - 1
  <2> TAKE rate \in Rates
  <2>1. raw[rate] \in FloatRaw
    BY DEF Settings, Rates
  <2>2. raw[rate] \in Int
    BY <1>1, <2>1 DEF Parses, IsFloat, IsRate, FloatRaw
  <2> QED
    BY <1>1, <2>2, PolicyAssumption DEF IsRate
<1>4. raw.policy_version \in Versions
  BY <1>1 DEF Parses, Settings
<1>5. /\ raw.buy_fee_rate \in 0 .. RateParts - 1
      /\ raw.sell_fee_rate \in 0 .. RateParts - 1
      /\ raw.sell_tax_rate \in 0 .. RateParts - 1
  BY <1>3 DEF Rates
<1>6. raw = [initial_cash_krw |-> raw.initial_cash_krw,
             buy_fee_rate     |-> raw.buy_fee_rate,
             sell_fee_rate    |-> raw.sell_fee_rate,
             sell_tax_rate    |-> raw.sell_tax_rate,
             slippage_bps     |-> raw.slippage_bps,
             policy_version   |-> raw.policy_version]
  BY DEF Settings
<1> QED
  BY <1>1, <1>2, <1>4, <1>5, <1>6 DEF VirtualPolicy

\* What is loaded is what the environment holds, or an error.
LEMMA LoadedPolicy ==
  ASSUME NEW raw \in Environments
  PROVE  /\ LoadVirtualPolicy(raw) \in Environments \cup {NoPolicy}
         /\ LoadVirtualPolicy(raw) # NoPolicy =>
              /\ LoadVirtualPolicy(raw) \in VirtualPolicy
              /\ Fits(LoadVirtualPolicy(raw)) => LoadVirtualPolicy(raw) \in Storable
<1>1. raw \in Settings
  BY EnvironmentAssumption
<1>2. LoadVirtualPolicy(raw) \in VirtualPolicy \cup {NoPolicy}
  BY <1>1, LoadedPolicyIsSound
<1>3. LoadVirtualPolicy(raw) \in {raw, NoPolicy}
  BY DEF LoadVirtualPolicy
<1> HIDE DEF LoadVirtualPolicy
<1> QED
  BY <1>2, <1>3 DEF Storable

LEMMA StorablePolicy ==
  ASSUME NEW policy \in Storable
  PROVE  /\ policy \in Environments /\ policy # NoPolicy
         /\ policy \in VirtualPolicy /\ Fits(policy)
         /\ policy.initial_cash_krw \in 0 .. MaxBigInt
<1>1. PICK raw \in Environments : policy = LoadVirtualPolicy(raw)
  BY DEF Storable
<1>2. policy # NoPolicy /\ Fits(policy)
  BY DEF Storable
<1>3. policy \in Environments /\ policy \in VirtualPolicy
  BY <1>1, <1>2, LoadedPolicy
<1> QED
  BY <1>2, <1>3, OwnershipAssumption DEF VirtualPolicy, Fits

-----------------------------------------------------------------------------
(* What the queries return *)

\* First returns a key of the set, when there is one.
LEMMA FirstOf ==
  ASSUME NEW ids, ids \subseteq AccountIds
  PROVE  /\ First(ids) = NoRow <=> ids = {}
         /\ ids # {} => First(ids) \in ids
<1>1. ids \subseteq Nat
  BY OwnershipAssumption DEF AccountIds
<1>2. ASSUME ids # {} PROVE First(ids) \in ids
  <2>1. PICK a \in ids : \A b \in ids : ~ (<<b, a>> \in OpToRel(<, Nat))
    BY <1>1, <1>2, NatLessThanWellFounded, WFMin
  <2>2. \A b \in ids : ~ (b < a)
    BY <1>1, <2>1 DEF OpToRel
  <2>3. \A b \in ids : a <= b
    BY <1>1, <2>2
  <2> QED
    BY <1>2, <2>3 DEF First
<1>3. First({}) = NoRow
  BY DEF First
<1>4. NoRow \notin ids
  BY OwnershipAssumption
<1> QED
  BY <1>2, <1>3, <1>4

\* A user has an account if get_account_for_user finds it.
LEMMA AccountFound ==
  ASSUME NEW u
  PROVE  /\ AccountOf(u) = NoRow <=> \A a \in AccountIds : owner[a] # u
         /\ AccountOf(u) # NoRow => AccountOf(u) \in AccountIds /\ owner[AccountOf(u)] = u
<1> DEFINE ids == {a \in AccountIds : owner[a] = u}
<1>1. ids \subseteq AccountIds
  OBVIOUS
<1>2. /\ First(ids) = NoRow <=> ids = {}
      /\ ids # {} => First(ids) \in ids
  BY <1>1, FirstOf
<1> QED
  BY <1>2, Zenon DEF AccountOf

\* Every account has an owner.
NoLegacy == \A a \in AccountIds : owner[a] # NoOwner

LEMMA LegacyFound ==
  /\ LegacyAccount = NoRow <=> NoLegacy
  /\ LegacyAccount # NoRow => LegacyAccount \in AccountIds /\ owner[LegacyAccount] = NoOwner
<1> DEFINE ids == {a \in AccountIds : owner[a] = NoOwner}
<1>1. ids \subseteq AccountIds
  OBVIOUS
<1>2. /\ First(ids) = NoRow <=> ids = {}
      /\ ids # {} => First(ids) \in ids
  BY <1>1, FirstOf
<1> QED
  BY <1>2, Zenon DEF LegacyAccount, NoLegacy

-----------------------------------------------------------------------------
(* The inductive invariant *)

\* The policy of the settings, or NoPolicy.
Current == LoadVirtualPolicy(settings)

Accountless(u) == \A a \in AccountIds : owner[a] # u

TablesOK ==
  /\ owner \in [AccountIds -> Users \cup {NoOwner, NoRow}]
  /\ terms \in [AccountIds -> Environments \cup {NoPolicy}]
  /\ openings \in [AccountIds -> 0 .. MaxBigInt]

ThreadsOK ==
  /\ settings \in Environments
  /\ pc \in [Workers -> Statements \cup {"idle"}]
  /\ request \in [Workers -> Request \cup {NoRequest}]
  /\ found \in [Workers -> AccountIds \cup {NoRow}]
  /\ status \in [Workers -> {200, 403, 404, 500}]
  /\ offered \in [Workers -> BOOLEAN]
  /\ answer \in [Workers -> Answer \cup {NoAnswer}]

OneLegacy == \A a, b \in AccountIds : owner[a] = NoOwner /\ owner[b] = NoOwner => a = b

AccountsSound ==
  \A a \in AccountIds :
    IF owner[a] = NoRow THEN openings[a] = 0
    ELSE terms[a] \in Storable /\ openings[a] = terms[a].initial_cash_krw

Initializing == {"insertAccount", "insertOpening", "getAgain"}
Claiming     == {"lockExisting", "lockLegacy", "saveOwner"}

\* What brings a thread to the statement it has reached.
Reason(w) ==
  /\ pc[w] # "idle" \/ answer[w] # NoAnswer => request[w] \in Request
  /\ pc[w] # "idle" => answer[w] = NoAnswer
  /\ pc[w] \notin PageReads => status[w] = 200
  /\ pc[w] \in Initializing \cup {"getAccount", "readCash"} =>
       request[w].kind \in {"initialize", "setupInitialize", "get"}
  /\ pc[w] \in Initializing => request[w].kind # "get"
  /\ pc[w] \in Initializing \cup {"getAccount"} => Current # NoPolicy \/ request[w].kind = "get"
  /\ pc[w] \in Claiming => request[w].kind = "claim" /\ request[w].user \in InitialOwners
  /\ pc[w] \in PageReads =>
       /\ request[w].kind \in Pages \cup Forms
       /\ status[w] = 200 => request[w].kind \in Pages
       /\ status[w] = 404 => request[w].kind = "claim"
  /\ offered[w] => pc[w] = "pageRest"
  /\ pc[w] = "pageLegacy" \/ offered[w] => request[w].user \in InitialOwners

\* What it may rely on there.
Rights(w) ==
  /\ pc[w] = "idle" => found[w] = NoRow
  /\ pc[w] \in {"readCash", "saveOwner"} => found[w] # NoRow
  /\ found[w] # NoRow =>
       owner[found[w]] = IF pc[w] = "saveOwner" THEN NoOwner ELSE request[w].user
  /\ pc[w] = "insertOpening" => Current \in Storable /\ Accountless(request[w].user)
  /\ pc[w] = "getAgain" => ~Accountless(request[w].user)
  /\ pc[w] = "pageLegacy" \/ offered[w] => found[w] = NoRow
  /\ pc[w] \in PageReads /\ status[w] = 404 => NoLegacy
  /\ pc[w] = "pageRest" /\ found[w] = NoRow /\ ~offered[w]
     /\ request[w].user \in InitialOwners
     => NoLegacy \/ ~Accountless(request[w].user)

KeysHeldAlone ==
  \A v, w \in Workers :
    pc[v] = "insertOpening" /\ pc[w] = "insertOpening" /\ request[v].user = request[w].user
    => v = w

RowsLockedAlone ==
  \A v, w \in Workers :
    pc[v] = "saveOwner" /\ pc[w] = "saveOwner" /\ found[v] = found[w] => v = w

\* What an answer says, as AnswersHold, ClaimOfferedToTheAccountless and PagesHideNothing
\* want it.
AnswerHolds(w) ==
  answer[w] # NoAnswer =>
    /\ answer[w].account # NoRow => owner[answer[w].account] = request[w].user
    /\ request[w].kind \notin Pages /\ answer[w].status \in {200, 303} =>
         answer[w].account # NoRow
    /\ answer[w].status = 404 => request[w].kind \in {"get", "claim"}
    /\ answer[w].canClaim => answer[w].account = NoRow /\ request[w].user \in InitialOwners
    /\ answer[w].status = 404 /\ request[w].kind = "claim" => NoLegacy
    /\ ShowsPage(w) /\ ~answer[w].dbError /\ answer[w].account = NoRow
       /\ ~answer[w].canClaim /\ request[w].user \in InitialOwners
       => NoLegacy \/ ~Accountless(request[w].user)

IInv ==
  /\ TablesOK
  /\ ThreadsOK
  /\ OneAccountPerUser
  /\ OneLegacy
  /\ AccountsSound
  /\ \A w \in Workers : Reason(w)
  /\ \A w \in Workers : Rights(w)
  /\ KeysHeldAlone
  /\ RowsLockedAlone
  /\ \A w \in Workers : AnswerHolds(w)

-----------------------------------------------------------------------------
(* The keys do not run out *)

\* While a user has no account there is a free key: the others, and the legacy account, do
\* not fill them all.
LEMMA KeyForTheAccountless ==
  ASSUME TablesOK, OneAccountPerUser, OneLegacy, NEW u \in Users, Accountless(u)
  PROVE  NextKey \in AccountIds /\ owner[NextKey] = NoRow
<1> DEFINE free == {a \in AccountIds : owner[a] = NoRow}
           keepers == (Users \ {u}) \cup {NoOwner}
<1>1. free # {}
  <2> SUFFICES ASSUME free = {} PROVE FALSE
    OBVIOUS
  <2>1. owner \in [AccountIds -> keepers]
    BY DEF TablesOK, Accountless
  <2>2. \A a, b \in AccountIds : owner[a] = owner[b] => a = b
    <3> TAKE a, b \in AccountIds
    <3> HAVE owner[a] = owner[b]
    <3>1. owner[a] \in keepers
      BY <2>1
    <3>2. CASE owner[a] = NoOwner
      BY <3>2 DEF OneLegacy
    <3>3. CASE owner[a] \in Users
      BY <3>3 DEF OneAccountPerUser
    <3> QED
      BY <3>1, <3>2, <3>3
  <2>3. IsFiniteSet(Users) /\ Cardinality(Users) \in Nat
    BY OwnershipAssumption, FS_CardinalityType
  <2>4. IsFiniteSet(Users \ {u}) /\ Cardinality(Users \ {u}) = Cardinality(Users) - 1
    BY <2>3, FS_RemoveElement
  <2>5. IsFiniteSet(keepers) /\ Cardinality(keepers) = Cardinality(Users)
    <3>1. NoOwner \notin Users \ {u}
      BY OwnershipAssumption
    <3>2. Cardinality(keepers) = Cardinality(Users \ {u}) + 1
      BY <2>4, <3>1, FS_AddElement
    <3> QED
      BY <2>3, <2>4, <3>2, FS_AddElement
  <2>6. IsFiniteSet(AccountIds) /\ Cardinality(AccountIds) = MaxAccounts
    <3>1. MaxAccounts \in Int /\ ~ (1 > MaxAccounts)
      BY <2>3, OwnershipAssumption
    <3>2. Cardinality(1 .. MaxAccounts) = MaxAccounts - 1 + 1 /\ IsFiniteSet(1 .. MaxAccounts)
      BY <3>1, FS_Interval
    <3> QED
      BY <3>1, <3>2 DEF AccountIds
  <2>7. Cardinality(keepers) < Cardinality(AccountIds)
    BY <2>5, <2>6, OwnershipAssumption
  <2> HIDE DEF keepers
  <2> QED
    BY <2>1, <2>2, <2>5, <2>6, <2>7, FS_PigeonHole
<1>2. free \subseteq AccountIds
  OBVIOUS
<1>3. First(free) \in free
  BY <1>1, <1>2, FirstOf
<1> QED
  BY <1>3, Zenon DEF NextKey

-----------------------------------------------------------------------------
(* Steps *)

Opening(w) == pc[w] = "insertOpening" /\ Opened(w)

Saving(w) == pc[w] = "saveOwner" /\ KeyIsFree(w) /\ Saved(w)

\* To the tables a step does nothing, or it opens an account, or it saves an owner.
TablesMove(w) == UNCHANGED tables \/ Opening(w) \/ Saving(w)

\* A step of thread w leaves the other threads where they are.
OthersRest(w) ==
  /\ UNCHANGED settings
  /\ \A v \in Workers \ {w} :
       /\ pc'[v] = pc[v]
       /\ request'[v] = request[v]
       /\ found'[v] = found[v]
       /\ status'[v] = status[v]
       /\ offered'[v] = offered[v]
       /\ answer'[v] = answer[v]

Moves(w) ==
  \/ \E u \in Users : Asked(w, u)
  \/ Statement(w)
  \/ DatabaseFails(w)
  \/ Abort(w)

\* A reply of known codes is of its type.
LEMMA RepliedType ==
  ASSUME ThreadsOK, NEW w \in Workers,
         NEW code \in {200, 303, 403, 404, 500, 503}, NEW account \in AccountIds \cup {NoRow},
         NEW canClaim \in BOOLEAN, NEW dbError \in BOOLEAN,
         Reply(w, code, account, canClaim, dbError)
  PROVE  ThreadsOK' /\ OthersRest(w)
<1>1. [status   |-> code,
       account  |-> account,
       canClaim |-> canClaim,
       dbError  |-> dbError] \in Answer
  BY DEF Answer
<1> QED
  BY <1>1 DEF ThreadsOK, Reply, OthersRest

\* The reply of whatever is not a page.
PlainReply(w, code, account) == Reply(w, code, account, FALSE, FALSE)

LEMMA PlainReplyType ==
  ASSUME ThreadsOK, NEW w \in Workers,
         NEW code \in {200, 303, 403, 404, 500, 503}, NEW account \in AccountIds \cup {NoRow},
         PlainReply(w, code, account)
  PROVE  ThreadsOK' /\ OthersRest(w)
<1>1. [status   |-> code,
       account  |-> account,
       canClaim |-> FALSE,
       dbError  |-> FALSE] \in Answer
  BY DEF Answer
<1> QED
  BY <1>1 DEF ThreadsOK, PlainReply, Reply, OthersRest

\* A thread that has replied is idle.
Rested(w) ==
  /\ OthersRest(w)
  /\ UNCHANGED request
  /\ pc'[w] = "idle"
  /\ found'[w] = NoRow
  /\ status'[w] = 200
  /\ offered'[w] = FALSE

\* A database error leaves a page with what it has read, and another request with no account.
LEMMA DatabaseErrorAnswers ==
  ASSUME ThreadsOK, NEW w \in Workers, DatabaseError(w)
  PROVE  /\ ThreadsOK'
         /\ Rested(w)
         /\ answer'[w].dbError
         /\ answer'[w].account # NoRow =>
              pc[w] = "pageRest" /\ answer'[w].account = found[w]
         /\ answer'[w].canClaim => pc[w] \in PageReads /\ offered[w]
         /\ IF pc[w] \in PageReads THEN answer'[w].status \in {503, status[w]}
            ELSE answer'[w].status \in {500, 503}
<1>1. status[w] \in {200, 403, 404, 500} /\ found[w] \in AccountIds \cup {NoRow}
      /\ offered[w] \in BOOLEAN
  BY DEF ThreadsOK
<1>2. CASE pc[w] \in PageReads
  <2>0. PICK code : code = IF request[w].kind = "setup" THEN 503 ELSE status[w]
    OBVIOUS
  <2>1. PICK account : account = IF pc[w] = "pageRest" THEN found[w] ELSE NoRow
    OBVIOUS
  <2>9. PICK canClaim \in BOOLEAN, dbError \in BOOLEAN : canClaim = offered[w] /\ dbError = TRUE
    BY <1>1
  <2>2. Reply(w, code, account, canClaim, dbError)
    BY <1>2, <2>0, <2>1, <2>9 DEF DatabaseError, Reply
  <2>3. code \in {200, 303, 403, 404, 500, 503} /\ code \in {503, status[w]}
    BY <1>1, <2>0
  <2>4. account \in AccountIds \cup {NoRow}
    BY <1>1, <2>1
  <2>5. account # NoRow => pc[w] = "pageRest" /\ account = found[w]
    BY <2>1
  <2>6. ThreadsOK'
    BY <1>1, <2>2, <2>3, <2>4, RepliedType
  <2>7. /\ Rested(w)
        /\ answer'[w] = [status   |-> code,
                         account  |-> account,
                         canClaim |-> canClaim,
                         dbError  |-> dbError]
    BY <2>2 DEF ThreadsOK, Reply, OthersRest, Rested
  <2> QED
    BY <1>2, <2>9, <2>3, <2>5, <2>6, <2>7
<1>3. CASE pc[w] \notin PageReads
  <2>1. PICK code : code = IF request[w].kind \in Forms THEN 503 ELSE 500
    OBVIOUS
  <2>9. PICK canClaim \in BOOLEAN, dbError \in BOOLEAN : canClaim = FALSE /\ dbError = TRUE
    OBVIOUS
  <2>2. Reply(w, code, NoRow, canClaim, dbError)
    BY <1>3, <2>1, <2>9, Zenon DEF DatabaseError
  <2>3. code \in {500, 503} /\ code \in {200, 303, 403, 404, 500, 503}
    BY <2>1
  <2>4. ThreadsOK'
    BY <2>2, <2>3, RepliedType
  <2>5. /\ Rested(w)
        /\ answer'[w] = [status   |-> code,
                         account  |-> NoRow,
                         canClaim |-> canClaim,
                         dbError  |-> dbError]
    BY <2>2 DEF ThreadsOK, Reply, OthersRest, Rested
  <2> QED
    BY <1>3, <2>9, <2>3, <2>4, <2>5
<1> QED
  BY <1>2, <1>3

\* A request that begins.
LEMMA BegunType ==
  ASSUME ThreadsOK, NEW w \in Workers, NEW u \in Users, NEW kind \in Kinds,
         NEW statement \in Statements, NEW code \in {200, 403, 404, 500},
         Begin(w, u, kind, statement, code)
  PROVE  ThreadsOK' /\ OthersRest(w) /\ UNCHANGED tables
<1>1. [user |-> u, kind |-> kind] \in Request
  BY DEF Request
<1> QED
  BY <1>1 DEF ThreadsOK, Begin, OthersRest, tables

LEMMA ApiErrorType ==
  ASSUME ThreadsOK, NEW w \in Workers, NEW code \in {403, 404, 500}, ApiError(w, code)
  PROVE  ThreadsOK' /\ OthersRest(w)
<1>1. CASE request[w].kind \in Forms
  BY <1>1 DEF ThreadsOK, ApiError, OthersRest, Statements, PageReads
<1>2. CASE request[w].kind \notin Forms
  <2>1. PlainReply(w, code, NoRow)
    BY <1>2, Zenon DEF ApiError, PlainReply
  <2>2. code \in {200, 303, 403, 404, 500, 503} /\ NoRow \in AccountIds \cup {NoRow}
    OBVIOUS
  <2> QED
    BY <2>1, <2>2, PlainReplyType
<1> QED
  BY <1>1, <1>2

LEMMA GotoType ==
  ASSUME ThreadsOK, NEW w \in Workers, NEW statement \in Statements, Goto(w, statement),
         \/ UNCHANGED found
         \/ \E a \in AccountIds \cup {NoRow} : found' = [found EXCEPT ![w] = a]
  PROVE  ThreadsOK' /\ OthersRest(w)
BY DEF ThreadsOK, Goto, OthersRest, page

\* The mover keeps the types, and the other threads rest.
LEMMA AskedType ==
  ASSUME ThreadsOK, NEW w \in Workers, NEW u \in Users, Asked(w, u)
  PROVE  ThreadsOK' /\ OthersRest(w) /\ UNCHANGED tables
<1>1. ASSUME NEW kind \in {"initialize", "setupInitialize"}, Initialize(w, u, kind)
      PROVE  ThreadsOK' /\ OthersRest(w) /\ UNCHANGED tables
  <2>1. kind \in Kinds /\ "getAccount" \in Statements
    BY DEF Kinds, Forms, Statements
  <2>2. Begin(w, u, kind, "getAccount", 200)
    BY <1>1 DEF Initialize
  <2> QED
    BY <2>1, <2>2, BegunType
<1>2. ASSUME NEW kind \in {"initialize", "setupInitialize"},
             InitializeWithoutPolicy(w, u, kind)
      PROVE  ThreadsOK' /\ OthersRest(w) /\ UNCHANGED tables
  <2>1. kind \in Kinds /\ "pageAccount" \in Statements
    BY DEF Kinds, Forms, Statements, PageReads
  <2>2. CASE kind = "setupInitialize"
    <3>1. Begin(w, u, kind, "pageAccount", 500)
      BY <1>2, <2>2 DEF InitializeWithoutPolicy
    <3> QED
      BY <2>1, <3>1, BegunType
  <2>3. CASE kind # "setupInitialize"
    <3>1. [user |-> u, kind |-> kind] \in Request
      BY <2>1 DEF Request
    <3>2. [status |-> 500, account |-> NoRow, canClaim |-> FALSE, dbError |-> FALSE] \in Answer
      BY DEF Answer
    <3>3. /\ request' = [request EXCEPT ![w] = [user |-> u, kind |-> kind]]
          /\ answer' = [answer EXCEPT ![w] = [status   |-> 500,
                                             account  |-> NoRow,
                                             canClaim |-> FALSE,
                                             dbError  |-> FALSE]]
          /\ UNCHANGED <<tables, settings, pc, found, page>>
      BY <1>2, <2>3, Zenon DEF InitializeWithoutPolicy
    <3> QED
      BY <3>1, <3>2, <3>3 DEF ThreadsOK, OthersRest, page
  <2> QED
    BY <2>2, <2>3
<1>3. ASSUME Get(w, u)
      PROVE  ThreadsOK' /\ OthersRest(w) /\ UNCHANGED tables
  <2>1. "get" \in Kinds /\ "getAccount" \in Statements
    BY DEF Kinds, Statements
  <2> QED
    BY <1>3, <2>1, BegunType DEF Get
<1>4. ASSUME Claim(w, u)
      PROVE  ThreadsOK' /\ OthersRest(w) /\ UNCHANGED tables
  <2>1. "claim" \in Kinds /\ "lockExisting" \in Statements
    BY DEF Kinds, Forms, Statements
  <2> QED
    BY <1>4, <2>1, BegunType DEF Claim
<1>5. ASSUME ClaimForbidden(w, u)
      PROVE  ThreadsOK' /\ OthersRest(w) /\ UNCHANGED tables
  <2>1. "claim" \in Kinds /\ "pageAccount" \in Statements
    BY DEF Kinds, Forms, Statements, PageReads
  <2> QED
    BY <1>5, <2>1, BegunType DEF ClaimForbidden
<1>6. ASSUME NEW kind \in Pages, Page(w, u, kind)
      PROVE  ThreadsOK' /\ OthersRest(w) /\ UNCHANGED tables
  <2>1. kind \in Kinds /\ "pageAccount" \in Statements
    BY DEF Kinds, Statements, PageReads
  <2> QED
    BY <1>6, <2>1, BegunType DEF Page
<1> QED
  BY <1>1, <1>2, <1>3, <1>4, <1>5, <1>6 DEF Asked

\* An account that is opened has a new key, and a policy that can be stored.
LEMMA OpeningMaps ==
  ASSUME IInv, NEW w \in Workers, Opening(w)
  PROVE  /\ NextKey \in AccountIds
         /\ request[w].user \in Users
         /\ Current \in Storable
         /\ Holders!Open(NextKey, request[w].user, Current)
<1>1. /\ request[w].user \in Users
      /\ Current \in Storable
      /\ Accountless(request[w].user)
  BY DEF IInv, Reason, Rights, Opening, Request
<1>2. NextKey \in AccountIds /\ owner[NextKey] = NoRow
  BY <1>1, KeyForTheAccountless DEF IInv
<1>3. ~Holders!HasAccount(request[w].user)
  BY <1>1 DEF Accountless, Holders!HasAccount
<1> QED
  BY <1>1, <1>2, <1>3 DEF Opening, Opened, Current, Holders!Open

\* An account that is claimed had no owner, and the claimer no account.
LEMMA SavingMaps ==
  ASSUME IInv, NEW w \in Workers, Saving(w)
  PROVE  /\ found[w] \in AccountIds
         /\ request[w].user \in Users
         /\ Holders!Claim(found[w], request[w].user)
<1>1. /\ request[w] \in Request
      /\ request[w].user \in InitialOwners
      /\ found[w] \in AccountIds
      /\ owner[found[w]] = NoOwner
  BY DEF IInv, ThreadsOK, Reason, Rights, Saving, Claiming
<1>2. request[w].user \in Users /\ request[w].user # NoOwner
  BY <1>1, OwnershipAssumption DEF Request
<1>3. AccountOf(request[w].user) = NoRow
  BY <1>1, <1>2, AccountFound DEF Saving, Saved
<1>4. ~Holders!HasAccount(request[w].user)
  BY <1>3, AccountFound DEF Holders!HasAccount
<1> QED
  BY <1>1, <1>2, <1>4 DEF Saving, Saved, Holders!Claim

LEMMA StatementType ==
  ASSUME IInv, NEW w \in Workers, Statement(w)
  PROVE  ThreadsOK' /\ OthersRest(w) /\ TablesMove(w)
<1> DEFINE Goal == ThreadsOK' /\ OthersRest(w) /\ TablesMove(w)
<1>0. /\ ThreadsOK
      /\ request[w] \in Request \cup {NoRequest}
      /\ found[w] \in AccountIds \cup {NoRow}
      /\ AccountOf(request[w].user) \in AccountIds \cup {NoRow}
      /\ LegacyAccount \in AccountIds \cup {NoRow}
  BY AccountFound, LegacyFound DEF IInv, ThreadsOK
<1>1. ASSUME GetAccount(w) PROVE Goal
  <2>1. PICK account : account = AccountOf(request[w].user)
    OBVIOUS
  <2>2. CASE account # NoRow
    <3>1. found' = [found EXCEPT ![w] = account] /\ Goto(w, "readCash") /\ UNCHANGED tables
      BY <1>1, <2>1, <2>2, Zenon DEF GetAccount
    <3>2. account \in AccountIds \cup {NoRow} /\ "readCash" \in Statements
      BY <1>0, <2>1 DEF Statements
    <3> QED
      BY <1>0, <3>1, <3>2, GotoType DEF TablesMove
  <2>3. CASE account = NoRow /\ request[w].kind = "get"
    <3>1. ApiError(w, 404) /\ UNCHANGED tables
      BY <1>1, <2>1, <2>3 DEF GetAccount
    <3> QED
      BY <1>0, <3>1, ApiErrorType DEF TablesMove
  <2>4. CASE account = NoRow /\ request[w].kind # "get"
    <3>1. Goto(w, "insertAccount") /\ UNCHANGED found /\ UNCHANGED tables
      BY <1>1, <2>1, <2>4 DEF GetAccount
    <3>2. "insertAccount" \in Statements
      BY DEF Statements
    <3> QED
      BY <1>0, <3>1, <3>2, GotoType DEF TablesMove
  <2> QED
    BY <2>2, <2>3, <2>4
<1>2. ASSUME InsertAccount(w) PROVE Goal
  <2>1. CASE DatabaseError(w) /\ UNCHANGED tables
    BY <1>0, <2>1, DatabaseErrorAnswers DEF Rested, TablesMove
  <2>2. CASE /\ \E s \in {"insertOpening", "getAgain"} : Goto(w, s)
             /\ UNCHANGED found /\ UNCHANGED tables
    <3>1. PICK s \in {"insertOpening", "getAgain"} : Goto(w, s)
      BY <2>2
    <3>2. s \in Statements
      BY DEF Statements
    <3> QED
      BY <1>0, <2>2, <3>1, <3>2, GotoType DEF TablesMove
  <2>3. CASE Fits(LoadVirtualPolicy(settings))
    <3>1. CASE AccountOf(request[w].user) = NoRow
      BY <1>2, <2>2, <2>3, <3>1 DEF InsertAccount
    <3>2. CASE AccountOf(request[w].user) # NoRow
      BY <1>2, <2>2, <2>3, <3>2 DEF InsertAccount
    <3> QED
      BY <3>1, <3>2
  <2> QED
    BY <1>2, <2>1, <2>3 DEF InsertAccount
<1>3. ASSUME InsertOpening(w) PROVE Goal
  <2>1. Opening(w)
    BY <1>3 DEF InsertOpening, Opening
  <2>2. PICK a \in AccountIds : a = NextKey
    BY <2>1, OpeningMaps
  <2>3. found' = [found EXCEPT ![w] = a] /\ Goto(w, "readCash")
    BY <1>3, <2>2 DEF InsertOpening
  <2>4. "readCash" \in Statements
    BY DEF Statements
  <2> QED
    BY <1>0, <2>1, <2>3, <2>4, GotoType DEF TablesMove
<1>4. ASSUME GetAgain(w) PROVE Goal
  <2>1. PICK account : account = AccountOf(request[w].user)
    OBVIOUS
  <2>2. account \in AccountIds \cup {NoRow} /\ "readCash" \in Statements
    BY <1>0, <2>1 DEF Statements
  <2>3. CASE account # NoRow
    <3>1. found' = [found EXCEPT ![w] = account] /\ Goto(w, "readCash") /\ UNCHANGED tables
      BY <1>4, <2>1, <2>3, Zenon DEF GetAgain
    <3> QED
      BY <1>0, <2>2, <3>1, GotoType DEF TablesMove
  <2>4. CASE account = NoRow
    <3>1. PlainReply(w, 500, NoRow) /\ UNCHANGED tables
      BY <1>4, <2>1, <2>4 DEF GetAgain, PlainReply
    <3> QED
      BY <1>0, <3>1, PlainReplyType DEF TablesMove
  <2> QED
    BY <2>3, <2>4
<1>5. ASSUME NEW account \in AccountIds \cup {NoRow}, Succeed(w, account)
      PROVE  ThreadsOK' /\ OthersRest(w)
  <2>1. PICK code \in {200, 303} : code = IF request[w].kind \in Forms THEN 303 ELSE 200
    OBVIOUS
  <2>2. PlainReply(w, code, account)
    BY <1>5, <2>1 DEF Succeed, PlainReply
  <2> QED
    BY <1>0, <2>2, PlainReplyType
<1>6. ASSUME ReadCash(w) PROVE Goal
  BY <1>0, <1>5, <1>6 DEF ReadCash, TablesMove
<1>7. ASSUME LockExisting(w) PROVE Goal
  <2>1. PICK account : account = AccountOf(request[w].user)
    OBVIOUS
  <2>2. account \in AccountIds \cup {NoRow} /\ "lockLegacy" \in Statements
    BY <1>0, <2>1 DEF Statements
  <2>3. CASE account = NoRow
    <3>1. Goto(w, "lockLegacy") /\ UNCHANGED found /\ UNCHANGED tables
      BY <1>7, <2>1, <2>3 DEF LockExisting
    <3> QED
      BY <1>0, <2>2, <3>1, GotoType DEF TablesMove
  <2>4. CASE account # NoRow
    <3>1. Succeed(w, account) /\ UNCHANGED tables
      BY <1>7, <2>1, <2>4 DEF LockExisting
    <3> QED
      BY <1>5, <2>2, <3>1 DEF TablesMove
  <2> QED
    BY <2>3, <2>4
<1>8. ASSUME LockLegacy(w) PROVE Goal
  <2>1. CASE LegacyAccount = NoRow
    <3>1. ApiError(w, 404) /\ UNCHANGED tables
      BY <1>8, <2>1 DEF LockLegacy
    <3> QED
      BY <1>0, <3>1, ApiErrorType DEF TablesMove
  <2>2. CASE LegacyAccount # NoRow
    <3>1. PICK a \in AccountIds : a = LegacyAccount
      BY <1>0, <2>2
    <3>2. found' = [found EXCEPT ![w] = a] /\ Goto(w, "saveOwner") /\ UNCHANGED tables
      BY <1>8, <2>2, <3>1 DEF LockLegacy
    <3>3. "saveOwner" \in Statements
      BY DEF Statements
    <3> QED
      BY <1>0, <3>2, <3>3, GotoType DEF TablesMove
  <2> QED
    BY <2>1, <2>2
<1>9. ASSUME SaveOwner(w) PROVE Goal
  <2>1. CASE Saved(w) /\ Succeed(w, found[w])
    BY <1>0, <1>5, <1>9, <2>1 DEF SaveOwner, Saving, TablesMove
  <2>2. CASE DatabaseError(w) /\ UNCHANGED tables
    BY <1>0, <2>2, DatabaseErrorAnswers DEF Rested, TablesMove
  <2> QED
    BY <1>9, <2>1, <2>2 DEF SaveOwner
<1>10. ASSUME PageAccount(w) PROVE Goal
  <2>1. PICK account \in AccountIds \cup {NoRow} : account = AccountOf(request[w].user)
    BY <1>0
  <2>2. found' = [found EXCEPT ![w] = account] /\ Goto(w, "pageOwn") /\ UNCHANGED tables
    BY <1>10, <2>1 DEF PageAccount
  <2>3. "pageOwn" \in Statements
    BY DEF Statements, PageReads
  <2> QED
    BY <1>0, <2>2, <2>3, GotoType DEF TablesMove
<1>11. ASSUME PageOwn(w) PROVE Goal
  <2>1. PICK s : s = IF request[w].user \notin InitialOwners \/ AccountOf(request[w].user) # NoRow
                     THEN "pageRest" ELSE "pageLegacy"
    OBVIOUS
  <2>2. Goto(w, s) /\ UNCHANGED found /\ UNCHANGED tables
    BY <1>11, <2>1 DEF PageOwn
  <2>3. s \in Statements
    BY <2>1 DEF Statements, PageReads
  <2> QED
    BY <1>0, <2>2, <2>3, GotoType DEF TablesMove
<1>12. ASSUME PageLegacy(w) PROVE Goal
  <2>1. "pageRest" \in Statements
    BY DEF Statements, PageReads
  <2> QED
    BY <1>0, <1>12, <2>1 DEF PageLegacy, ThreadsOK, OthersRest, TablesMove
<1>13. ASSUME PageRest(w) PROVE Goal
  <2>1. Reply(w, status[w], found[w], offered[w], FALSE) /\ UNCHANGED tables
    BY <1>13 DEF PageRest
  <2>2. [status   |-> status[w],
         account  |-> found[w],
         canClaim |-> offered[w],
         dbError  |-> FALSE] \in Answer
    BY <1>0 DEF ThreadsOK, Answer
  <2> QED
    BY <1>0, <2>1, <2>2 DEF ThreadsOK, Reply, OthersRest, TablesMove
<1> QED
  BY <1>1, <1>2, <1>3, <1>4, <1>6, <1>7, <1>8, <1>9, <1>10, <1>11, <1>12, <1>13 DEF Statement

LEMMA MovesType ==
  ASSUME IInv, NEW w \in Workers, Moves(w)
  PROVE  ThreadsOK' /\ OthersRest(w) /\ TablesMove(w)
<1>1. ASSUME NEW u \in Users, Asked(w, u) PROVE ThreadsOK' /\ OthersRest(w) /\ TablesMove(w)
  BY <1>1, AskedType DEF IInv, TablesMove
<1>2. CASE DatabaseFails(w)
  BY <1>2, DatabaseErrorAnswers DEF IInv, DatabaseFails, Broken, Rested, TablesMove, Opening, Saving
<1>3. CASE Abort(w)
  <2>1. TablesMove(w)
    BY <1>3 DEF Abort, Broken, TablesMove, Opening, Saving
  <2>2. ThreadsOK' /\ OthersRest(w)
    BY <1>3 DEF IInv, Abort, ThreadsOK, OthersRest
  <2> QED
    BY <2>1, <2>2
<1> QED
  BY <1>1, <1>2, <1>3, StatementType DEF Moves

-----------------------------------------------------------------------------
(* The tables *)

\* How the owners move under a step of thread w.
OwnersMove(w) ==
  /\ \A a \in AccountIds : owner[a] \in Users => owner'[a] = owner[a]
  /\ NoLegacy => NoLegacy'
  /\ \A a \in AccountIds :
       owner[a] = NoOwner /\ owner'[a] # NoOwner => pc[w] = "saveOwner" /\ found[w] = a
  /\ \A a \in AccountIds :
       owner'[a] # owner[a] =>
         /\ owner'[a] = request[w].user
         /\ Accountless(owner'[a])
         /\ pc[w] = "insertOpening" \/ KeyIsFree(w)

\* A step leaves every account with one owner, its policy and its cash.
LEMMA TablesKept ==
  ASSUME IInv, NEW w \in Workers, TablesMove(w)
  PROVE  /\ OwnersMove(w)
         /\ TablesOK'
         /\ OneAccountPerUser'
         /\ OneLegacy'
         /\ AccountsSound'
<1> DEFINE Goal == /\ OwnersMove(w) /\ TablesOK' /\ OneAccountPerUser' /\ OneLegacy'
                   /\ AccountsSound'
<1>0. /\ TablesOK /\ OneAccountPerUser /\ OneLegacy /\ AccountsSound
      /\ NoOwner \notin Users /\ NoRow \notin Users /\ NoRow # NoOwner
  BY OwnershipAssumption DEF IInv
<1>1. CASE UNCHANGED tables
  BY <1>0, <1>1
  DEF tables, OwnersMove, NoLegacy, TablesOK, OneAccountPerUser, OneLegacy, AccountsSound
<1>2. CASE Opening(w)
  <2>1. PICK a \in AccountIds, u \in Users, policy \in Storable :
          Holders!Open(a, u, policy) /\ u = request[w].user
    BY <1>2, OpeningMaps
  <2>2. /\ owner[a] = NoRow
        /\ Accountless(u)
        /\ owner' = [owner EXCEPT ![a] = u]
        /\ terms' = [terms EXCEPT ![a] = policy]
        /\ openings' = [openings EXCEPT ![a] = policy.initial_cash_krw]
    BY <2>1 DEF Holders!Open, Holders!HasAccount, Accountless
  <2>3. policy \in Environments /\ policy.initial_cash_krw \in 0 .. MaxBigInt
    BY StorablePolicy
  <2>4. pc[w] = "insertOpening"
    BY <1>2 DEF Opening
  <2>5. OwnersMove(w)
    <3>1. NoLegacy => NoLegacy'
      BY <1>0, <2>2 DEF TablesOK, NoLegacy
    <3> QED
      BY <1>0, <2>1, <2>2, <2>4, <3>1 DEF OwnersMove, TablesOK
  <2>6. TablesOK'
    BY <1>0, <2>2, <2>3 DEF TablesOK
  <2>7. OneAccountPerUser' /\ OneLegacy'
    BY <1>0, <2>2 DEF TablesOK, OneAccountPerUser, OneLegacy, Accountless
  <2>8. AccountsSound'
    BY <1>0, <2>2 DEF TablesOK, AccountsSound
  <2> QED
    BY <2>5, <2>6, <2>7, <2>8
<1>3. CASE Saving(w)
  <2>1. PICK a \in AccountIds, u \in Users :
          Holders!Claim(a, u) /\ u = request[w].user /\ a = found[w]
    BY <1>3, SavingMaps
  <2>2. /\ owner[a] = NoOwner
        /\ Accountless(u)
        /\ owner' = [owner EXCEPT ![a] = u]
        /\ UNCHANGED <<terms, openings>>
    BY <2>1 DEF Holders!Claim, Holders!HasAccount, Accountless
  <2>3. pc[w] = "saveOwner" /\ KeyIsFree(w)
    BY <1>3 DEF Saving
  <2>4. OwnersMove(w)
    <3>1. NoLegacy => NoLegacy'
      BY <1>0, <2>2 DEF TablesOK, NoLegacy
    <3> QED
      BY <1>0, <2>1, <2>2, <2>3, <3>1 DEF OwnersMove, TablesOK
  <2>5. TablesOK' /\ OneAccountPerUser' /\ OneLegacy' /\ AccountsSound'
    BY <1>0, <2>2 DEF TablesOK, OneAccountPerUser, OneLegacy, AccountsSound, Accountless
  <2> QED
    BY <2>4, <2>5
<1> QED
  BY <1>1, <1>2, <1>3 DEF TablesMove

-----------------------------------------------------------------------------
(* The other threads *)

\* Once there is nothing to claim, or the user has an account, it stays so.
LEMMA SettledStays ==
  ASSUME IInv, NEW w \in Workers, OwnersMove(w),
         NEW v \in Workers, request[v] \in Request, request'[v] = request[v],
         NoLegacy \/ ~Accountless(request[v].user)
  PROVE  (NoLegacy \/ ~Accountless(request[v].user))'
<1>1. CASE NoLegacy
  BY <1>1 DEF OwnersMove
<1>2. CASE ~Accountless(request[v].user)
  <2>1. PICK a \in AccountIds : owner[a] = request[v].user
    BY <1>2 DEF Accountless
  <2>2. owner'[a] = request'[v].user
    BY <2>1 DEF OwnersMove, Request
  <2> QED
    BY <2>2 DEF Accountless
<1> QED
  BY <1>1, <1>2

\* What a thread relies on, no step of another one takes away.
LEMMA OthersKeep ==
  ASSUME IInv, NEW w \in Workers, OthersRest(w), OwnersMove(w), NEW v \in Workers \ {w}
  PROVE  Reason(v)' /\ Rights(v)' /\ AnswerHolds(v)'
<1>1. /\ Reason(v) /\ Rights(v) /\ AnswerHolds(v) /\ ThreadsOK
      /\ NoOwner \notin Users /\ NoRow \notin Users /\ NoRow # NoOwner
  BY OwnershipAssumption DEF IInv
<1>2. /\ pc'[v] = pc[v]
      /\ request'[v] = request[v]
      /\ found'[v] = found[v]
      /\ status'[v] = status[v]
      /\ offered'[v] = offered[v]
      /\ answer'[v] = answer[v]
      /\ Current' = Current
  BY DEF OthersRest, Current
<1>3. Reason(v)'
  BY <1>1, <1>2 DEF Reason
<1>4. ASSUME NEW a \in AccountIds, owner[a] = request[v].user,
             pc[v] # "idle" \/ answer[v] # NoAnswer
      PROVE  owner'[a] = request[v].user
  <2>1. request[v].user \in Users
    BY <1>1, <1>4 DEF Reason, Request
  <2> QED
    BY <1>4, <2>1 DEF OwnersMove
<1>5. Rights(v)'
  <2>1. ASSUME found[v] # NoRow, pc[v] # "saveOwner" PROVE owner'[found[v]] = request[v].user
    <3>1. found[v] \in AccountIds /\ pc[v] # "idle" /\ owner[found[v]] = request[v].user
      BY <1>1, <2>1 DEF Rights, ThreadsOK
    <3> QED
      BY <1>4, <3>1
  <2>2. ASSUME pc[v] = "saveOwner" PROVE owner'[found[v]] = NoOwner
    <3>1. found[v] \in AccountIds /\ owner[found[v]] = NoOwner
      BY <1>1, <2>2 DEF Rights, ThreadsOK
    <3>2. ~ (pc[w] = "saveOwner" /\ found[w] = found[v])
      BY <2>2 DEF IInv, RowsLockedAlone
    <3> QED
      BY <3>1, <3>2 DEF OwnersMove
  <2>3. ASSUME pc[v] = "insertOpening" PROVE Accountless(request[v].user)'
    <3>1. Accountless(request[v].user)
      BY <1>1, <2>3 DEF Rights
    <3>2. ~ (request[w].user = request[v].user /\ (pc[w] = "insertOpening" \/ KeyIsFree(w)))
      BY <2>3 DEF IInv, KeysHeldAlone, KeyIsFree, HoldsKey
    <3>3. \A a \in AccountIds : owner'[a] # request[v].user
      BY <3>1, <3>2 DEF OwnersMove, Accountless
    <3> QED
      BY <1>2, <3>3 DEF Accountless
  <2>4. ASSUME pc[v] = "getAgain" PROVE ~Accountless(request[v].user)'
    <3>1. PICK a \in AccountIds : owner[a] = request[v].user
      BY <1>1, <2>4 DEF Rights, Accountless
    <3>2. owner'[a] = request[v].user
      BY <1>4, <2>4, <3>1
    <3> QED
      BY <1>2, <3>2 DEF Accountless
  <2>5. ASSUME pc[v] \in PageReads, status[v] = 404 PROVE NoLegacy'
    BY <1>1, <2>5 DEF Rights, OwnersMove
  <2>6. ASSUME pc[v] = "pageRest", found[v] = NoRow, ~offered[v], request[v].user \in InitialOwners
        PROVE  (NoLegacy \/ ~Accountless(request[v].user))'
    BY <1>1, <1>2, <2>6, SettledStays DEF Rights, Reason
  <2> QED
    BY <1>1, <1>2, <2>1, <2>2, <2>3, <2>4, <2>5, <2>6 DEF Rights
<1>6. AnswerHolds(v)'
  <2>1. ASSUME answer[v] # NoAnswer, answer[v].account # NoRow
        PROVE  owner'[answer[v].account] = request[v].user
    <3>1. answer[v].account \in AccountIds
      BY <1>1, <2>1 DEF ThreadsOK, Answer
    <3>2. owner[answer[v].account] = request[v].user
      BY <1>1, <2>1 DEF AnswerHolds
    <3> QED
      BY <1>4, <2>1, <3>1, <3>2
  <2>2. ASSUME answer[v] # NoAnswer, ShowsPage(v), ~answer[v].dbError, answer[v].account = NoRow,
               ~answer[v].canClaim, request[v].user \in InitialOwners
        PROVE  (NoLegacy \/ ~Accountless(request[v].user))'
    BY <1>1, <1>2, <2>2, SettledStays DEF AnswerHolds, Reason
  <2>3. ShowsPage(v)' <=> ShowsPage(v)
    BY <1>2 DEF ShowsPage
  <2> QED
    BY <1>1, <1>2, <2>1, <2>2, <2>3 DEF AnswerHolds, OwnersMove
<1> QED
  BY <1>3, <1>5, <1>6

-----------------------------------------------------------------------------
(* The thread that moves *)

MoverKeeps(w) ==
  /\ Reason(w)'
  /\ Rights(w)'
  /\ AnswerHolds(w)'
  /\ pc'[w] = "insertOpening" => KeyIsFree(w) /\ UNCHANGED request
  /\ pc'[w] = "saveOwner" =>
       \A v \in Workers \ {w} : ~ (pc[v] = "saveOwner" /\ found[v] = found'[w])

\* A thread that has replied relies on nothing but its answer.
LEMMA RestedKeeps ==
  ASSUME IInv, NEW w \in Workers, pc[w] # "idle", Rested(w), AnswerHolds(w)'
  PROVE  MoverKeeps(w)
<1>1. request[w] \in Request
  BY DEF IInv, Reason
<1>2. Reason(w)'
  BY <1>1 DEF Reason, Rested, Initializing, Claiming, PageReads
<1>3. Rights(w)'
  BY DEF Rights, Rested, PageReads
<1> QED
  BY <1>2, <1>3 DEF MoverKeeps, Rested

\* A plain reply holds if what it shows is the user's, and if it is allowed to show nothing.
LEMMA PlainReplyKeeps ==
  ASSUME IInv, NEW w \in Workers, pc[w] # "idle", NEW code, NEW account,
         PlainReply(w, code, account),
         account # NoRow => owner'[account] = request[w].user,
         code \in {200, 303} => account # NoRow,
         code = 404 => request[w].kind = "get",
         request[w].kind \in Forms => code = 303,
         pc[w] \notin PageReads
  PROVE  MoverKeeps(w)
<1>0. request[w].kind \notin Pages
  BY DEF IInv, ThreadsOK, Reason, Statements, Initializing, Claiming, Pages
<1>1. /\ Rested(w)
      /\ answer'[w] = [status   |-> code,
                       account  |-> account,
                       canClaim |-> FALSE,
                       dbError  |-> FALSE]
  BY DEF IInv, ThreadsOK, PlainReply, Reply, Rested, OthersRest
<1>2. ~ShowsPage(w)'
  BY <1>0, <1>1 DEF ShowsPage, Rested
<1>3. AnswerHolds(w)'
  BY <1>1, <1>2 DEF AnswerHolds, Rested
<1> QED
  BY <1>1, <1>3, RestedKeeps

LEMMA SucceedKeeps ==
  ASSUME IInv, NEW w \in Workers, pc[w] \notin PageReads \cup {"idle"},
         NEW account, account # NoRow,
         Succeed(w, account), owner'[account] = request[w].user
  PROVE  MoverKeeps(w)
<1>1. PICK code \in {200, 303} : code = IF request[w].kind \in Forms THEN 303 ELSE 200
  OBVIOUS
<1>2. PlainReply(w, code, account)
  BY <1>1 DEF Succeed, PlainReply
<1> QED
  BY <1>1, <1>2, PlainReplyKeeps

LEMMA DatabaseErrorKeeps ==
  ASSUME IInv, NEW w \in Workers, pc[w] # "idle", DatabaseError(w), OwnersMove(w)
  PROVE  MoverKeeps(w)
<1>1. ThreadsOK /\ Reason(w) /\ Rights(w)
  BY DEF IInv
<1>2. /\ Rested(w)
      /\ answer'[w].dbError
      /\ answer'[w].account # NoRow =>
           pc[w] = "pageRest" /\ answer'[w].account = found[w]
      /\ answer'[w].canClaim => pc[w] \in PageReads /\ offered[w]
      /\ IF pc[w] \in PageReads THEN answer'[w].status \in {503, status[w]}
         ELSE answer'[w].status \in {500, 503}
  BY <1>1, DatabaseErrorAnswers
<1>3. request'[w] = request[w] /\ request[w].user \in Users
  BY <1>1, <1>2 DEF Rested, Reason, Request
<1>4. answer'[w].account # NoRow => owner'[answer'[w].account] = request[w].user
  <2> HAVE answer'[w].account # NoRow
  <2>1. /\ answer'[w].account = found[w] /\ found[w] \in AccountIds
        /\ owner[found[w]] = request[w].user
    BY <1>1, <1>2 DEF Rights, ThreadsOK
  <2> QED
    BY <1>3, <2>1 DEF OwnersMove
<1>5. answer'[w].canClaim => answer'[w].account = NoRow /\ request[w].user \in InitialOwners
  BY <1>1, <1>2 DEF Reason, Rights
<1>6. /\ request[w].kind \notin Pages => answer'[w].status \notin {200, 303}
      /\ answer'[w].status = 404 => request[w].kind = "claim"
  BY <1>1, <1>2 DEF Reason, ThreadsOK
<1>7. answer'[w].status = 404 => NoLegacy'
  BY <1>1, <1>2 DEF Rights, OwnersMove
<1>8. AnswerHolds(w)'
  BY <1>2, <1>3, <1>4, <1>5, <1>6, <1>7 DEF AnswerHolds
<1> QED
  BY <1>2, <1>8, RestedKeeps

\* A thread that goes on has not answered.
LEMMA AnswerKept ==
  ASSUME IInv, NEW w \in Workers, pc[w] # "idle", answer'[w] = answer[w]
  PROVE  AnswerHolds(w)'
BY DEF IInv, Reason, AnswerHolds

\* The accounts a user has, he keeps.
LEMMA OwnKept ==
  ASSUME IInv, NEW w \in Workers, OwnersMove(w), pc[w] # "idle",
         NEW a \in AccountIds, owner[a] = request[w].user
  PROVE  owner'[a] = request[w].user
<1>1. request[w].user \in Users
  BY DEF IInv, Reason, Request
<1> QED
  BY <1>1 DEF OwnersMove

\* What a thread that goes on relies on.
LEMMA GotoKeeps ==
  ASSUME IInv, NEW w \in Workers, NEW s \in Statements, Goto(w, s), OwnersMove(w),
         pc[w] # "idle", Reason(w)', Rights(w)',
         s = "insertOpening" => KeyIsFree(w),
         s = "saveOwner" =>
           \A v \in Workers \ {w} : ~ (pc[v] = "saveOwner" /\ found[v] = found'[w])
  PROVE  MoverKeeps(w)
<1>1. /\ pc'[w] = s /\ UNCHANGED request /\ UNCHANGED settings
      /\ answer'[w] = answer[w]
  BY DEF IInv, ThreadsOK, Goto
<1>2. AnswerHolds(w)'
  BY <1>1, AnswerKept
<1> QED
  BY <1>1, <1>2 DEF MoverKeeps

LEMMA GetAccountKeeps ==
  ASSUME IInv, NEW w \in Workers, GetAccount(w), OwnersMove(w)
  PROVE  MoverKeeps(w)
<1>0. ThreadsOK /\ Reason(w) /\ Rights(w) /\ pc[w] = "getAccount"
  BY DEF IInv, GetAccount
<1>1. PICK account : account = AccountOf(request[w].user)
  OBVIOUS
<1>2. CASE account # NoRow
  <2>1. found' = [found EXCEPT ![w] = account] /\ Goto(w, "readCash")
    BY <1>1, <1>2, Zenon DEF GetAccount
  <2>2. account \in AccountIds /\ owner[account] = request[w].user
    BY <1>1, <1>2, AccountFound
  <2>3. owner'[account] = request[w].user
    BY <1>0, <2>2, OwnKept
  <2>4. Reason(w)'
    BY <1>0, <2>1 DEF ThreadsOK, Goto, page, Reason, Initializing, Claiming, PageReads
  <2>5. Rights(w)'
    BY <1>0, <1>2, <2>1, <2>3 DEF ThreadsOK, Goto, page, Rights, Reason
  <2>6. "readCash" \in Statements
    BY DEF Statements
  <2> QED
    BY <1>0, <2>1, <2>4, <2>5, <2>6, GotoKeeps
<1>3. CASE account = NoRow /\ request[w].kind = "get"
  <2>1. PlainReply(w, 404, NoRow)
    BY <1>1, <1>3 DEF GetAccount, ApiError, Forms, PlainReply
  <2> QED
    BY <1>0, <1>3, <2>1, PlainReplyKeeps DEF PageReads, Forms
<1>4. CASE account = NoRow /\ request[w].kind # "get"
  <2>1. Goto(w, "insertAccount") /\ UNCHANGED found
    BY <1>1, <1>4 DEF GetAccount
  <2>2. Current' = Current
    BY <2>1 DEF Goto, Current
  <2>3. Reason(w)'
    BY <1>0, <1>4, <2>1, <2>2 DEF ThreadsOK, Goto, page, Reason, Initializing, Claiming, PageReads
  <2>4. found[w] = NoRow
    <3>1. \A a \in AccountIds : owner[a] # request[w].user
      BY <1>1, <1>4, AccountFound
    <3>2. found[w] # NoRow => owner[found[w]] = request[w].user
      BY <1>0 DEF Rights
    <3> QED
      BY <1>0, <3>1, <3>2 DEF ThreadsOK
  <2>5. Rights(w)'
    BY <1>0, <2>1, <2>4 DEF ThreadsOK, Goto, page, Rights, Reason
  <2>6. "insertAccount" \in Statements
    BY DEF Statements
  <2> QED
    BY <1>0, <2>1, <2>3, <2>5, <2>6, GotoKeeps
<1> QED
  BY <1>2, <1>3, <1>4

LEMMA InsertAccountKeeps ==
  ASSUME IInv, NEW w \in Workers, InsertAccount(w), OwnersMove(w)
  PROVE  MoverKeeps(w)
<1>0. /\ ThreadsOK /\ Reason(w) /\ Rights(w) /\ pc[w] = "insertAccount"
  BY DEF IInv, InsertAccount
<1>1. CASE DatabaseError(w)
  BY <1>0, <1>1, DatabaseErrorKeeps
<1>2. CASE ~DatabaseError(w)
  <2>1. /\ Fits(Current) /\ KeyIsFree(w) /\ UNCHANGED found /\ UNCHANGED tables
        /\ Goto(w, IF AccountOf(request[w].user) = NoRow THEN "insertOpening" ELSE "getAgain")
    BY <1>2 DEF InsertAccount, Current
  <2>2. Current \in Storable /\ UNCHANGED settings /\ Current' = Current
    BY <1>0, <2>1, LoadedPolicy DEF ThreadsOK, Reason, Initializing, Current, Goto
  <2>3. PICK s \in {"insertOpening", "getAgain"} :
          s = IF AccountOf(request[w].user) = NoRow THEN "insertOpening" ELSE "getAgain"
    OBVIOUS
  <2>4. Goto(w, s)
    BY <2>1, <2>3
  <2>5. Reason(w)'
    BY <1>0, <2>2, <2>4 DEF ThreadsOK, Goto, page, Reason, Initializing, Claiming, PageReads
  <2>6. /\ s = "insertOpening" => Accountless(request[w].user)
        /\ s = "getAgain" => ~Accountless(request[w].user)
    BY <2>3, AccountFound DEF Accountless
  <2>7. request'[w] = request[w] /\ owner' = owner /\ pc'[w] = s /\ offered'[w] = offered[w]
    BY <1>0, <2>1, <2>4 DEF Goto, tables, page, ThreadsOK
  <2>8. Accountless(request[w].user)' <=> Accountless(request[w].user)
    BY <2>7 DEF Accountless
  <2>9. Rights(w)'
    BY <1>0, <2>1, <2>2, <2>6, <2>7, <2>8 DEF Rights, Reason, PageReads
  <2>10. s \in Statements
    BY DEF Statements
  <2> QED
    BY <1>0, <2>1, <2>4, <2>5, <2>9, <2>10, GotoKeeps
<1> QED
  BY <1>1, <1>2

LEMMA InsertOpeningKeeps ==
  ASSUME IInv, NEW w \in Workers, InsertOpening(w), OwnersMove(w)
  PROVE  MoverKeeps(w)
<1>0. /\ ThreadsOK /\ Reason(w) /\ Rights(w) /\ pc[w] = "insertOpening" /\ Opening(w)
  BY DEF IInv, InsertOpening, Opening
<1>1. PICK a \in AccountIds :
        /\ Holders!Open(a, request[w].user, Current)
        /\ found' = [found EXCEPT ![w] = a]
        /\ Goto(w, "readCash")
  BY <1>0, OpeningMaps DEF InsertOpening
<1>2. owner'[a] = request[w].user
  BY <1>1 DEF Holders!Open, IInv, TablesOK
<1>3. Reason(w)'
  BY <1>0, <1>1 DEF ThreadsOK, Goto, page, Reason, Initializing, Claiming, PageReads
<1>4. Rights(w)'
  BY <1>0, <1>1, <1>2, OwnershipAssumption DEF ThreadsOK, Goto, page, Rights, Reason, PageReads
<1>5. "readCash" \in Statements
  BY DEF Statements
<1> QED
  BY <1>0, <1>1, <1>3, <1>4, <1>5, GotoKeeps

LEMMA GetAgainKeeps ==
  ASSUME IInv, NEW w \in Workers, GetAgain(w), OwnersMove(w)
  PROVE  MoverKeeps(w)
<1>0. /\ ThreadsOK /\ Reason(w) /\ Rights(w) /\ pc[w] = "getAgain"
  BY DEF IInv, GetAgain
<1>1. PICK a \in AccountIds : a = AccountOf(request[w].user) /\ owner[a] = request[w].user
  BY <1>0, AccountFound DEF Rights, Accountless
<1>2. found' = [found EXCEPT ![w] = a] /\ Goto(w, "readCash")
  BY <1>1, OwnershipAssumption DEF GetAgain
<1>3. owner'[a] = request[w].user
  BY <1>0, <1>1, OwnKept
<1>4. Reason(w)'
  BY <1>0, <1>2 DEF ThreadsOK, Goto, page, Reason, Initializing, Claiming, PageReads
<1>5. Rights(w)'
  BY <1>0, <1>2, <1>3, OwnershipAssumption DEF ThreadsOK, Goto, page, Rights, Reason, PageReads
<1>6. "readCash" \in Statements
  BY DEF Statements
<1> QED
  BY <1>0, <1>2, <1>4, <1>5, <1>6, GotoKeeps

LEMMA ReadCashKeeps ==
  ASSUME IInv, NEW w \in Workers, ReadCash(w), OwnersMove(w)
  PROVE  MoverKeeps(w)
<1>0. /\ ThreadsOK /\ Rights(w) /\ pc[w] = "readCash" /\ Succeed(w, found[w])
  BY DEF IInv, ReadCash
<1>1. found[w] \in AccountIds /\ found[w] # NoRow /\ owner[found[w]] = request[w].user
  BY <1>0 DEF Rights, ThreadsOK
<1>2. owner'[found[w]] = request[w].user
  BY <1>0, <1>1, OwnKept
<1> QED
  BY <1>0, <1>1, <1>2, SucceedKeeps DEF PageReads

LEMMA LockExistingKeeps ==
  ASSUME IInv, NEW w \in Workers, LockExisting(w), OwnersMove(w)
  PROVE  MoverKeeps(w)
<1>0. ThreadsOK /\ Reason(w) /\ Rights(w) /\ pc[w] = "lockExisting"
  BY DEF IInv, LockExisting
<1>1. PICK account : account = AccountOf(request[w].user)
  OBVIOUS
<1>2. CASE account # NoRow
  <2>1. Succeed(w, account)
    BY <1>1, <1>2 DEF LockExisting
  <2>2. account \in AccountIds /\ owner[account] = request[w].user
    BY <1>1, <1>2, AccountFound
  <2>3. owner'[account] = request[w].user
    BY <1>0, <2>2, OwnKept
  <2> QED
    BY <1>0, <1>2, <2>1, <2>3, SucceedKeeps DEF PageReads
<1>3. CASE account = NoRow
  <2>1. Goto(w, "lockLegacy") /\ UNCHANGED <<found, tables>>
    BY <1>1, <1>3 DEF LockExisting
  <2>2. Reason(w)'
    BY <1>0, <2>1 DEF ThreadsOK, Goto, page, Reason, Initializing, Claiming, PageReads
  <2>3. Rights(w)'
    BY <1>0, <2>1 DEF ThreadsOK, Goto, page, tables, Rights, Reason, PageReads
  <2>4. "lockLegacy" \in Statements
    BY DEF Statements
  <2> QED
    BY <1>0, <2>1, <2>2, <2>3, <2>4, GotoKeeps
<1> QED
  BY <1>2, <1>3

\* The row that is locked is no other claim's, and has no owner.
LEMMA LockLegacyKeeps ==
  ASSUME IInv, NEW w \in Workers, LockLegacy(w), OwnersMove(w)
  PROVE  MoverKeeps(w)
<1>0. /\ ThreadsOK /\ Reason(w) /\ Rights(w) /\ pc[w] = "lockLegacy"
      /\ UNCHANGED tables
      /\ request[w].kind = "claim"
  BY DEF IInv, LockLegacy, Reason, Claiming
<1>1. CASE LegacyAccount = NoRow
  <2>1. /\ pc' = [pc EXCEPT ![w] = "pageAccount"]
        /\ status' = [status EXCEPT ![w] = 404]
        /\ UNCHANGED <<settings, request, found, offered, answer>>
    BY <1>0, <1>1 DEF LockLegacy, ApiError, Forms
  <2>2. Reason(w)'
    BY <1>0, <2>1 DEF ThreadsOK, Reason, Initializing, Claiming, PageReads, Forms
  <2>3. Rights(w)'
    <3>1. NoLegacy'
      BY <1>1, LegacyFound DEF OwnersMove
    <3> QED
      BY <1>0, <2>1, <3>1 DEF ThreadsOK, tables, Rights, Reason
  <2>4. AnswerHolds(w)'
    BY <1>0, <2>1, AnswerKept
  <2> QED
    BY <1>0, <2>1, <2>2, <2>3, <2>4 DEF MoverKeeps, ThreadsOK
<1>2. CASE LegacyAccount # NoRow
  <2>1. PICK a \in AccountIds : a = LegacyAccount /\ owner[a] = NoOwner
    BY <1>2, LegacyFound
  <2>2. found' = [found EXCEPT ![w] = a] /\ Goto(w, "saveOwner")
    BY <1>2, <2>1 DEF LockLegacy
  <2>3. \A v \in Workers \ {w} : ~ (pc[v] = "saveOwner" /\ found[v] = a)
    BY <2>1 DEF LockLegacy
  <2>4. Reason(w)'
    BY <1>0, <2>2 DEF ThreadsOK, Goto, page, Reason, Initializing, Claiming, PageReads
  <2>5. Rights(w)'
    BY <1>0, <2>1, <2>2, OwnershipAssumption
    DEF ThreadsOK, Goto, page, tables, Rights, Reason, PageReads
  <2>6. found'[w] = a /\ "saveOwner" \in Statements
    BY <1>0, <2>2 DEF ThreadsOK, Statements
  <2> QED
    BY <1>0, <2>2, <2>3, <2>4, <2>5, <2>6, GotoKeeps
<1> QED
  BY <1>1, <1>2

LEMMA SaveOwnerKeeps ==
  ASSUME IInv, NEW w \in Workers, SaveOwner(w), OwnersMove(w)
  PROVE  MoverKeeps(w)
<1>0. ThreadsOK /\ Rights(w) /\ pc[w] = "saveOwner"
  BY DEF IInv, SaveOwner
<1>1. CASE Saved(w) /\ Succeed(w, found[w])
  <2>1. found[w] \in AccountIds /\ found[w] # NoRow
    BY <1>0 DEF Rights, ThreadsOK
  <2>2. owner'[found[w]] = request[w].user
    BY <1>1, <2>1 DEF Saved, IInv, TablesOK
  <2> QED
    BY <1>0, <1>1, <2>1, <2>2, SucceedKeeps DEF PageReads
<1>2. CASE DatabaseError(w)
  BY <1>0, <1>2, DatabaseErrorKeeps
<1> QED
  BY <1>1, <1>2 DEF SaveOwner

LEMMA PageAccountKeeps ==
  ASSUME IInv, NEW w \in Workers, PageAccount(w), OwnersMove(w)
  PROVE  MoverKeeps(w)
<1>0. ThreadsOK /\ Reason(w) /\ Rights(w) /\ pc[w] = "pageAccount" /\ UNCHANGED tables
  BY DEF IInv, PageAccount
<1>1. PICK account : account = AccountOf(request[w].user)
  OBVIOUS
<1>2. found' = [found EXCEPT ![w] = account] /\ Goto(w, "pageOwn")
  BY <1>1 DEF PageAccount
<1>3. account # NoRow => owner[account] = request[w].user
  BY <1>1, AccountFound
<1>4. Reason(w)'
  BY <1>0, <1>2 DEF ThreadsOK, Goto, page, Reason, Initializing, Claiming, PageReads
<1>5. Rights(w)'
  BY <1>0, <1>2, <1>3 DEF ThreadsOK, Goto, page, tables, Rights, Reason, NoLegacy, PageReads
<1>6. "pageOwn" \in Statements
  BY DEF Statements, PageReads
<1> QED
  BY <1>0, <1>2, <1>4, <1>5, <1>6, GotoKeeps

\* can_claim_legacy finds no account only if the page has found none before.
LEMMA PageOwnKeeps ==
  ASSUME IInv, NEW w \in Workers, PageOwn(w), OwnersMove(w)
  PROVE  MoverKeeps(w)
<1>0. ThreadsOK /\ Reason(w) /\ Rights(w) /\ pc[w] = "pageOwn" /\ UNCHANGED <<tables, found>>
  BY DEF IInv, PageOwn
<1>1. PICK s \in {"pageRest", "pageLegacy"} :
        s = IF request[w].user \notin InitialOwners \/ AccountOf(request[w].user) # NoRow
            THEN "pageRest" ELSE "pageLegacy"
  OBVIOUS
<1>2. Goto(w, s)
  BY <1>1 DEF PageOwn
<1>3. s = "pageLegacy" => request[w].user \in InitialOwners /\ found[w] = NoRow
  <2> HAVE s = "pageLegacy"
  <2>1. request[w].user \in InitialOwners /\ AccountOf(request[w].user) = NoRow
    BY <1>1
  <2>2. \A a \in AccountIds : owner[a] # request[w].user
    BY <2>1, AccountFound
  <2>3. found[w] # NoRow => owner[found[w]] = request[w].user
    BY <1>0 DEF Rights
  <2> QED
    BY <1>0, <2>1, <2>2, <2>3 DEF ThreadsOK
<1>4. Reason(w)'
  BY <1>0, <1>2, <1>3 DEF ThreadsOK, Goto, page, Reason, Initializing, Claiming, PageReads
<1>5. Rights(w)'
  <2>1. s = "pageRest" /\ request[w].user \in InitialOwners => ~Accountless(request[w].user)
    BY <1>1, AccountFound DEF Accountless
  <2>2. /\ Accountless(request[w].user)' <=> Accountless(request[w].user)
        /\ NoLegacy' <=> NoLegacy
    BY <1>0, <1>2 DEF Goto, tables, Accountless, NoLegacy
  <2> QED
    BY <1>0, <1>2, <1>3, <2>1, <2>2
    DEF ThreadsOK, Goto, page, tables, Rights, Reason, PageReads
<1>6. s \in Statements
  BY DEF Statements, PageReads
<1> QED
  BY <1>0, <1>2, <1>4, <1>5, <1>6, GotoKeeps

LEMMA PageLegacyKeeps ==
  ASSUME IInv, NEW w \in Workers, PageLegacy(w), OwnersMove(w)
  PROVE  MoverKeeps(w)
<1>0. /\ ThreadsOK /\ Reason(w) /\ Rights(w) /\ pc[w] = "pageLegacy"
      /\ pc' = [pc EXCEPT ![w] = "pageRest"]
      /\ offered' = [offered EXCEPT ![w] = LegacyAccount # NoRow]
      /\ UNCHANGED <<owner, terms, openings, settings, request, found, status, answer>>
  BY DEF IInv, PageLegacy, tables
<1>1. Reason(w)'
  BY <1>0 DEF ThreadsOK, Reason, Initializing, Claiming, PageReads
<1>2. Rights(w)'
  <2>1. ~offered'[w] => NoLegacy
    <3>1. PICK claimable \in BOOLEAN : claimable <=> LegacyAccount # NoRow
      OBVIOUS
    <3>2. offered' = [offered EXCEPT ![w] = claimable]
      BY <1>0, <3>1
    <3>3. offered'[w] = claimable
      BY <1>0, <3>2 DEF ThreadsOK
    <3> QED
      BY <3>1, <3>3, LegacyFound
  <2>2. NoLegacy' <=> NoLegacy
    BY <1>0 DEF NoLegacy
  <2> QED
    BY <1>0, <2>1, <2>2 DEF ThreadsOK, Rights, Reason, PageReads
<1>3. AnswerHolds(w)'
  BY <1>0, AnswerKept
<1> QED
  BY <1>0, <1>1, <1>2, <1>3 DEF MoverKeeps, ThreadsOK

LEMMA PageRestKeeps ==
  ASSUME IInv, NEW w \in Workers, PageRest(w), OwnersMove(w)
  PROVE  MoverKeeps(w)
<1>0. ThreadsOK /\ Reason(w) /\ Rights(w) /\ pc[w] = "pageRest" /\ UNCHANGED tables
  BY DEF IInv, PageRest
<1>1. Reply(w, status[w], found[w], offered[w], FALSE)
  BY DEF PageRest
<1>2. /\ Rested(w)
      /\ answer'[w].account = found[w]
      /\ answer'[w].status = status[w]
      /\ answer'[w].canClaim = offered[w]
  BY <1>0, <1>1 DEF ThreadsOK, Reply, Rested, OthersRest
<1>3. /\ found[w] # NoRow => owner[found[w]] = request[w].user
      /\ request[w].kind \notin Pages => status[w] \notin {200, 303}
      /\ status[w] = 404 => request[w].kind = "claim" /\ NoLegacy
      /\ offered[w] => found[w] = NoRow /\ request[w].user \in InitialOwners
      /\ found[w] = NoRow /\ ~offered[w] /\ request[w].user \in InitialOwners
           => NoLegacy \/ ~Accountless(request[w].user)
  BY <1>0 DEF Rights, Reason, ThreadsOK, PageReads
<1>4. /\ request'[w] = request[w] /\ owner' = owner
      /\ NoLegacy' <=> NoLegacy
      /\ Accountless(request[w].user)' <=> Accountless(request[w].user)
  BY <1>0, <1>2 DEF Rested, OthersRest, tables, NoLegacy, Accountless
<1>5. AnswerHolds(w)'
  BY <1>2, <1>3, <1>4 DEF AnswerHolds
<1> QED
  BY <1>0, <1>2, <1>5, RestedKeeps

LEMMA StatementKeeps ==
  ASSUME IInv, NEW w \in Workers, Statement(w), OwnersMove(w)
  PROVE  MoverKeeps(w)
BY GetAccountKeeps, InsertAccountKeeps, InsertOpeningKeeps, GetAgainKeeps, ReadCashKeeps,
   LockExistingKeeps, LockLegacyKeeps, SaveOwnerKeeps, PageAccountKeeps, PageOwnKeeps,
   PageLegacyKeeps, PageRestKeeps DEF Statement

\* A request that arrives finds its thread with nothing in its hands.
LEMMA BeginKeeps ==
  ASSUME IInv, NEW w \in Workers, NEW u \in Users, NEW kind \in Kinds,
         NEW statement \in {"getAccount", "lockExisting", "pageAccount"},
         NEW code \in {200, 403, 500},
         Begin(w, u, kind, statement, code),
         statement = "getAccount" =>
           /\ kind \in {"initialize", "setupInitialize", "get"}
           /\ Current # NoPolicy \/ kind = "get",
         statement = "lockExisting" => kind = "claim" /\ u \in InitialOwners,
         statement = "pageAccount" =>
           /\ kind \in Pages \cup Forms
           /\ code = 200 => kind \in Pages,
         statement # "pageAccount" => code = 200
  PROVE  MoverKeeps(w)
<1>0. /\ ThreadsOK /\ Reason(w) /\ Rights(w) /\ pc[w] = "idle"
      /\ found[w] = NoRow /\ offered[w] = FALSE
  BY DEF IInv, Begin, Rights, Reason, ThreadsOK
<1>1. /\ request'[w] = [user |-> u, kind |-> kind]
      /\ request'[w].user = u
      /\ request'[w].kind = kind
      /\ request'[w] \in Request
      /\ pc'[w] = statement
      /\ status'[w] = code
      /\ answer'[w] = NoAnswer
      /\ found'[w] = NoRow
      /\ offered'[w] = FALSE
      /\ UNCHANGED settings
  BY <1>0 DEF ThreadsOK, Begin, page, Request
<1>2. Current' = Current
  BY <1>1 DEF Current
<1>3. Reason(w)'
  BY <1>1, <1>2 DEF Reason, Initializing, Claiming, PageReads
<1>4. Rights(w)'
  BY <1>1 DEF Rights, PageReads
<1>5. AnswerHolds(w)'
  BY <1>1 DEF AnswerHolds
<1> QED
  BY <1>1, <1>3, <1>4, <1>5 DEF MoverKeeps

LEMMA AskedKeeps ==
  ASSUME IInv, NEW w \in Workers, NEW u \in Users, Asked(w, u)
  PROVE  MoverKeeps(w)
<1>1. ASSUME NEW kind \in {"initialize", "setupInitialize"}, Initialize(w, u, kind)
      PROVE  MoverKeeps(w)
  <2>1. Begin(w, u, kind, "getAccount", 200) /\ Current # NoPolicy /\ kind \in Kinds
    BY <1>1 DEF Initialize, Current, Kinds, Forms
  <2> QED
    BY <2>1, BeginKeeps
<1>2. ASSUME NEW kind \in {"initialize", "setupInitialize"},
             InitializeWithoutPolicy(w, u, kind)
      PROVE  MoverKeeps(w)
  <2>1. CASE kind = "setupInitialize"
    <3>1. Begin(w, u, kind, "pageAccount", 500) /\ kind \in Kinds /\ kind \in Forms
      BY <1>2, <2>1 DEF InitializeWithoutPolicy, Kinds, Forms
    <3> QED
      BY <3>1, BeginKeeps
  <2>2. CASE kind = "initialize"
    <3>0. /\ ThreadsOK /\ Reason(w) /\ Rights(w) /\ pc[w] = "idle"
          /\ status[w] = 200 /\ found[w] = NoRow /\ offered[w] = FALSE
      BY <1>2, <2>2 DEF IInv, InitializeWithoutPolicy, Rights, Reason, ThreadsOK, PageReads
    <3>1. /\ request' = [request EXCEPT ![w] = [user |-> u, kind |-> kind]]
          /\ answer' = [answer EXCEPT ![w] = [status   |-> 500,
                                             account  |-> NoRow,
                                             canClaim |-> FALSE,
                                             dbError  |-> FALSE]]
          /\ UNCHANGED <<tables, settings, pc, found, page>>
      BY <1>2, <2>2, Zenon DEF InitializeWithoutPolicy
    <3>2. /\ request'[w] \in Request
          /\ pc'[w] = "idle" /\ status'[w] = 200 /\ found'[w] = NoRow /\ offered'[w] = FALSE
          /\ answer'[w] = [status   |-> 500,
                           account  |-> NoRow,
                           canClaim |-> FALSE,
                           dbError  |-> FALSE]
      BY <2>2, <3>0, <3>1 DEF ThreadsOK, Request, Kinds, page
    <3>3. Reason(w)'
      BY <3>2 DEF Reason, Initializing, Claiming, PageReads
    <3>4. Rights(w)'
      BY <3>2 DEF Rights, PageReads
    <3>5. AnswerHolds(w)'
      <4>1. request'[w].kind = "initialize"
        BY <2>2, <3>0, <3>1 DEF ThreadsOK
      <4> QED
        BY <3>2, <4>1 DEF AnswerHolds, ShowsPage, Pages, Forms
    <3> QED
      BY <3>2, <3>3, <3>4, <3>5 DEF MoverKeeps
  <2> QED
    BY <2>1, <2>2
<1>3. ASSUME Get(w, u) PROVE MoverKeeps(w)
  <2>1. Begin(w, u, "get", "getAccount", 200) /\ "get" \in Kinds
    BY <1>3 DEF Get, Kinds
  <2> QED
    BY <2>1, BeginKeeps
<1>4. ASSUME Claim(w, u) PROVE MoverKeeps(w)
  <2>1. /\ Begin(w, u, "claim", "lockExisting", 200)
        /\ "claim" \in Kinds /\ u \in InitialOwners
    BY <1>4 DEF Claim, Kinds, Forms
  <2> QED
    BY <2>1, BeginKeeps
<1>5. ASSUME ClaimForbidden(w, u) PROVE MoverKeeps(w)
  <2>1. Begin(w, u, "claim", "pageAccount", 403) /\ "claim" \in Kinds /\ "claim" \in Forms
    BY <1>5 DEF ClaimForbidden, Kinds, Forms
  <2> QED
    BY <2>1, BeginKeeps
<1>6. ASSUME NEW kind \in Pages, Page(w, u, kind) PROVE MoverKeeps(w)
  <2>1. Begin(w, u, kind, "pageAccount", 200) /\ kind \in Kinds
    BY <1>6 DEF Page, Kinds
  <2> QED
    BY <2>1, BeginKeeps
<1> QED
  BY <1>1, <1>2, <1>3, <1>4, <1>5, <1>6 DEF Asked

LEMMA AbortKeeps ==
  ASSUME IInv, NEW w \in Workers, Abort(w), OwnersMove(w)
  PROVE  MoverKeeps(w)
<1>0. /\ ThreadsOK /\ Reason(w) /\ pc[w] # "idle"
      /\ pc' = [pc EXCEPT ![w] = "idle"]
      /\ found' = [found EXCEPT ![w] = NoRow]
      /\ status' = [status EXCEPT ![w] = 200]
      /\ offered' = [offered EXCEPT ![w] = FALSE]
      /\ UNCHANGED <<settings, answer>>
  BY DEF IInv, Abort
<1>1. Reason(w)'
  BY <1>0 DEF ThreadsOK, Reason, Initializing, Claiming, PageReads
<1>2. Rights(w)'
  BY <1>0 DEF ThreadsOK, Rights, PageReads
<1>3. AnswerHolds(w)'
  BY <1>0, AnswerKept
<1> QED
  BY <1>0, <1>1, <1>2, <1>3 DEF MoverKeeps, ThreadsOK

LEMMA MoverStep ==
  ASSUME IInv, NEW w \in Workers, Moves(w), OwnersMove(w)
  PROVE  MoverKeeps(w)
<1>1. CASE DatabaseFails(w)
  BY <1>1, DatabaseErrorKeeps DEF DatabaseFails
<1> QED
  BY <1>1, AskedKeeps, StatementKeeps, AbortKeeps DEF Moves

-----------------------------------------------------------------------------
(* The invariant *)

LEMMA InitInv == Init => IInv
<1> SUFFICES ASSUME Init PROVE IInv
  OBVIOUS
<1>1. PICK legacy \in {{}, {1}}, policy \in Storable :
        /\ owner = [a \in AccountIds |-> IF a \in legacy THEN NoOwner ELSE NoRow]
        /\ terms = [a \in AccountIds |-> IF a \in legacy THEN policy ELSE NoPolicy]
        /\ openings = [a \in AccountIds |-> IF a \in legacy THEN policy.initial_cash_krw ELSE 0]
  BY DEF Init
<1>2. /\ policy \in Environments /\ policy.initial_cash_krw \in 0 .. MaxBigInt
      /\ NoOwner \notin Users /\ NoRow \notin Users /\ NoRow # NoOwner /\ 0 \in 0 .. MaxBigInt
  BY StorablePolicy, OwnershipAssumption
<1>3. TablesOK
  BY <1>1, <1>2 DEF TablesOK
<1>4. OneAccountPerUser /\ OneLegacy /\ AccountsSound
  BY <1>1, <1>2 DEF OneAccountPerUser, OneLegacy, AccountsSound
<1>5. ThreadsOK
  BY DEF Init, ThreadsOK
<1>6. /\ \A w \in Workers : Reason(w) /\ Rights(w) /\ AnswerHolds(w)
      /\ KeysHeldAlone /\ RowsLockedAlone
  BY DEF Init, Reason, Rights, AnswerHolds, KeysHeldAlone, RowsLockedAlone,
         Initializing, Claiming, PageReads
<1> QED
  BY <1>3, <1>4, <1>5, <1>6 DEF IInv

LEMMA MoveInv ==
  ASSUME IInv, NEW w \in Workers, Moves(w)
  PROVE  IInv'
<1>1. ThreadsOK' /\ OthersRest(w) /\ TablesMove(w)
  BY MovesType
<1>2. OwnersMove(w) /\ TablesOK' /\ OneAccountPerUser' /\ OneLegacy' /\ AccountsSound'
  BY <1>1, TablesKept
<1>3. MoverKeeps(w)
  BY <1>2, MoverStep
<1>4. \A v \in Workers : Reason(v)' /\ Rights(v)' /\ AnswerHolds(v)'
  BY <1>1, <1>2, <1>3, OthersKeep DEF MoverKeeps
<1>5. KeysHeldAlone'
  BY <1>1, <1>3 DEF IInv, KeysHeldAlone, MoverKeeps, OthersRest, KeyIsFree, HoldsKey
<1>6. RowsLockedAlone'
  BY <1>1, <1>3 DEF IInv, RowsLockedAlone, MoverKeeps, OthersRest
<1> QED
  BY <1>1, <1>2, <1>4, <1>5, <1>6 DEF IInv

LEMMA RestartInv ==
  ASSUME IInv, Restart
  PROVE  IInv'
<1>1. ThreadsOK'
  <2>1. \A w \in Workers :
          (IF pc[w] = "idle" THEN request[w] ELSE NoRequest) \in Request \cup {NoRequest}
    BY DEF IInv, ThreadsOK
  <2> QED
    BY <2>1 DEF IInv, Restart, ThreadsOK
<1>2. TablesOK' /\ OneAccountPerUser' /\ OneLegacy' /\ AccountsSound'
  BY DEF IInv, Restart, tables, TablesOK, OneAccountPerUser, OneLegacy, AccountsSound
<1>3. ASSUME NEW w \in Workers PROVE Reason(w)' /\ Rights(w)' /\ AnswerHolds(w)'
  <2>0. Reason(w) /\ AnswerHolds(w)
    BY DEF IInv
  <2>1. /\ pc'[w] = "idle" /\ found'[w] = NoRow /\ status'[w] = 200 /\ offered'[w] = FALSE
        /\ answer'[w] = answer[w] /\ owner' = owner
        /\ request'[w] = IF pc[w] = "idle" THEN request[w] ELSE NoRequest
    BY DEF Restart, tables
  <2>2. answer[w] # NoAnswer => pc[w] = "idle" /\ request'[w] = request[w]
    BY <2>0, <2>1 DEF Reason
  <2>3. Reason(w)'
    BY <2>0, <2>1, <2>2 DEF Reason, Initializing, Claiming, PageReads
  <2>4. Rights(w)'
    BY <2>1 DEF Rights, PageReads
  <2>5. AnswerHolds(w)'
    BY <2>0, <2>1, <2>2 DEF AnswerHolds, ShowsPage, NoLegacy, Accountless
  <2> QED
    BY <2>3, <2>4, <2>5
<1>4. KeysHeldAlone' /\ RowsLockedAlone'
  BY DEF Restart, KeysHeldAlone, RowsLockedAlone
<1> QED
  BY <1>1, <1>2, <1>3, <1>4 DEF IInv

LEMMA StepInv == IInv /\ [Next]_vars => IInv'
<1> SUFFICES ASSUME IInv, [Next]_vars PROVE IInv'
  OBVIOUS
<1>1. ASSUME NEW w \in Workers, Moves(w) PROVE IInv'
  BY <1>1, MoveInv
<1>2. CASE Restart
  BY <1>2, RestartInv
<1>3. CASE UNCHANGED vars
  BY <1>3 DEF vars, IInv, TablesOK, ThreadsOK, OneAccountPerUser, OneLegacy, AccountsSound,
              Reason, Rights, AnswerHolds, ShowsPage, NoLegacy, Accountless, Current,
              KeysHeldAlone, RowsLockedAlone
<1> QED
  BY <1>1, <1>2, <1>3 DEF Next, Moves

\* IInv is inductive, and so always true: whatever initializations, claims and pages interleave,
\* each thread's reasons and rights are those of the statement it has reached (accounts.py:53-108,
\* ownership.py:36-81).
THEOREM Invariant == Spec => []IInv
<1> QED
  BY InitInv, StepInv, PTL DEF Spec

-----------------------------------------------------------------------------
(* What follows from it *)

\* Every reachable state is of its type: the accounts and openings in the tables, and what each
\* thread has read (accounts.py:53-108, ownership.py:36-81).
THEOREM TypeCorrect == Spec => []TypeOK
<1>1. IInv => TypeOK
  BY DEF IInv, TablesOK, ThreadsOK, TypeOK
<1> QED
  BY <1>1, Invariant, PTL

\* No race of initializations and claims gives a user two accounts (accounts.py:61-78,
\* ownership.py:73-80).
THEOREM UsersHaveOneAccount == Spec => []OneAccountPerUser
<1>1. IInv => OneAccountPerUser
  BY DEF IInv
<1> QED
  BY <1>1, Invariant, PTL

\* No race, retry, crash or lost COMMIT leaves an account without its cash, or with more
\* (accounts.py:65-75).
THEOREM AccountsAreOpenedWithCash == Spec => []OpenedWithCash
<1>1. IInv => OpenedWithCash
  BY DEF IInv, AccountsSound, OpenedWithCash
<1> QED
  BY <1>1, Invariant, PTL

\* No account has a policy that an execution cannot compute with, whatever the environment
\* holds (config.py:67-86).
THEOREM StoredTermsAreSound == Spec => []TermsAreSound
<1>1. IInv => TermsAreSound
  BY StorablePolicy DEF IInv, AccountsSound, TermsAreSound
<1> QED
  BY <1>1, Invariant, PTL

\* An answer stays true, in later processes too (accounts.py:76-80, ownership.py:36-43, 73-76).
THEOREM AnswersStayTrue == Spec => []AnswersHold
<1>1. IInv => AnswersHold
  BY LegacyFound DEF IInv, AnswerHolds, AnswersHold
<1> QED
  BY <1>1, Invariant, PTL

\* The loser of a race finds the account of the winner (accounts.py:78).
THEOREM LosersFindAnAccount == Spec => []LosersFindTheAccount
<1>1. IInv => LosersFindTheAccount
  BY AccountFound DEF IInv, Rights, Accountless, LosersFindTheAccount
<1> QED
  BY <1>1, Invariant, PTL

\* No page shows an account and offers another (views.py:238-239, 269-270).
THEOREM ClaimsAreOfferedRightly == Spec => []ClaimOfferedToTheAccountless
<1>1. IInv => ClaimOfferedToTheAccountless
  BY DEF IInv, AnswerHolds, ClaimOfferedToTheAccountless
<1> QED
  BY <1>1, Invariant, PTL

\* No page hides the legacy account from an initial owner who could claim it, although it
\* asks three times and others claim and initialize in between (views.py:238-239, 269-270,
\* ownership.py:52-58).
THEOREM PagesTellAll == Spec => []PagesHideNothing
<1>1. IInv => PagesHideNothing
  BY LegacyFound, AccountFound DEF IInv, AnswerHolds, Accountless, PagesHideNothing
<1> QED
  BY <1>1, Invariant, PTL

\* The interleaved statements of initializations and claims implement AccountHolders: the
\* commit of InsertOpening maps to Open, that of SaveOwner to Claim, even when its answer is
\* lost, and every other step to a stutter.
THEOREM Refinement == Spec => ImplementsAccountHolders
<1>1. Init => Holders!Init
  <2> SUFFICES ASSUME Init PROVE Holders!Init
    OBVIOUS
  <2>1. PICK legacy \in {{}, {1}}, policy \in Storable :
          /\ owner = [a \in AccountIds |-> IF a \in legacy THEN NoOwner ELSE NoRow]
          /\ terms = [a \in AccountIds |-> IF a \in legacy THEN policy ELSE NoPolicy]
          /\ openings = [a \in AccountIds |->
                           IF a \in legacy THEN policy.initial_cash_krw ELSE 0]
    BY DEF Init
  <2>2. MaxAccounts \in Nat /\ 1 <= MaxAccounts
    <3>1. Cardinality(Users) \in Nat
      BY OwnershipAssumption, FS_CardinalityType
    <3> QED
      BY <3>1, OwnershipAssumption
  <2>3. legacy \in SUBSET AccountIds /\ \A a, b \in legacy : a = b
    BY <2>1, <2>2 DEF AccountIds
  <2> QED
    BY <2>1, <2>3 DEF Holders!Init
<1>2. IInv /\ [Next]_vars => [Holders!Next]_tables
  <2> SUFFICES ASSUME IInv, [Next]_vars PROVE [Holders!Next]_tables
    OBVIOUS
  <2>1. ASSUME NEW w \in Workers, Moves(w) PROVE [Holders!Next]_tables
    <3>1. CASE Opening(w)
      <4>1. /\ NextKey \in AccountIds /\ request[w].user \in Users /\ Current \in Storable
            /\ Holders!Open(NextKey, request[w].user, Current)
        BY <3>1, OpeningMaps
      <4> QED
        BY <4>1 DEF Holders!Next
    <3>2. CASE Saving(w)
      <4>1. /\ found[w] \in AccountIds /\ request[w].user \in Users
            /\ Holders!Claim(found[w], request[w].user)
        BY <3>2, SavingMaps
      <4> QED
        BY <4>1 DEF Holders!Next
    <3> QED
      BY <2>1, <3>1, <3>2, MovesType DEF TablesMove
  <2>2. CASE Restart
    BY <2>2 DEF Restart
  <2>3. CASE UNCHANGED vars
    BY <2>3 DEF vars, tables
  <2> QED
    BY <2>1, <2>2, <2>3 DEF Next, Moves
<1> QED
  BY <1>1, <1>2, Invariant, PTL DEF Spec, ImplementsAccountHolders

-----------------------------------------------------------------------------
(* Who waits for whom, and for how long *)

\* Thread w waits for a key that thread v has inserted, or for the row it has locked.
WaitsFor(w, v) ==
  /\ v # w
  /\ \/ pc[w] = "insertAccount" /\ Fits(Current) /\ HoldsKey(v, request[w].user)
     \/ pc[w] = "saveOwner" /\ HoldsKey(v, request[w].user)
     \/ pc[w] = "lockLegacy" /\ pc[v] = "saveOwner" /\ found[v] = LegacyAccount

GoesOn(w) == pc[w] # "idle" /\ \A v \in Workers : ~WaitsFor(w, v)

\* Every request in flight can go on, or one of those it waits for can.
NobodyWaitsInACircle ==
  \A w \in Workers : pc[w] # "idle" =>
    \E v \in Workers :
      /\ GoesOn(v)
      /\ v = w \/ WaitsFor(w, v) \/ \E x \in Workers : WaitsFor(w, x) /\ WaitsFor(x, v)

\* Two users wait for each other only over the account without an owner.
UsersWaitForThemselves ==
  \A v, w \in Workers : WaitsFor(w, v) /\ request[v].user # request[w].user =>
    /\ {request[v].user, request[w].user} \subseteq InitialOwners
    /\ LegacyAccount # NoRow

\* Initializations and claims never wait in a circle, although a claim waits both for a row
\* and, while it holds the row, for a key; and nobody who may not claim ever waits for
\* another user (accounts.py:65-78, ownership.py:73-81).
THEOREM NoDeadlock == Spec => [](NobodyWaitsInACircle /\ UsersWaitForThemselves)
<1>1. NobodyWaitsInACircle
  <2> SUFFICES ASSUME NEW w \in Workers, pc[w] # "idle"
               PROVE  \E v \in Workers :
                        /\ GoesOn(v)
                        /\ \/ v = w \/ WaitsFor(w, v)
                           \/ \E x \in Workers : WaitsFor(w, x) /\ WaitsFor(x, v)
    BY DEF NobodyWaitsInACircle
  <2>1. \A x \in Workers : pc[x] = "insertOpening" => GoesOn(x)
    BY DEF GoesOn, WaitsFor
  <2>2. ASSUME NEW x \in Workers, pc[x] \in {"insertAccount", "saveOwner"}, ~GoesOn(x)
        PROVE  \E v \in Workers : WaitsFor(x, v) /\ GoesOn(v)
    BY <2>1, <2>2 DEF GoesOn, WaitsFor, HoldsKey
  <2>3. ASSUME pc[w] = "lockLegacy", ~GoesOn(w)
        PROVE  \E x \in Workers : WaitsFor(w, x) /\ pc[x] = "saveOwner"
    BY <2>3 DEF GoesOn, WaitsFor
  <2>4. pc[w] \notin {"insertAccount", "saveOwner", "lockLegacy"} => GoesOn(w)
    BY DEF GoesOn, WaitsFor
  <2> QED
    BY <2>2, <2>3, <2>4
<1>2. IInv => UsersWaitForThemselves
  <2> SUFFICES ASSUME IInv, NEW v \in Workers, NEW w \in Workers, WaitsFor(w, v),
                      request[v].user # request[w].user
               PROVE  /\ {request[v].user, request[w].user} \subseteq InitialOwners
                      /\ LegacyAccount # NoRow
    BY DEF UsersWaitForThemselves
  <2>1. pc[w] = "lockLegacy" /\ pc[v] = "saveOwner" /\ found[v] = LegacyAccount
    BY DEF WaitsFor, HoldsKey
  <2>2. Reason(v) /\ Reason(w) /\ Rights(v)
    BY DEF IInv
  <2> QED
    BY <2>1, <2>2 DEF Reason, Rights, Claiming
<1> QED
  BY <1>1, <1>2, Invariant, PTL

\* The statements a thread executes at most until its request is answered.
StatementsLeft(statement) ==
  CASE statement = "idle"                                  -> 0
    [] statement \in {"readCash", "saveOwner", "pageRest"} -> 1
    [] statement \in {"insertOpening", "getAgain", "pageLegacy"} -> 2
    [] statement \in {"insertAccount", "pageOwn"}          -> 3
    [] statement = "pageAccount"                           -> 4
    [] statement \in {"getAccount", "lockLegacy"}          -> 5
    [] statement = "lockExisting"                          -> 6

EveryStatementAdvances ==
  [][\A w \in Workers : pc[w] # "idle" =>
       \/ pc'[w] = pc[w] /\ ~Statement(w)
       \/ StatementsLeft(pc'[w]) < StatementsLeft(pc[w])]_vars

\* Every request about accounts is answered after at most six statements of its own thread,
\* the reads of the page that shows the error of a form included, and what others do never
\* takes it back.  With NoDeadlock this is all that EveryRequestAnswered needs beside
\* fairness (accounts.py:53-87, ownership.py:62-81, views.py:231-286).
THEOREM RequestsEnd == Spec => EveryStatementAdvances
<1> DEFINE Advances(w) == \/ pc'[w] = pc[w] /\ ~Statement(w)
                          \/ StatementsLeft(pc'[w]) < StatementsLeft(pc[w])
<1>1. ASSUME IInv, [Next]_vars, NEW w \in Workers, pc[w] # "idle" PROVE Advances(w)
  <2>0. pc \in [Workers -> Statements \cup {"idle"}]
    BY <1>1 DEF IInv, ThreadsOK
  <2>1. ASSUME Statement(w) PROVE StatementsLeft(pc'[w]) < StatementsLeft(pc[w])
    <3>1. CASE GetAccount(w)
      <4>1. pc[w] = "getAccount" /\ pc'[w] \in {"idle", "readCash", "insertAccount", "pageAccount"}
        BY <2>0, <3>1 DEF GetAccount, ApiError, Reply, Goto
      <4> QED
        BY <4>1 DEF StatementsLeft
    <3>2. CASE InsertAccount(w)
      <4>1. pc[w] = "insertAccount" /\ pc'[w] \in {"idle", "insertOpening", "getAgain"}
        BY <2>0, <3>2 DEF InsertAccount, DatabaseError, Reply, Goto, PageReads
      <4> QED
        BY <4>1 DEF StatementsLeft
    <3>3. CASE InsertOpening(w)
      <4>1. pc[w] = "insertOpening" /\ pc'[w] \in {"readCash"}
        BY <2>0, <3>3 DEF InsertOpening, Goto
      <4> QED
        BY <4>1 DEF StatementsLeft
    <3>4. CASE GetAgain(w)
      <4>1. pc[w] = "getAgain" /\ pc'[w] \in {"idle", "readCash"}
        BY <2>0, <3>4 DEF GetAgain, Reply, Goto
      <4> QED
        BY <4>1 DEF StatementsLeft
    <3>5. CASE ReadCash(w)
      <4>1. pc[w] = "readCash" /\ pc'[w] \in {"idle"}
        BY <2>0, <3>5 DEF ReadCash, Succeed, Reply
      <4> QED
        BY <4>1 DEF StatementsLeft
    <3>6. CASE LockExisting(w)
      <4>1. pc[w] = "lockExisting" /\ pc'[w] \in {"idle", "lockLegacy"}
        BY <2>0, <3>6 DEF LockExisting, Succeed, Reply, Goto
      <4> QED
        BY <4>1 DEF StatementsLeft
    <3>7. CASE LockLegacy(w)
      <4>1. pc[w] = "lockLegacy" /\ pc'[w] \in {"idle", "saveOwner", "pageAccount"}
        BY <2>0, <3>7 DEF LockLegacy, ApiError, Reply, Goto
      <4> QED
        BY <4>1 DEF StatementsLeft
    <3>8. CASE SaveOwner(w)
      <4>1. pc[w] = "saveOwner" /\ pc'[w] \in {"idle"}
        BY <2>0, <3>8 DEF SaveOwner, Succeed, DatabaseError, Reply, PageReads
      <4> QED
        BY <4>1 DEF StatementsLeft
    <3>9. CASE PageAccount(w)
      <4>1. pc[w] = "pageAccount" /\ pc'[w] \in {"pageOwn"}
        BY <2>0, <3>9 DEF PageAccount, Goto
      <4> QED
        BY <4>1 DEF StatementsLeft
    <3>10. CASE PageOwn(w)
      <4>1. pc[w] = "pageOwn" /\ pc'[w] \in {"pageLegacy", "pageRest"}
        BY <2>0, <3>10 DEF PageOwn, Goto
      <4> QED
        BY <4>1 DEF StatementsLeft
    <3>11. CASE PageLegacy(w)
      <4>1. pc[w] = "pageLegacy" /\ pc'[w] \in {"pageRest"}
        BY <2>0, <3>11 DEF PageLegacy
      <4> QED
        BY <4>1 DEF StatementsLeft
    <3>12. CASE PageRest(w)
      <4>1. pc[w] = "pageRest" /\ pc'[w] \in {"idle"}
        BY <2>0, <3>12 DEF PageRest, Reply
      <4> QED
        BY <4>1 DEF StatementsLeft
    <3> QED
      BY <2>1, <3>1, <3>2, <3>3, <3>4, <3>5, <3>6, <3>7, <3>8, <3>9, <3>10, <3>11, <3>12
      DEF Statement
  <2>2. ASSUME pc'[w] = "idle" PROVE StatementsLeft(pc'[w]) < StatementsLeft(pc[w])
    <3>1. pc[w] \in Statements
      BY <1>1, <2>0
    <3> QED
      BY <2>2, <3>1 DEF StatementsLeft, Statements, PageReads
  <2>3. CASE Abort(w) \/ Restart
    BY <2>0, <2>2, <2>3 DEF Abort, Restart
  <2>4. CASE DatabaseFails(w)
    BY <2>0, <2>2, <2>4 DEF DatabaseFails, DatabaseError, Reply
  <2>5. ASSUME NEW v \in Workers, Moves(v), v # w PROVE pc'[w] = pc[w]
    <3>1. OthersRest(v)
      BY <1>1, <2>5, MovesType
    <3> QED
      BY <2>5, <3>1 DEF OthersRest
  <2>6. ASSUME NEW u \in Users, Asked(w, u) PROVE FALSE
    BY <1>1, <2>6 DEF Asked, Initialize, InitializeWithoutPolicy, Get, Claim, ClaimForbidden,
                      Page, Begin
  <2>7. CASE UNCHANGED vars /\ ~Statement(w)
    BY <2>7 DEF vars
  <2>8. ASSUME NEW v \in Workers, v # w, Moves(v) PROVE Advances(w)
    BY <2>1, <2>5, <2>8
  <2> QED
    BY <1>1, <2>1, <2>3, <2>4, <2>6, <2>7, <2>8 DEF Next, Moves
<1>2. IInv /\ [Next]_vars => [\A w \in Workers : pc[w] # "idle" => Advances(w)]_vars
  BY <1>1
<1> QED
  BY <1>2, Invariant, PTL DEF Spec, EveryStatementAdvances

-----------------------------------------------------------------------------
(* What VirtualOrders takes from the accounts *)

\* The policy and the opening cash of a user's account, as orders.py finds them.
PolicyOf(u) == IF AccountOf(u) = NoRow THEN NoPolicy ELSE terms[AccountOf(u)]
PaidIn(u)   == IF AccountOf(u) = NoRow THEN 0 ELSE openings[AccountOf(u)]

\* This step leaves user u what he had.
Same(u) == PolicyOf(u)' = PolicyOf(u) /\ PaidIn(u)' = PaidIn(u)

\* This step gives user u an account.
Opens(u) ==
  /\ PolicyOf(u) = NoPolicy
  /\ PolicyOf(u)' \in Storable
  /\ PaidIn(u)' = PolicyOf(u)'.initial_cash_krw

OpensOne == \A u \in Users : Same(u) \/ (Opens(u) /\ \A v \in Users \ {u} : Same(v))

OpensAsOrdersAssume == [][OpensOne]_vars

\* A user who neither gets nor loses the one account that changes keeps what he had.
LEMMA AccountKept ==
  ASSUME IInv, NEW u \in Users, NEW a \in AccountIds, owner'[a] # u, owner[a] # u,
         \A b \in AccountIds \ {a} : owner'[b] = owner[b] /\ terms'[b] = terms[b]
                                     /\ openings'[b] = openings[b]
  PROVE  PolicyOf(u)' = PolicyOf(u) /\ PaidIn(u)' = PaidIn(u)
<1> DEFINE ids == {b \in AccountIds : owner[b] = u}
<1>1. ids = {b \in AccountIds : owner'[b] = u}
  OBVIOUS
<1>2. AccountOf(u)' = AccountOf(u)
  <2>1. AccountOf(u) = First(ids) /\ AccountOf(u)' = First({b \in AccountIds : owner'[b] = u})
    BY DEF AccountOf
  <2> QED
    BY <1>1, <2>1, Zenon
<1>3. AccountOf(u) # NoRow => AccountOf(u) \in AccountIds \ {a}
  BY AccountFound
<1> QED
  BY <1>2, <1>3 DEF PolicyOf, PaidIn

\* A user who had no account, and owns one after the step, finds that one.
LEMMA AccountGot ==
  ASSUME IInv, NEW u \in Users, NEW a \in AccountIds, owner'[a] = u,
         \A b \in AccountIds \ {a} : owner'[b] = owner[b],
         ~Holders!HasAccount(u)
  PROVE  /\ PolicyOf(u) = NoPolicy
         /\ PolicyOf(u)' = terms'[a]
         /\ PaidIn(u)' = openings'[a]
<1>1. AccountOf(u) = NoRow
  BY AccountFound DEF Holders!HasAccount
<1>2. {b \in AccountIds : owner'[b] = u} = {a}
  BY DEF Holders!HasAccount
<1>3. AccountOf(u)' = a
  <2>1. First({a}) = a
    BY FirstOf
  <2> QED
    BY <1>2, <2>1 DEF AccountOf, First
<1>4. a # NoRow
  BY OwnershipAssumption
<1> QED
  BY <1>1, <1>3, <1>4 DEF PolicyOf, PaidIn

\* To the order service, which asks for the account of its user, an account comes into being
\* in one step, with a policy that can be stored and the cash of that policy, one user at a
\* time; whether it was opened or claimed; and from then on neither its policy nor its
\* opening ever changes.  This is what OpenAccount of VirtualOrders assumes of accounts.py
\* and ownership.py (accounts.py:65-78, ownership.py:73-81).
THEOREM AccountsAppearOnce == Spec => OpensAsOrdersAssume
<1>1. ASSUME IInv, NEW a \in AccountIds, NEW u \in Users, Opens(u), owner[a] \notin Users,
             owner'[a] = u,
             \A b \in AccountIds \ {a} : owner'[b] = owner[b] /\ terms'[b] = terms[b]
                                         /\ openings'[b] = openings[b]
      PROVE  OpensOne
  <2>1. \A v \in Users \ {u} : Same(v)
    BY <1>1, AccountKept DEF Same
  <2> QED
    BY <1>1, <2>1 DEF OpensOne
<1>2. ASSUME IInv, NEW a \in AccountIds, NEW u \in Users, NEW policy \in Storable,
             Holders!Open(a, u, policy)
      PROVE  OpensOne
  <2>1. /\ owner'[a] = u /\ terms'[a] = policy /\ openings'[a] = policy.initial_cash_krw
        /\ owner[a] \notin Users /\ ~Holders!HasAccount(u)
        /\ \A b \in AccountIds \ {a} : owner'[b] = owner[b] /\ terms'[b] = terms[b]
                                        /\ openings'[b] = openings[b]
    BY <1>2, OwnershipAssumption DEF Holders!Open, IInv, TablesOK
  <2>2. PolicyOf(u) = NoPolicy /\ PolicyOf(u)' = policy /\ PaidIn(u)' = policy.initial_cash_krw
    BY <1>2, <2>1, AccountGot
  <2> QED
    BY <1>1, <1>2, <2>1, <2>2 DEF Opens
<1>3. ASSUME IInv, NEW a \in AccountIds, NEW u \in Users, Holders!Claim(a, u)
      PROVE  OpensOne
  <2>1. /\ owner'[a] = u /\ terms' = terms /\ openings' = openings
        /\ owner[a] = NoOwner /\ owner[a] \notin Users /\ owner[a] # NoRow
        /\ ~Holders!HasAccount(u)
        /\ \A b \in AccountIds \ {a} : owner'[b] = owner[b]
    BY <1>3, OwnershipAssumption DEF Holders!Claim, IInv, TablesOK
  <2>2. terms[a] \in Storable /\ openings[a] = terms[a].initial_cash_krw
    BY <1>3, <2>1 DEF IInv, AccountsSound
  <2>3. PolicyOf(u) = NoPolicy /\ PolicyOf(u)' = terms[a] /\ PaidIn(u)' = openings[a]
    BY <1>3, <2>1, AccountGot
  <2> QED
    BY <1>1, <1>3, <2>1, <2>2, <2>3 DEF Opens
<1>4. ASSUME UNCHANGED tables PROVE OpensOne
  <2>1. \A u \in Users : Same(u)
    BY <1>4 DEF Same, tables, PolicyOf, PaidIn, AccountOf, First
  <2> QED
    BY <2>1 DEF OpensOne
<1>5. IInv /\ [Holders!Next]_tables => [OpensOne]_vars
  BY <1>2, <1>3, <1>4 DEF Holders!Next
<1> QED
  BY <1>5, Refinement, Invariant, PTL DEF OpensAsOrdersAssume, ImplementsAccountHolders

=============================================================================
