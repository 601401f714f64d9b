\* Two threads, two accounts, two orders, two collections.
SPECIFICATION Spec
CONSTANTS
  Users = {u1, u2}
  Workers = {w1, w2}
  Tickers = {t1}
  LastDay = 3
  Batches <- MCBatches
  Quantities = {1, 2}
  Policies <- MCPolicies
  MaxOrders = 2
  MaxRuns = 2
  MaxBigInt = 40
  NoUser = NoUser
  NoAccount = NoAccount
  NoRow = NoRow
  NoExecution = NoExecution
  NoRequest = NoRequest
SYMMETRY MCSymmetry
INVARIANTS
  TypeOK
  ReadsStayTrue
  NonNegativeCash
  LedgerMatchesOrders
  RejectionsStayShort
  FillsRestOnStoredOpens
PROPERTIES
  OrderLifecycle
  ImplementsCashAccount
