\* An order whose amount does not fit a BIGINT column: executing it never ends it.
SPECIFICATION Spec
CONSTANTS
  Users = {u1}
  Workers = {w1}
  Tickers = {t1}
  LastDay = 3
  Batches <- MCBatches
  Quantities = {20}
  Policies <- MCPolicies
  MaxOrders = 1
  MaxRuns = 1
  MaxBigInt = 40
  NoUser = NoUser
  NoAccount = NoAccount
  NoRow = NoRow
  NoExecution = NoExecution
  NoRequest = NoRequest
PROPERTIES
  ShortCashEndsRejected
