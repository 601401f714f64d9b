\* An order is filled while a page without holdings is computed.
SPECIFICATION PageSpec
CONSTANTS
  Users = {u1}
  Workers = {w1}
  Readers = {r1}
  Tickers = {t1}
  LastDay = 3
  Batches <- MCBatches
  Quantities = {1}
  Policies <- MCPolicies
  MaxOrders = 1
  MaxRuns = 1
  MaxBigInt = 40
  NoUser = NoUser
  NoAccount = NoAccount
  NoRow = NoRow
  NoExecution = NoExecution
  NoRequest = NoRequest
  NoPage = NoPage
INVARIANTS
  EmptyPageShowsNoProfit
