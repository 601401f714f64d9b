\* Two threads on one account; 20 shares cost 81, more than a BIGINT of this instance
\* holds.
SPECIFICATION FairSpec
CONSTANTS
  Users = {u1}
  Workers = {w1, w2}
  Tickers = {t1}
  LastDay = 2
  Batches <- MCOneBatch
  Quantities = {1, 20, 90}
  Policies <- MCPolicies
  MaxOrders = 2
  MaxRuns = 1
  MaxBigInt = 60
  NoUser = NoUser
  NoAccount = NoAccount
  NoRow = NoRow
  NoExecution = NoExecution
  NoRequest = NoRequest
PROPERTIES
  EveryRequestAnswered
