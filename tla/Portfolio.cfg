\* One thread that writes, one that reads, two stocks, two orders, three collections.
SPECIFICATION PageSpec
CONSTANTS
  Users = {u1}
  Workers = {w1}
  Readers = {r1}
  Tickers = {t1, t2}
  LastDay = 3
  Batches <- MCBatches
  Quantities = {1, 3}
  Policies <- MCPolicies
  MaxOrders = 2
  MaxRuns = 3
  MaxBigInt = 40
  NoUser = NoUser
  NoAccount = NoAccount
  NoRow = NoRow
  NoExecution = NoExecution
  NoRequest = NoRequest
  NoPage = NoPage
SYMMETRY MCSymmetry
INVARIANTS
  PagesOK
  ClosesAreThere
  DayIsOfTheRead
PROPERTIES
  TotalsMissOnlyLaterFills
