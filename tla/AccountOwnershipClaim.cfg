\* The initial owner claims the legacy account in two threads at once.
SPECIFICATION Spec
CONSTANTS
  RateParts = 10
  Missing = Missing
  Malformed = Malformed
  NotANumber = NotANumber
  Versions <- MCVersions
  NoPolicy = NoPolicy
  Environments <- MCOneEnvironment
  MaxBigInt = 2
  MaxInteger = 2
  Users = {u1}
  InitialOwners = {u1}
  Workers = {w1, w2}
  MaxAccounts = 2
  NoOwner = NoOwner
  NoRow = NoRow
  NoRequest = NoRequest
  NoAnswer = NoAnswer
PROPERTIES
  ClaimIsIdempotent
