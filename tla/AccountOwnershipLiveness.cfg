\* The initial owner in two threads, over seven environments, one of which holds a policy.
SPECIFICATION FairSpec
CONSTANTS
  RateParts = 10
  Missing = Missing
  Malformed = Malformed
  NotANumber = NotANumber
  Versions <- MCVersions
  NoPolicy = NoPolicy
  Environments <- MCOddEnvironments
  MaxBigInt = 2
  MaxInteger = 2
  Users = {u1}
  InitialOwners = {u1}
  Workers = {w1, w2}
  MaxAccounts = 2
  NoOwner = NoOwner
  NoRow = NoRow
  NoRequest = NoRequest
  NoAnswer = NoAnswer
INVARIANTS
  TermsAreSound
PROPERTIES
  EveryRequestAnswered
