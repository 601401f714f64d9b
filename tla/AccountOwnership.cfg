\* The initial owner and another user, two threads, four environments.
SPECIFICATION Spec
CONSTANTS
  RateParts = 10
  Missing = Missing
  Malformed = Malformed
  NotANumber = NotANumber
  Versions <- MCVersions
  NoPolicy = NoPolicy
  Environments <- MCEnvironments
  MaxBigInt = 2
  MaxInteger = 2
  Users = {u1, u2}
  InitialOwners = {u1}
  Workers = {w1, w2}
  MaxAccounts = 3
  NoOwner = NoOwner
  NoRow = NoRow
  NoRequest = NoRequest
  NoAnswer = NoAnswer
SYMMETRY MCSymmetry
INVARIANTS
  TypeOK
  OneAccountPerUser
  OpenedWithCash
  AnswersHold
  LosersFindTheAccount
  ClaimOfferedToTheAccountless
  PagesHideNothing
PROPERTIES
  ImplementsAccountHolders
