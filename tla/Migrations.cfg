\* Two processes over databases of every age, two users and three accounts.
SPECIFICATION Spec
CONSTANTS
  Processes = {p1, p2}
  Users = {u1, u2}
  InitialOwners = {u1}
  AccountIds = {1, 2, 3}
  Terms <- MCTerms
  NoOwner = NoOwner
  NoRow = NoRow
  NoPolicy = NoPolicy
SYMMETRY MCSymmetry
INVARIANTS
  TypeOK
  ServedOnModelSchema
  PlannedMigrationsRun
  OneLegacyAccount
PROPERTIES
  RowsSurvive
