SPECIFICATION FairSpec
CONSTANTS
  upper = upper
  lower = lower
  other = other
  unset = unset
  long = long
  Unset = Unset
  Operator = Operator
  Proc = {upper, lower, unset, long}
  Email <- MCEmail
  Lower <- MCLower
  AdminEmail <- MCAdminEmail
  Password <- MCPassword
  MaxFaults = 1
  MaxChanges = 1
INVARIANTS TypeOK LeavesUser LogNamesItsAdmin
PROPERTIES ExistingUsersUntouched AdminEventually ImplementsElection
