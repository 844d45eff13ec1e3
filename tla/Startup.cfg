SPECIFICATION FairSpec
CONSTANTS
  old = old
  new = new
  NoProc = NoProc
  Unset = Unset
  Operator = Operator
  Proc = {old, new}
  Latest <- MCLatest
  MaxVersion = 2
  Environments <- MCEnvironments
  Policies <- MCPolicies
  Roles <- MCRoles
  Permission <- MCPermission
  Registry <- MCRegistry
  Email <- MCEmail
  Lower <- MCLower
  AdminEmail <- MCAdminEmail
  Password <- MCPassword
  MaxChanges = 0
  MaxFaults = 1
INVARIANTS SeedsOnlyMigrated ServesComplete
PROPERTIES StartsEnd KeepsPromises
