SPECIFICATION Spec
CONSTANTS
  a = a
  b = b
  c = c
  Proc = {a, c}
  Environments <- MCEnvironments
  Policies <- MCPolicies
  Roles <- MCRoles
  Permission <- MCPermission
  Registry <- MCRegistry
  MaxFaults = 1
INVARIANTS TypeOK GrantsOfOneRelease AllUpAllGranted EmptyOnlyMeanwhile
PROPERTIES ImplementsCatalogue
