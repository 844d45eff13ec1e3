SPECIFICATION Spec
CONSTANTS
  a = a
  b = b
  c = c
  Proc = {a, b}
  Environments <- MCEnvironments
  Policies <- MCPolicies
  Roles <- MCRoles
  Permission <- MCPermission
  Registry <- MCRegistry
  MaxFaults = 0
INVARIANTS FailsOnlyOnFault
