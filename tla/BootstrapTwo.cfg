SPECIFICATION Spec
CONSTANTS
  upper = upper
  lower = lower
  other = other
  unset = unset
  long = long
  Unset = Unset
  Operator = Operator
  Proc = {lower, other}
  Email <- MCEmail
  Lower <- MCLower
  AdminEmail <- MCAdminEmail
  Password <- MCPassword
  MaxFaults = 0
  MaxChanges = 0
PROPERTIES EnvIgnoredAfterAdmin
