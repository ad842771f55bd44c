SPECIFICATION SeedSpec
CONSTANTS
  Submissions = {s1, s2}
  Seeds = {}
  Emails = {e1, e2}
  SeedStaff = {e1}
  Products = {starter}
  Cycles = {monthly, annual}
  p1 = p1
  p2 = p2
  superAdmin = superAdmin
  support = support
  Permissions = {p1, p2}
  Roles = {superAdmin, support}
  DefaultGrants <- MCGrants
  None = None
SYMMETRY SubmissionSymmetry
CHECK_DEADLOCK FALSE
INVARIANT OneSuperAdmin
