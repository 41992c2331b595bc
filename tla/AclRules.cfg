SPECIFICATION Spec
CONSTANTS
  Roles <- MCRoles
  Rules <- MCRules
  Ops <- MCOps
  Lists <- MCLists
  MaxAcl = 3
INVARIANTS TypeOK ExactlyRestricted NothingSkipped
