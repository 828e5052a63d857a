\* Three applications, one administrator, two addresses in three writings.
SPECIFICATION Spec
CONSTANTS
  Application = {a1, a2, a3}
  Admin = {root}
  Address = {x, y}
  AdminEmail <- MCAdminEmail
  None = None
SYMMETRY Symmetry
INVARIANTS
  BlockedByCollisionOnly
  AllDecidable
  DeletesOwnUnlessMoved
  ResetsOwnUnlessShared
PROPERTIES
  LoginsSurvive
  RunsAgainInVain
