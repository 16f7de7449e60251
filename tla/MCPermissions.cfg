\* Two requests at once; the administrator and somebody else; the Admin role,
\* a predefined one and one more; one failed command, lost request or restart.
CONSTANTS
  q1 = q1
  q2 = q2
  root = root
  ann = ann
  admin = admin
  viewer = viewer
  other = other
  access = access
  read = read
  None = None
  Requests = {q1, q2}
  Users = {root, ann}
  Roles = {admin, viewer, other}
  Permissions = {access, read}
  Admin = admin
  AdminPermission = access
  Template <- Viewing
  Started <- AtFirst
  MaxOverlap = 2
  MaxFaults = 1
SPECIFICATION Spec
INVARIANTS
  BehindOnlyWhenExcused
  OneAdministrator
PROPERTIES
  NobodyIsMadeAdministrator
CHECK_DEADLOCK FALSE
