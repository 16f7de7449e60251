\* Two requests; three names, one of which HTSHADOW may hold; one address; an invited
\* account from before, or none; the file changed once; one failed statement or crash.
CONSTANTS
  q1 = q1
  q2 = q2
  None = None
  Requests = {q1, q2}
  Names = {root, ann, bob}
  AdminName = root
  Shadow = {ann}
  Emails = {mail}
  Earlier = {bob}
  root = root
  ann = ann
  bob = bob
  mail = mail
  MaxUsers = 3
  MaxInvitations = 2
  MaxOverlap = 2
  MaxEdits = 1
  MaxFaults = 1
SPECIFICATION Spec
SYMMETRY RequestSymmetry
INVARIANTS
  Inv
  DecisionSticks
  AcceptedCanSignIn
  CaughtUp
CHECK_DEADLOCK FALSE
