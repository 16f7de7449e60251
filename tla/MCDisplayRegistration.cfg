\* Four requests, two at a time, by a member of staff and two devices.
SPECIFICATION Spec
CONSTANTS
  q1 = q1
  q2 = q2
  q3 = q3
  q4 = q4
  ann = ann
  s1 = s1
  m1 = m1
  d1 = d1
  d2 = d2
  Requests = {q1, q2, q3, q4}
  KindsOf <- Mixed
  Owners = {ann}
  Digits = {d1, d2}
  Slugs = {s1}
  Machines = {m1}
  None = None
  MaxTries = 2
  MaxOverlap = 2
  MaxLapses = 2
  MaxFailures = 1
INVARIANTS
  OneOpenAttempt
  ShownCodeWorks
  CodeEndsOnce
  BindingIsOfTheCode
  DisplaysAreSound
SYMMETRY DataSymmetry
CHECK_DEADLOCK FALSE
