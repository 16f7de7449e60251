\* Three requests, one after another or two at a time, within two units of time or (a
\* revoked session, or refreshes without a fault) four; one dies or Redis fails once.
SPECIFICATION MCSpec
CONSTANTS
  q1 = q1
  q2 = q2
  q3 = q3
  First = First
  None = None
  Requests = {q1, q2, q3}
  Kinds = {"refresh", "skip", "logout", "login", "password"}
  SessionTtl = 1
  NullTtl = 1
  Grace = 1
  Patience = 1
  MaxOverlap = 2
  MaxTime = 4
  Faults = {"redis", "api"}
  MaxFaults = 1
SYMMETRY RequestSymmetry
INVARIANTS
  NoFork
  StaleServedBriefly
  SerialTokenIsNoReplay
CHECK_DEADLOCK FALSE
