\* One display, one slot, two contents and a flash; two requests, two changes, one
\* failed read, closed stream or restart.
CONSTANTS
  d1 = d1
  c1 = c1
  c2 = c2
  flash = flash
  p1 = p1
  p2 = p2
  None = None
  Displays = {d1}
  Slots = {1}
  Contents = {c1, c2}
  Flash = flash
  Requests = {p1, p2}
  MaxChanges = 2
  MaxFaults = 1
SPECIFICATION Spec
INVARIANTS
  Inv
  AnnouncedIsSeen
PROPERTIES
  
  InTheEndShown
CHECK_DEADLOCK FALSE
