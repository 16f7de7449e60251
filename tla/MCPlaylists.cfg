\* Three requests, two at a time, on one playlist with two items and one that can
\* be created; the clean-up of contents; one failed statement or crash.
CONSTANTS
  q1 = q1
  q2 = q2
  q3 = q3
  p1 = p1
  p2 = p2
  c1 = c1
  c2 = c2
  None = None
  NoContent = NoContent
  Cleanup = cleanup
  Requests = {q1, q2, q3}
  PlaylistIds = {p1, p2}
  Unscheduled = {p2}
  Contents = {c1, c2}
  Slots = {1}
  Flash = {}
  Unready = {}
  Length <- Videos
  Started <- TwoItems
  Adds <- SomeAdds
  Updates <- SomeUpdates
  Orders <- SomeOrders
  Lists <- SomeLists
  MaxDuration = 4
  MaxItems = 5
  MaxOverlap = 2
  MaxBreaks = 1
SPECIFICATION PlaylistsSpec
SYMMETRY RequestSymmetry
INVARIANTS
  BookkeepingIsTrue
PROPERTIES
  LimitsBreakFromStaleList
  
CHECK_DEADLOCK FALSE
