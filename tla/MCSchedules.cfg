\* Three requests, the maintenance and a sweep that comes round again, fairly; five
\* minutes of two days one at a time, two minutes two at a time.
SPECIFICATION MCSpec
CONSTANTS
  a = a
  b = b
  c = c
  sweep = sweep
  p1 = p1
  p2 = p2
  lobby = lobby
  None = None
  Maintenance = Maintenance
  DayLength = 3
  Requests = {a, b, c}
  Sweeps = {sweep}
  Playlists = {p1, p2}
  Displays = {lobby}
  Drafts <- AllDrafts
  MaxTime = 4
  MaxOverlap = 2
  PlaylistRetention = 2
  ScheduleRetention = 1
INVARIANTS
  OverlapsWereUnseen
  ActiveIsPlayable
PROPERTIES
  SerialIsExact
  StatusesSettle
CHECK_DEADLOCK FALSE
