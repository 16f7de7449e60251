\* One display: they share nothing but the reconciler's pass, and a pass that fails
\* leaves one undone.  Three changes of schedules, hours or registration and two
\* failures; a key lasts two minutes and a display is DOWN after five.
CONSTANTS
  d1 = d1
  None = None
  Displays = {d1}
  Ttl = 2
  Window = 5
  MaxChanges = 3
  MaxFaults = 2
SPECIFICATION StatusSpec
PROPERTIES
  DownOnlyInSilence
  StatusFollows
CHECK_DEADLOCK FALSE
