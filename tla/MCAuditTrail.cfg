\* Two events, one of which is refused; a stream of two entries, reads of three,
\* two at a time; pages of one row; two failures or crashes and one flush.
CONSTANTS
  e1 = e1
  e2 = e2
  Events = {e1, e2}
  Poison = {e2}
  MaxPushes = 2
  MaxDeliveries = 2
  Capacity = 2
  Batch = 3
  Chunk = 2
  Page = 1
  MaxRows = 2
  MaxFaults = 2
  MaxFlushes = 1
SPECIFICATION Spec
INVARIANTS
  Inv
PROPERTIES
  ExportIsExact
  InTheEndRecorded
CHECK_DEADLOCK FALSE
