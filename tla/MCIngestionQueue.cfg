\* Two requests about one content, any two failures, fair scheduling.
SPECIFICATION FairSpec
CONSTANTS
  j1 = j1
  j2 = j2
  c1 = c1
  Jobs = {j1, j2}
  Contents = {c1}
  ContentOf <- SameContent
  MaxEnqueueAttempts = 2
  MaxDeliveries = 2
  BatchSize = 2
  StreamCapacity = 1
  Faults = {"store", "rows", "push", "read", "work", "ack", "mark", "dlq", "crash", "api"}
  MaxFaults = 2
INVARIANTS
  UnfinishedJobIsCarried
  RestingRowsAreTrue
PROPERTIES
  ImplementsDelivery
  JobsEnd
CHECK_DEADLOCK FALSE
