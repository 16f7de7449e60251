\* Every cached route, two requests beside two of the writes for two of them;
\* the increments of an invalidation arrive one by one or not at all.
CONSTANTS
  q1 = q1
  q2 = q2
  w1 = w1
  w2 = w2
  Read <- Reads
  Write <- Writes
  Silent <- SilentPairs
  Scope = {"user", "admin"}
  Request = {q1, q2}
  Writer = {w1, w2}

SPECIFICATION MCSpec

INVARIANTS
  
  OwnScope
