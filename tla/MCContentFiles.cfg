\* Five requests one after another, or three of them side by side; two failures.
SPECIFICATION MCSpec
CONSTANTS
  u = u
  r1 = r1
  r2 = r2
  p = p
  d = d
  png = png
  jpg = jpg
  None = None
  Requests = {u, r1, r2, p, d}
  OperationOf <- PlanOfRequests
  Mimes = {png, jpg}
  MaxOverlap = 3
  MaxAttempts = 2
  Failures = {"store", "rows", "push", "work", "crash", "api", "late"}
  MaxFailures = 2
SYMMETRY MimeSymmetry
INVARIANTS
  
  
  NoOrphanFiles
CHECK_DEADLOCK FALSE
