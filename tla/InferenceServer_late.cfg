CONSTANTS
  c1 = c1
  c2 = c2
  None = None
  Absent = Absent
  Partial = Partial
  Conns <- TwoConns
  Requests <- LateEdits
  KeepImages = FALSE
  DiskFaults = FALSE
  MaxRequests = 2
  MaxMs = 1
SPECIFICATION Spec
INVARIANT UploadsRemovedAfterRequests
