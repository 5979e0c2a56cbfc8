CONSTANTS
  c1 = c1
  c2 = c2
  None = None
  Absent = Absent
  Partial = Partial
  Conns <- TwoConns
  Requests <- ServiceRequests
  KeepImages = FALSE
  DiskFaults = FALSE
  MaxRequests = 3
  MaxMs = 0
  MaxCrashes = 0
SPECIFICATION FairLifeSpec
INVARIANT UploadsOwned
PROPERTY RetainedPictureServed
PROPERTY ImplementsService
PROPERTY EveryRequestAnswered
