CONSTANTS
  c1 = c1
  c2 = c2
  None = None
  Absent = Absent
  Partial = Partial
  Conns <- TwoConns
  Requests <- AllRequests
  KeepImages = FALSE
  DiskFaults = TRUE
  MaxRequests = 2
  MaxMs = 2
  MaxCrashes = 2
SPECIFICATION LifeSpec
SYMMETRY Symmetry2
INVARIANT ArchiveKept
INVARIANT OneWorkerAtATime
INVARIANT OwnPicture
INVARIANT OwnInput
INVARIANT RetentionPolicy
INVARIANT InfoOfRenderedPicture
PROPERTY ArchivedPictureServed
