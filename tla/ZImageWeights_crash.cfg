CONSTANTS
  Tensors = 2
  Judged <- FirstTensor
  Snapshots <- SeveralSnapshots
  AutoDownload = TRUE
  MaxChecks = 3
  DiskFaults = TRUE
  ExpBits = 4
  MantBits = 5
  KeptBits = 2
  HalfExpBits = 3
  HalfMantBits = 3
SPECIFICATION FairSpec
INVARIANT PreparationRepairs
INVARIANT ArtifactsRemoved
INVARIANT DownloadsWhole
INVARIANT ReadyButForVae
PROPERTY WholeStaysWhole
PROPERTY EveryCheckEnds
CHECK_DEADLOCK FALSE
