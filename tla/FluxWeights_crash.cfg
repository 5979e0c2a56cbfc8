CONSTANTS
  Size <- FluxSize
  Judged <- FluxJudged
  Asked <- FluxAsked
  Repos <- SeveralRepos
  Configs <- AllConfigs
  Crashes = TRUE
  MaxChecks = 2
SPECIFICATION FairSpec
INVARIANT NeverTorn
INVARIANT SealedGroupsWhole
INVARIANT WantedGroupsWhole
INVARIANT ArtifactsRemoved
PROPERTY NothingUndone
PROPERTY EveryCheckEnds
CHECK_DEADLOCK FALSE
