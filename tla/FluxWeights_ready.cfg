CONSTANTS
  Size <- FluxSize
  Judged <- FluxJudged
  Asked <- FluxAsked
  Repos <- OneRepo
  Configs <- DefaultConfig
  Crashes = FALSE
  MaxChecks = 1
SPECIFICATION Spec
INVARIANT ReadyMeansNoneMissing
CHECK_DEADLOCK FALSE
