CONSTANTS
  c1 = c1
  c2 = c2
  None = None
  Conns <- TwoConns
  Catalog <- LoraCatalog
  Configs <- SomeConfigs
  Requests <- SomeRequests
  Chats <- SomeChats
  Window = 1
  Polls = 2
  MaxUpdates = 2
SPECIFICATION FairSpec
INVARIANT LatestSelectionWins
INVARIANT NoSelectionMissed
INVARIANT KindsApart
INVARIANT TargetKept
INVARIANT PromptUsed
INVARIANT OptionsAnswered
PROPERTY EveryModelResolved
