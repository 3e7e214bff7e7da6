SPECIFICATION MCSpec
CONSTANTS
  Group = 4
  Budgets <- MCBudgets
  Batches = {8, 40}
  Requested = {3, 20}
  Safetensors <- MCSafetensors
  Bins <- MCBins
  Index <- MCIndex
  IndexOf <- MCIndexOf
  Singles <- MCSingles
  Holds <- MCHolds
  Models <- MCModels
  TotalBytes = 4000
  ParamBytes = 600
  Share = 50
  Frac = 8
  SlotLayerBytes = 16
  Utils = {60, 90}
  Degrees = {1, 2}
  Model <- MCModel
  GemmMaxRows = 2
  Sources <- MCSources
  Rows = 9
  Bytes256 = {0, 1}
  Added = {8}
  Whitespace = {1, 3}
  Special = {1, 8}
  Sizes = {3, 5, 6}
  Align = 4
  RowBytes = 3
  IdBytes = 2
  HeaderBytes = 3
  InfoBytes = 2
  SrcTensors <- MCTensors
  SampleRows = {0, 2, 4}
  SampleTensors = {"token_embd"}
  Tokens = {1, 2}
  DraftSteps = 2
  VerifySteps = 4
  NMin = 2
  NMax = 4
  NStrong = 3
  AgreeMin = 1
  NMinTail = 2
  SearchMax = 0
  MaxHistory = 11
  DraftRow <- MCDraftRow
  Targets <- MCTargets
  Grace = 5
  Poll = 2
  Restarts = 1
INVARIANTS DemandBounded PoolLeavesTheWeights ServedAsPacked IntactPackLoads PublishedIsWhole ValidatedIsCurrent OutputIsTheTargets NoFalseFailure
PROPERTIES Answers
CHECK_DEADLOCK FALSE
