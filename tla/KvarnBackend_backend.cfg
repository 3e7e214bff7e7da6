SPECIFICATION MCSpec
CONSTANTS
  MaxRows = 2
  MaxTokens = 6
  MaxLen = 5
  Group = 2
  MaxQuery = 2
  MaxFused = 3
  MinBlocks = 3
  ScratchRows = 4
  KVHeads = 1
  SMs = 2
  Splits = 2
  SplitBlocks = 2
  Options <- MCOptions
  h256 = h256
  None = None
  Targets <- MCTargets
  Drafts <- MCDrafts
  Shapes = {h256}
  Shape <- MCShape
  NumGpuBlocks = 3
  ProfBlocks = 2
  LookupFloor = 1
  LookupBounds = {0, 4}
  Slots = {1, 2}
  Parts = {1}
INVARIANTS AttendsExactly DecodesSeeContext OneOwner GraphsReadTheLiveMirror
PROPERTIES CompiledWhenProfiled PagedSpec
CHECK_DEADLOCK FALSE
