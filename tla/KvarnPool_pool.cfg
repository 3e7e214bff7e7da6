SPECIFICATION Spec
CONSTANTS
  Blocks = {b1, b2, b3, b4}
  Slots = {1, 2, 3}
  NoSlot = NoSlot
  Reqs = {r1, r2}
  PromptLen = 3
  Turn <- MCTurn
  Prompt <- MCPrompt
  MaxLen = 6
  Keys <- MCKeys
  NoKey = NoKey
  Stream <- MCStream
  Group = 2
  Chunk = 2
  MaxQuery = 2
  DraftPasses = 1
SYMMETRY Symmetry
VIEW SlotView
INVARIANTS SlotPartition ReadsAsWritten CacheHitsFindData RetiredIsSpare ExhaustedOnlyByDemand
PROPERTIES LiveSinkStays
