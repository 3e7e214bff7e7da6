SPECIFICATION TileSpec
CONSTANTS
  l1 = l1  l2 = l2
  b1 = b1  b2 = b2  b3 = b3
  s1 = s1  s2 = s2  s3 = s3
  None = None
  Presets <- MCPresets
  HeadDims = {4, 8}
  WideHead = 8
  KernelMax = 6
  Layers <- MCLayers
  Hk = 2
  Blocks = {b1, b2, b3}
  Slots = {s1, s2, s3}
  MaxTiles = 4
  MaxPairs = 4
  Multiples = {3}
  MaxStamp = 3
  Imbalance <- MCImbalance
SYMMETRY Same
INVARIANTS BlocksAreTiles ReadersFindTheTile
CHECK_DEADLOCK FALSE
