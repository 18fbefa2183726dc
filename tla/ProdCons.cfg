CONSTANTS
  p1 = p1
  p2 = p2
  c1 = c1
  Producers <- MCTwo
  Consumers <- MCOneC
  BUFS = 3
  Products = {1, 2}
SPECIFICATION FairSpec
INVARIANTS TypeOK SlotOwnership NoSlotLost PopNeverBlocks
PROPERTIES BufferSpec EverySlotReturns
