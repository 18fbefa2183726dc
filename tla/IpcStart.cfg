CONSTANTS
  p1 = p1
  p2 = p2
  c1 = c1
  Producers <- MCTwoP
  Consumers <- MCOneC
  BUFS = 2
  Products = {1}
  MaxStartKills = 1
SPECIFICATION FairStartSpec
PROPERTIES StartsSteady LateSetvalHarmsOnlyFull CreatorFills
CHECK_DEADLOCK FALSE
