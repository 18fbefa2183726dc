CONSTANTS
  N = 3
  BUFS = 2
  Sizes <- MCSizes
SPECIFICATION FairSpec
INVARIANTS CopyCorrect DropDisturbsNobody
PROPERTY Terminates
CHECK_DEADLOCK FALSE
