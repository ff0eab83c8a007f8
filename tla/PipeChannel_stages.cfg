SPECIFICATION FairSpec
CONSTANTS
  Stages <- MixedStages
  Emits = 2
  PipeCapacity = 2
  BufCapacity = 2
  MaxPipes = 6
CHECK_DEADLOCK FALSE
INVARIANTS NoPanic InOrder NothingLost
PROPERTIES StagesEnd
