\* Both applications take every liberty.
SPECIFICATION Spec
CONSTANTS
  a = a
  b = b
  Ids <- TwoIds
  Window = 2
  CreditInterval = 8
  MaxFragment = 2
  SendCopyThreshold = 1
  RecvCopyThreshold = 1
  RecvDemandCopyThreshold = 0
  Manual <- NoneOf
  Stoppable <- NoneOf
  TrailerLen = 2
  Liberties <- Everything
SYMMETRY Symmetry
INVARIANTS PoolsConserved ReceiverOwesWhatItHolds
