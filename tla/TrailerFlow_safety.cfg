\* Producers finish their trailers; consumers may drop theirs half-way.
SPECIFICATION Spec
CONSTANTS
  a = a
  b = b
  Ids <- TwoIds
  Window = 2
  CreditInterval = 8
  MaxFragment = 2
  SendCopyThreshold = 1
  RecvCopyThreshold = 1
  RecvDemandCopyThreshold = 0
  Manual <- OnlyB
  Stoppable <- NoneOf
  TrailerLen = 2
  Liberties <- DropEarly
INVARIANTS TypeOK NoOverrun LeaseHoldsCredit NoStrandedCredit
