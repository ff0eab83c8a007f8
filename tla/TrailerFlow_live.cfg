\* The consumer of a may stop for good; the pool has room for b beside it.
SPECIFICATION FairSpec
CONSTANTS
  a = a
  b = b
  Ids <- TwoIds
  Window = 3
  CreditInterval = 8
  MaxFragment = 2
  SendCopyThreshold = 1
  RecvCopyThreshold = 0
  RecvDemandCopyThreshold = 0
  Manual <- NoneOf
  Stoppable <- OnlyA
  TrailerLen = 2
  Liberties <- Patient
PROPERTIES OthersFinish
