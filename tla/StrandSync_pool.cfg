\* A visitor that may be cancelled and two producers share two permits.
SPECIFICATION FairSpec
CONSTANTS
  v = v
  p = p
  q = q
  c = c
  d = d
  Visitors <- OneVisitor
  Producers <- TwoProducers
  Consumers <- TwoConsumers
  Cancellable <- OneVisitor
  Limit = 2
  Capacity = 2
  Rounds = 2
  MaxDepth = 2
  CloseRecv = TRUE
CHECK_DEADLOCK FALSE
INVARIANTS PermitsConserved WaitersAreWaiting NoLostPermit NoStuckWaiter TakenInOrder
PROPERTIES EveryoneEnds
