\* a has a trailer, b takes two fragments, has handles and may be cancelled;
\* every producer ends its trailer.
SPECIFICATION FairSpec
CONSTANTS
  a = a
  b = b
  c = c
  Msgs <- ThreeMsgs
  Size <- Sizes
  Batches <- SomeHandles
  Streams <- OnlyA
  Cancels <- OnlyB
  Fragment = 1
  Quota = 2
  MaxCalls = 1
CHECK_DEADLOCK FALSE
INVARIANTS QuotaConserved PeersConform NoLostWakeup
PROPERTIES EveryMessageArrives
