\* Two calls compete for one slot; a has trailers both ways and may fail to encode; calls are cancelled anywhere.
SPECIFICATION Spec
CONSTANTS
  a = a
  b = b
  Calls <- TwoCalls
  MaxCalls = 1
  ReqStreams <- OnlyA
  RespStreams <- OnlyA
  Unencodable <- OnlyA
  Events <- Interrupting
INVARIANTS TypeOK PeersConform OneHolderPerSlot PendingIsUnderWay
