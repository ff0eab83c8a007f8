\* Cancellation, shutdown, close and the loss of the transport, at any time.
SPECIFICATION FairSpec
CONSTANTS
  a = a
  b = b
  Calls <- TwoCalls
  MaxCalls = 1
  ReqStreams <- NoneOf
  RespStreams <- NoneOf
  Unencodable <- OnlyA
  Events <- Ending
PROPERTIES CallsResolveUnlessDiscarded
