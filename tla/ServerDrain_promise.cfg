\* Three calls, one of which ends the server and one of which uploads; one
\* response may be outstanding, and the client may vanish between uploads.
SPECIFICATION FairSpec
CONSTANTS
  a = a
  b = b
  s = s
  Calls <- ThreeCalls
  Stoppers <- OnlyS
  Uploads <- OnlyA
  Quota = 1
  Vanish = "uploaded"
CHECK_DEADLOCK FALSE
INVARIANTS EveryCallIsHeldOnce SealedMeansAnswered
PROPERTIES KeepsPromise
