\* Four gifts pass the ceiling of the owner's count while they are written, and
\* the threshold of the peer's once they have arrived; two requests cite.
SPECIFICATION Spec
CONSTANTS
  x = x
  y = y
  Cites <- TwoCites
  Gifts = 4
  MaxCount = 3
  Threshold = 3
SYMMETRY CiteSymmetry
CHECK_DEADLOCK FALSE
INVARIANTS GrantsBalance CitationsResolve HandlesKeepTheirEntries NothingLeaks
