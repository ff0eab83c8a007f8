\* Two strands that may hold each other, and two nodes: every cycle through either
\* kind, and the stacks of strands that unwind while the collector runs again.
SPECIFICATION Spec
CONSTANTS
  n1 = n1
  n2 = n2
  s1 = s1
  s2 = s2
  f = f
  Main = Main
  None = None
  Nodes <- TwoNodes
  Strands <- TwoStrands
  Fields <- OneField
  MaxRefs = 5
SYMMETRY HeapSymmetry
INVARIANTS CountsAreExact NothingDangles NoClearIsDeferred CancelsOnlyOrphans GarbageGoes CloseLeavesOnlyResults
PROPERTIES KeepsWhatIsInUse
CHECK_DEADLOCK FALSE
