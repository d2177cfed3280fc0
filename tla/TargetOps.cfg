SPECIFICATION FairSpec
CONSTANTS
  m1 = m1
  m2 = m2
  t1 = t1
  o1 = o1
  o2 = o2
  p1 = p1
  p2 = p2
  Zero = Zero
  Null = Null
  Main <- MCMain
  Target <- MCTarget
  Overlay <- MCOverlay
  Place <- MCPlace
INVARIANTS IndInv DisabledByOne
PROPERTIES SetUpMovesNothing EnabledAgain LocateEnds
