SPECIFICATION ViewSpec
CONSTANTS
  o1 = o1
  o2 = o2
  Others <- MCOthers
  Self = Self
  Child = Child
  None = None
INVARIANTS ViewInv FrameOnTarget IconShown OwnOrderKept
PROPERTIES OwnWindowKeepsTarget BoxTruthful ViewCatchesUp
