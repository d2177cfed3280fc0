SPECIFICATION FairSpec
CONSTANTS
  d1 = d1
  d2 = d2
  d3 = d3
  n1 = n1
  n2 = n2
  Dialog <- MCDialog
  Name <- MCName
  ULongMax = 255
  ULongLongMax = 65535
INVARIANTS IndInv FilledOnce ListedNamesKnown ListComplete
PROPERTIES DisabledForAWhile
