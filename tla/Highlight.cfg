SPECIFICATION Spec
CONSTANTS
  UI = UI
  Empty = Empty
  editor = editor
  f1 = f1
  r1 = r1
  r2 = r2
  Finders <- MCFinders
  Flashers <- MCFlashers
  Rects <- MCRects
  Flashes = 2
INVARIANTS IndInv CleanWhenAlone
PROPERTIES ImplementsFrame
SYMMETRY Symmetry
