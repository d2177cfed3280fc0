SPECIFICATION Spec
CONSTANTS
  UI = UI
  Empty = Empty
  editor = editor
  f1 = f1
  r1 = r1
  r2 = r2
  Finders <- MCFinder
  Flashers <- MCFlashers
  Rects <- MCRects
  Flashes = 1
INVARIANTS CleanWhenQuiet
