SPECIFICATION Spec
CONSTANTS
  w1 = w1
  o1 = o1
  m1 = m1
  e1 = e1
  Layered = Layered
  Style = Style
  Opaque = 255
  Nothing = Nothing
  Mains = {w1}
  Others = {o1}
  Menus = {m1}
  Editors = {e1}
  Flags = {Layered, Style}
  Basic = {Style}
  Frame = {Style}
  Toggles <- MCToggles
  Alphas <- MCAlphas
INVARIANTS StyleInv
PROPERTIES SparesOthers OpensAsLeft
