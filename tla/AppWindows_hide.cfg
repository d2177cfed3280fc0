SPECIFICATION PlaceSpec
CONSTANTS
  w1 = w1
  w2 = w2
  Win <- MCWin
  MaxPosts = 1
  MaxHides = 1
PROPERTIES HideHides
CHECK_DEADLOCK FALSE
