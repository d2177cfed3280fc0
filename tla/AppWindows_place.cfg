SPECIFICATION PlaceSpec
CONSTANTS
  w1 = w1
  w2 = w2
  Win <- MCWin
  MaxPosts = 1
  MaxHides = 1
PROPERTIES OpensOnScreen
CHECK_DEADLOCK FALSE
