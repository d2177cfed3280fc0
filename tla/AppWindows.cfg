SPECIFICATION PlaceFairSpec
CONSTANTS
  w1 = w1
  w2 = w2
  Win <- MCWin
  MaxPosts = 2
  MaxHides = 1
INVARIANTS PlaceInv NoProcessWithoutWindow
PROPERTIES QuitOnlyWithoutWindows ResidentStays ImplementsLifetime ClosedForGood ImplementsFairLifetime OpensWhereLeft
CHECK_DEADLOCK FALSE
