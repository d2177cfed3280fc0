SPECIFICATION SharedFairSpec
CONSTANTS
  p1 = p1
  p2 = p2
  p3 = p3
  Proc <- MCProc
  MaxBusy = 1
INVARIANTS SharedInv OneProcess WindowsPerLaunch
PROPERTIES NoLostUpdate LaunchEnds
CHECK_DEADLOCK FALSE
