SPECIFICATION FairSpec
CONSTANTS
  default = default
  v1 = v1
  v2 = v2
  bad = bad
  Usable <- MCUsable
  Mistyped <- MCMistyped
  Default <- default
  MaxFails = 2
  MaxRuns = 3
INVARIANTS IndInv ResetRecovers
PROPERTIES NoBlindOverwriteUnlessFixed SettingsReachFile
CHECK_DEADLOCK FALSE
