SPECIFICATION Spec
CONSTANTS
  default = default
  v1 = v1
  v2 = v2
  bad = bad
  Usable <- MCUsable
  Mistyped <- MCMistyped
  Default <- default
  MaxFails = 1
  MaxRuns = 1
PROPERTIES NoBlindOverwrite
CHECK_DEADLOCK FALSE
