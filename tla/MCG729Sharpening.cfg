SPECIFICATION Spec
CONSTANTS
  Sounds <- TheSounds
  BelowMin <- FirstIsLow
  Ni = 2
  N0 = 3
  MaxMishaps = 0
  MaxUsers = 1
INVARIANT SharpenAlike
CHECK_DEADLOCK FALSE
