SPECIFICATION Spec
CONSTANTS
  Sounds <- TheSounds
  BelowMin <- FirstIsLow
  Ni = 2
  N0 = 3
  MaxMishaps = 2
  MaxUsers = 2
INVARIANTS
  WordsReadBack
  VectorsStayApart
  Resynchronises
  NoiseStaysInTune
  TalkIsSent
  CleanLinkNeverAlarms
PROPERTY LevelFromCleanGains
CHECK_DEADLOCK FALSE
