SPECIFICATION FairSpec
CONSTANTS
  Reliable = FALSE
  AutoTrying = TRUE
  Codes <- MCCodes
INVARIANTS OutcomesAgree RegisteredWhileAlive AckMeansRefused
PROPERTIES BothSettle
CHECK_DEADLOCK FALSE
