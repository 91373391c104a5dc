SPECIFICATION FairSpec
CONSTANTS
  Reliable = FALSE
  Codes <- MCCodes
INVARIANTS OneOutcome RegisteredWhileAlive
PROPERTIES BothEnd KeepsPromise
CHECK_DEADLOCK FALSE
