SPECIFICATION FairAckSpec
CONSTANTS
  MaxInvites = 1
  MaxCopies = 1
PROPERTY GivesUp
CHECK_DEADLOCK FALSE
