SPECIFICATION AckSpec
CONSTANTS
  MaxInvites = 2
  MaxCopies = 2
INVARIANTS LivesWhileAccepted
CHECK_DEADLOCK FALSE
