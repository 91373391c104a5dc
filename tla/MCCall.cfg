SPECIFICATION CallFairSpec
CONSTANTS
  alice = alice
  bob = bob
  Caller = alice
  Callee = bob
  MaxCSeq = 2
  ReInviters <- MCBoth
  DefaultServers <- MCBoth
INVARIANTS ActiveWasAccepted
PROPERTIES CallerHangsUp ClosedIsFinal HangupCloses
CHECK_DEADLOCK FALSE
