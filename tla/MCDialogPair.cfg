SPECIFICATION Spec
CONSTANTS
  alice = alice
  bob = bob
  Caller = alice
  Callee = bob
  MaxCSeq = 2
  ReInviters <- MCBoth
  DefaultServers <- MCCaller
INVARIANTS OneFinalAnswer CallIsMutual ByeAgreement
PROPERTIES CloseIsFinal
CHECK_DEADLOCK FALSE
