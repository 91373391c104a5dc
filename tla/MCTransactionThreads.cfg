SPECIFICATION FairSpec
INVARIANTS HaltIsFinal RefusedOrTimedOut
PROPERTIES ThreadsFinish
CHECK_DEADLOCK FALSE
