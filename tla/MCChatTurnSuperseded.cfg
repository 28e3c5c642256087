\* A new message overtakes the continuation that runs an approved call.
SPECIFICATION Spec
CONSTANTS
  Turns = {t1, t2}
  MaxReplies = 2
  MaxCalls = 1
  MaxFaults = 0
  MayOverrun = FALSE
INVARIANT ClosedCallsDidNotRun
\* Everything may be settled, the replies and calls used up.
CHECK_DEADLOCK FALSE
