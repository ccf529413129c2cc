\* Four ids for three calls: an id repeats only through the race.
SPECIFICATION Spec
CONSTANTS
  launch1 = launch1
  launch2 = launch2
  focus = focus
  launchHandle = launchHandle
  focusHandle = focusHandle
  Calls <- MCCalls
  Handles <- MCHandles
  HandleOf <- MCHandleOf
  Timed <- MCCalls
  Checked <- MCCalls
  IdSpace = 4
  NoCall = NoCall
INVARIANTS ClosureRunsOnce StuckOnlyAfterClash
  FalseSuccessIsShared
CHECK_DEADLOCK FALSE
