SPECIFICATION SessionSpec
CONSTANTS
  start = start
  stop = stop
  Calls <- MCCalls
  Handles <- MCCalls
  HandleOf <- MCHandleOf
  Timed <- MCTimed
  Checked = {}
  IdSpace = 3
  NoCall = NoCall
PROPERTIES StartedSessionExits FailedStopReleasesStart
CHECK_DEADLOCK FALSE
