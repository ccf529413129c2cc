\* Three updates of three windows in two tasks, an event, a frame, a failure.
SPECIFICATION Spec
CONSTANTS
  Tasks <- MCTasks
  AWindows <- MCAWindows
  TaskOf <- MCTaskOf
  Bare = {"main"}
  Handles = {11, 12, 13}
  MaxMessages = 3
  MaxChanges = 4
  MaxEvents = 1
  MaxFrames = 1
  MaxFailures = 1
INVARIANTS NativeWindowsLive WindowsFollowAndroid
CHECK_DEADLOCK FALSE
PROPERTIES NobodyWaitsForever
