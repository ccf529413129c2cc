\* Four requests, enough to fill the queue behind a request that is being read
\* out; the last two have a BLOB buffer, and the third may fail to be locked.
SPECIFICATION Spec
CONSTANTS
  MaxFrames = 4
  JpegFrames = {3, 4}
  FailFrames = {3}
  kMaxQueueSize = 2
INVARIANTS FramesInStep LocksFollowOwnership ShutterAnnouncesResult ReadyMeansDrained
PROPERTIES AcceptedFramesAnswered
CHECK_DEADLOCK FALSE
