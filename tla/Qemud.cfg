\* Two clients and two channel numbers, one of them 0: the counter wraps, numbers are
\* given out again, and a client may find all of them taken.
SPECIFICATION QemudSpec
CONSTANTS
  Connections = {1, 2}
  Channels = 2
  FirstChannel = {0}
  MaxChunks = 3
  MaxEmulator = 1
CHECK_DEADLOCK FALSE
INVARIANTS PoliteNeverUndefined ClientsAreHeard ChannelsAgree
PROPERTIES GoneClientsForgotten
