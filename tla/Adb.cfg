\* Three connections of adbd over two threads of Runtime, so that those that
\* wait for the lock can take every thread; two connections of the adb server.
SPECIFICATION Spec
CONSTANTS
  Conns = {1, 2, 3}
  HostSockets = {21, 22}
  Threads = 2
  MaxSends = 4
  MaxHostSends = 1
INVARIANTS ActiveOwnsPort HandshakeNotLeaked
PROPERTIES LockComesBack
CHECK_DEADLOCK FALSE
