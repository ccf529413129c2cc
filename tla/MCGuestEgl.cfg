\* Two threads over two addresses of contexts and one of a surface; a pipe
\* holds one command, so that other threads overtake it.
SPECIFICATION Spec
CONSTANTS
  t1 = t1
  t2 = t2
  c1 = c1
  c2 = c2
  Threads = {t1, t2}
  Ctxs = {c1, c2}
  Surfs = {21}
  Buffers = {31}
  MaxHandles = 3
  PipeSize = 1
INVARIANTS BindingsAgree HostKeepsWhatGuestHolds BuffersCounted
SYMMETRY Symmetric
CHECK_DEADLOCK FALSE
