\* Buffers of one or two bytes, reads of one byte at first: leftovers, several
\* Buffers per read, a growing ReadBuffer and replies that wait for room.
SPECIFICATION FairSpec
CONSTANTS
  NoBuffer = NoBuffer
  Data <- MCData
  InCapacity = 2
  OutCapacity = 1
  StreamBuffer = 1
  MaxChunk = 2
  MaxIn = 3
  MaxOut = 2
INVARIANTS InputConserved RepliesInOrder
PROPERTY ForceStopEndsThreads
