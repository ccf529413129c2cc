\* One producer and one consumer, as on each queue of BufferedIOStream.
\* Three slots: pos_ wraps, and full, empty and in between are distinct.
SPECIFICATION Spec
CONSTANTS
  NoBuffer  = NoBuffer
  Data      = {a, b}
  Capacity  = 3
  Producers = {p1}
  Consumers = {c1}
INVARIANTS OccupiedSlotsHoldData NoLostWakeup
PROPERTY ImplementsFifo
