--------------------------- MODULE MessageFraming ---------------------------
(***************************************************************************)
(* The framing of RPC messages: Channel::send_message and                  *)
(* MessageProcessor::send_response put a header of three size digits and a *)
(* type before a message, BaseSocketMessenger::send writes it to a         *)
(* non-blocking socket, and MessageProcessor::process_data cuts the        *)
(* messages out of the bytes that async_read_some returns.                 *)
(*                                                                         *)
(* A byte is a number below Base (256 in the code).  Channel::write_mutex_ *)
(* is not modelled: at most one of the Senders uses the channel.           *)
(***************************************************************************)
EXTENDS Integers, Sequences, FiniteSets

CONSTANTS
  Base,          \* values of a byte
  Senders,       \* threads that send: one through the channel, others answer
  NoSender,
  Payloads,      \* serialised messages
  MaxMessages,   \* bound: messages sent
  Capacity,      \* bytes the socket holds (SO_SNDBUF)
  MaxRead        \* size of the buffer that is read into (8192)

Byte == 0 .. (Base - 1)
Invocation == 0
Response == 1
HeaderSize == 4

ASSUME FramingAssumption ==
  /\ Base \in Nat \ {0, 1}
  /\ NoSender \notin Senders
  /\ \A p \in Payloads : p \in Seq(Byte) /\ Len(p) < Base * Base * Base
  /\ {MaxMessages, Capacity, MaxRead} \subseteq Nat \ {0}

Messages == [type : {Invocation, Response}, payload : Payloads]

VARIABLES
  message,     \* the framed message a sender is sending, << >> if none
  offset,      \* how much of it ba::write has written
  lock,        \* message_lock
  sent,        \* history: the messages given to send, in the order it finished them
  torn,        \* history: a message was written again after a part of it was taken
  wire,        \* bytes in the socket
  stream,      \* history: all bytes the socket took
  ends,        \* history: where in the stream each of the messages in sent ends
  buffer,      \* buffer_ of the MessageProcessor
  processor,   \* "waiting", "parsing" or "overrun"
  dispatched   \* history: the messages processed

sendVars == <<message, offset, lock, sent, torn>>
processorVars == <<buffer, processor, dispatched>>
streamVars == <<stream, ends>>
framingVars == <<sendVars, wire, streamVars, processorVars>>

FramingInit ==
  /\ message = [t \in Senders |-> << >>] /\ offset = [t \in Senders |-> 0]
  /\ lock = NoSender /\ sent = << >> /\ torn = FALSE
  /\ wire = << >> /\ stream = << >> /\ ends = << >>
  /\ buffer = << >> /\ processor = "waiting" /\ dispatched = << >>

----------------------------------------------------------------------------
\* Mutant of Framed: the lower two digits of the size are swapped.
FramedSwapped(m) ==
  LET size == Len(m.payload)
  IN  <<(size \div (Base * Base)) % Base, size % Base, (size \div Base) % Base,
        m.type>> \o m.payload

(* The header: the lower three digits of the size, then the type. *)
Framed(m) ==
  LET size == Len(m.payload)
  IN  <<(size \div (Base * Base)) % Base, (size \div Base) % Base, size % Base,
        m.type>> \o m.payload

MessageSize(b) == b[1] * Base * Base + b[2] * Base + b[3]

SendsStarted == Len(sent) + Cardinality({t \in Senders : message[t] # << >>})

SendStarts(t, m) ==
  /\ message[t] = << >> /\ SendsStarted < MaxMessages
  /\ message' = [message EXCEPT ![t] = Framed(m)]
  /\ UNCHANGED <<offset, lock, sent, torn, wire, streamVars, processorVars>>

(* Bound: nothing is written after a torn message, whose sender could      *)
(* repeat the part that was taken without end.                             *)
TakeLock(t) ==
  /\ message[t] # << >> /\ lock = NoSender /\ ~torn
  /\ lock' = t
  /\ UNCHANGED <<message, offset, sent, torn, wire, streamVars, processorVars>>

(* One write_some of ba::write: the socket takes what it has room for. *)
Room == Capacity - Len(wire)
Rest(t) == Len(message[t]) - offset[t]
WriteSome(t) ==
  /\ lock = t /\ Rest(t) > 0 /\ Room > 0
  /\ LET n == IF Rest(t) <= Room THEN Rest(t) ELSE Room
         part == SubSeq(message[t], offset[t] + 1, offset[t] + n)
     IN  /\ wire' = wire \o part /\ stream' = stream \o part
         /\ offset' = [offset EXCEPT ![t] = @ + n]
  /\ UNCHANGED <<message, lock, sent, torn, ends, processorVars>>

(* The socket takes nothing although the rest does not fit: try_again.     *)
(* The lock is released and the loop of send() writes the message from its *)
(* beginning, whatever was taken of it before.                             *)
WriteAgain(t) ==
  /\ lock = t /\ Rest(t) > Room
  /\ lock' = NoSender
  /\ offset' = [offset EXCEPT ![t] = 0]
  /\ torn' = (torn \/ offset[t] > 0)
  /\ UNCHANGED <<message, sent, wire, streamVars, processorVars>>

(* transfer_all is satisfied. *)
SendEnds(t) ==
  /\ lock = t /\ offset[t] = Len(message[t])
  /\ sent' = Append(sent, message[t]) /\ ends' = Append(ends, Len(stream))
  /\ message' = [message EXCEPT ![t] = << >>]
  /\ offset' = [offset EXCEPT ![t] = 0]
  /\ lock' = NoSender
  /\ UNCHANGED <<torn, wire, stream, processorVars>>

----------------------------------------------------------------------------
(* async_read_some returns some of the bytes in the socket. *)
Receive(n) ==
  /\ processor = "waiting" /\ n <= Len(wire)
  /\ buffer' = buffer \o SubSeq(wire, 1, n)
  /\ wire' = SubSeq(wire, n + 1, Len(wire))
  /\ processor' = "parsing"
  /\ UNCHANGED <<sendVars, streamVars, dispatched>>

\* Mutant of ParseStep: one message is taken out per read.
ParseStepOnce ==
  /\ processor = "parsing" /\ Len(buffer) >= HeaderSize
  /\ LET end == HeaderSize + MessageSize(buffer)
     IN  IF Len(buffer) < end
         THEN UNCHANGED <<buffer, dispatched>>
         ELSE /\ dispatched' = Append(dispatched, SubSeq(buffer, 1, end))
              /\ buffer' = SubSeq(buffer, end + 1, Len(buffer))
  /\ processor' = "waiting"
  /\ UNCHANGED <<sendVars, wire, streamVars>>

(* One round of the loop of process_data with a whole header. *)
ParseStep ==
  /\ processor = "parsing" /\ Len(buffer) >= HeaderSize
  /\ LET end == HeaderSize + MessageSize(buffer)
     IN  IF Len(buffer) < end
         THEN /\ processor' = "waiting"
              /\ UNCHANGED <<buffer, dispatched>>
         ELSE /\ dispatched' = Append(dispatched, SubSeq(buffer, 1, end))
              /\ buffer' = SubSeq(buffer, end + 1, Len(buffer))
              /\ UNCHANGED processor
  /\ UNCHANGED <<sendVars, wire, streamVars>>

ParseEnds ==
  /\ processor = "parsing" /\ buffer = << >>
  /\ processor' = "waiting"
  /\ UNCHANGED <<sendVars, wire, streamVars, buffer, dispatched>>

(* Less than a header: buffer_[1..3] are read past the end, and            *)
(* buffer_.size() - header_size wraps round to a number that no message    *)
(* size exceeds, so the message is parsed and erased past the end.         *)
ParseOverruns ==
  /\ processor = "parsing" /\ Len(buffer) \in 1 .. (HeaderSize - 1)
  /\ processor' = "overrun"
  /\ UNCHANGED <<sendVars, wire, streamVars, buffer, dispatched>>

----------------------------------------------------------------------------
Sender(t) == TakeLock(t) \/ WriteSome(t) \/ WriteAgain(t) \/ SendEnds(t)
ProcessData == (\E n \in 1 .. MaxRead : Receive(n)) \/ ParseStep \/ ParseEnds \/ ParseOverruns

FramingNext ==
  \/ \E t \in Senders : Sender(t) \/ \E m \in Messages : SendStarts(t, m)
  \/ ProcessData

FramingSpec == FramingInit /\ [][FramingNext]_framingVars

(* The threads run and the locks are handed out in turn; a sender that     *)
(* spins on a full socket gets its turn when there is room.                *)
FairSpec ==
  /\ FramingSpec
  /\ WF_framingVars(ProcessData)
  /\ \A t \in Senders : SF_framingVars(TakeLock(t)) /\ SF_framingVars(WriteSome(t)) /\ WF_framingVars(Sender(t))

----------------------------------------------------------------------------
Written == IF lock = NoSender \/ Rest(lock) > 0 THEN sent
           ELSE Append(sent, message[lock])

(* Where in the stream the i-th message of Written ends. *)
EndOf(i) == IF i = 0 THEN 0 ELSE IF i <= Len(ends) THEN ends[i] ELSE Len(stream)

(* The first n bytes of x are in s, after its first at bytes. *)
LiesAt(x, n, s, at) == at + n <= Len(s) /\ \A k \in 1 .. n : s[at + k] = x[k]

(* process_data takes the messages out of the stream as they were put in,  *)
(* in the order the lock was given to their senders, however the reads cut *)
(* the stream and however often a write had to be tried again, as long as  *)
(* no message was taken in part and then written again.  (The last message *)
(* may be read before its sender returns.)  No byte is lost or doubled on  *)
(* the way: the messages written lie in the stream one behind the other,   *)
(* then what was taken of the next one, and buffer_ and the socket hold    *)
(* exactly what comes behind the messages processed.                       *)
MessagesInOrder ==
  ~torn =>
    /\ \A i \in 1 .. Len(Written) : /\ EndOf(i) = EndOf(i - 1) + Len(Written[i])
                                   /\ LiesAt(Written[i], Len(Written[i]), stream, EndOf(i - 1))
    /\ lock # NoSender => LiesAt(message[lock], offset[lock], stream, EndOf(Len(sent)))
    /\ EndOf(Len(sent)) + (IF lock = NoSender THEN 0 ELSE offset[lock]) = Len(stream)
    /\ Len(dispatched) <= Len(Written)
    /\ \A i \in 1 .. Len(dispatched) : dispatched[i] = Written[i]
    /\ EndOf(Len(dispatched)) + Len(buffer \o wire) = Len(stream)
    /\ LiesAt(buffer \o wire, Len(buffer \o wire), stream, EndOf(Len(dispatched)))

(* Every message that is sent is processed, unless a read ends within a    *)
(* header or the stream was torn.                                          *)
AllDispatched ==
  \A n \in 1 .. MaxMessages :
    Len(sent) >= n ~> Len(dispatched) >= n \/ processor = "overrun" \/ torn
=============================================================================
