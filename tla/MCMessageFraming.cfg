\* The socket holds one large or two small messages; reads take up to two
\* small ones.  The system stops when all messages are sent.
SPECIFICATION FairSpec
CONSTANTS
  Base = 2
  Senders = {channel, response}
  NoSender = NoSender
  Payloads <- MCPayloads
  MaxMessages = 3
  Capacity = 10
  MaxRead = 8
INVARIANT MessagesInOrder
PROPERTY AllDispatched
CHECK_DEADLOCK FALSE
