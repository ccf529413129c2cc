\* Three clients that overlap, two crashes and three node names per process:
\* a name is free, left by a dead manager, or in use.
SPECIFICATION FairSpec
CONSTANTS
  Clients = {c1, c2, c3}
  NoClient = NoClient
  MaxNodes = 3
  MaxCrashes = 2
INVARIANTS RunsOwnConfiguration RunningKeepsBinder NodesAccountedFor
  NoContainerWithoutClient ClashesBounded
PROPERTY SlotFreedIfIdle
