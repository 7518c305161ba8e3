SPECIFICATION RunSpec
CONSTANTS
  set = set
  in = in
  Tags = {set, in}
  Binding <- Coils
  kMaxWriteQueueDepth = 2
  MaxWrites = 2
  PollGroups <- SetGroup
  ReconnectDelay = 1
  MaxFaults = 1
INVARIANTS
  NoGoodInBackoff
  PollsInOrder
PROPERTIES
  EndpointConverges
  ImplementsWriteQueue
