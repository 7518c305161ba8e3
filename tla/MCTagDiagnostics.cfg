SPECIFICATION FairSpec
CONSTANTS
  level = level
  setpoint = setpoint
  strand = strand
  server = server
  Tags = {level, setpoint}
  Threads = {strand, server}
  UaThreads = {server}
  Sweepers = {strand}
  Writes <- MCWrites
  MaxPublish = 2
CHECK_DEADLOCK FALSE
INVARIANTS
  CountersAreTallies
  NodesCurrentUnlessDirty
  CountersFollowStore
  HistoryInOrder
PROPERTIES
  NodesReachStore
