SPECIFICATION RunSpec
CONSTANTS
  reg = reg
  coil0 = coil0
  coil1 = coil1
  input = input
  Tags = {reg, coil0, coil1, input}
  Binding <- NumericCoils
  kMaxWriteQueueDepth = 2
  MaxWrites = 4
  Sessions = {s1, s2, g1, g2}
  Numeric = {s1, s2}
  MaxFlags = 2
CHECK_DEADLOCK FALSE
INVARIANTS
  QueueSound
  AddressSpaceTrue
  SessionsVetted
  ServedAsAsked
  MonitorAgrees
PROPERTIES
  EveryWriteSettles
  ImplementsLedger
  MonitorGoesOn
