SPECIFICATION RunSpec
CONSTANTS
  reg = reg
  coil0 = coil0
  coil1 = coil1
  input = input
  Tags = {reg, coil0, coil1, input}
  Binding <- NumericCoils
  kMaxWriteQueueDepth = 2
  MaxWrites = 4
  Sessions = {g1, g2}
  Numeric = {}
  MaxFlags = 0
CHECK_DEADLOCK FALSE
INVARIANT GaugeCountsSessions
