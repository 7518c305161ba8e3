SPECIFICATION BoundSpec
CONSTANTS
  reg = reg
  coil0 = coil0
  coil1 = coil1
  input = input
  Tags = {reg, coil0, coil1, input}
  Binding <- NumericCoils
  kMaxWriteQueueDepth = 3
  MaxWrites = 3
INVARIANT NoSilentDrop
CHECK_DEADLOCK FALSE
