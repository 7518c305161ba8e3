SPECIFICATION RunSpec
CONSTANTS
  Bits = 16
  indent_step = 2
  ignore_comments = FALSE
  RoundTripValues <- SomeValues
INVARIANTS
  ReadExact
  WrittenExact
  LoopExact
  OwnedOnce
PROPERTY
  ImplementsStore
CHECK_DEADLOCK FALSE
