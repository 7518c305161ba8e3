SPECIFICATION Spec
CONSTANTS
  Callers = {"poll", "flush"}
  Closers = {}
  MaxOps = 4
  MaxMalformed = 0
CHECK_DEADLOCK FALSE
INVARIANT OwnAnswer
