SPECIFICATION FairSpec
CONSTANTS
  Callers = {"poll"}
  Closers = {}
  MaxOps = 2
  MaxMalformed = 0
CHECK_DEADLOCK FALSE
PROPERTY Completes
