SPECIFICATION RunSpec
CONSTANTS
  Endpoints <- MCEndpoints
  Ops <- MCOps
  StrandOf <- MCStrandOf
  Hardware = 1
  Endless <- Nothing
  MaxTasks = 0
  poll = poll
  flush = flush
  IdModulus = 2
  MaxAge = 3
  MaxFaults = 2
CHECK_DEADLOCK FALSE
INVARIANTS
  HandlersSerial
  OneRound
  TimerAlone
  RuntimeReleased
  AnswersMatch
  TcpOrderly
PROPERTIES
  RuntimeGoesOn
  EndsOrStranded
  ImplementsPort
