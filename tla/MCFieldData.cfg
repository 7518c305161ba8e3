SPECIFICATION RunSpec
CONSTANTS
  boiler = boiler
  pump = pump
  Recorders = {boiler, pump}
  Flushers = {boiler, pump}
  Capacity = 2
  MaxRecords = 10
  MaxFailures = 1
  MaxStops = 1
  ByteSize = 4
  ManBits = 4
  Tags <- MCTags
  Initially <- AllRegisters
  Registers <- PathRegisters
  Variants <- PathVariants
  Behind <- Nothing
CHECK_DEADLOCK FALSE
INVARIANTS
  HotIsLast
  SamplesKept
  JournalReplays
  ValuesSurvive
PROPERTIES
  Drains
  BankSpec
