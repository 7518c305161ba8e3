SPECIFICATION RunSpec
CONSTANTS
  IntSize = 1048576
  Files <- SomeFiles
  Edited <- SomeEdits
  MaxEdits = 2
  Sheets <- SomeSheets
  LegacyConfigs <- SomeConfigs
  Configured <- Plant
  MaxPasses = 2
  MaxTime = 4
  MaxBack = 1
  MaxFaults = 2
  MaxWrites = 1
INVARIANTS
  LoadSound
  ToolsAgree
  PassHonest
CHECK_DEADLOCK FALSE
