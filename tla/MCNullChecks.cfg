SPECIFICATION MCSpec
CONSTANTS
  None = None
  Throws = Throws
  Invalid = Invalid
  Places = 1
  Configs <- MCConfigs
  Tables <- MCTables
  MaxSteps = 2
CHECK_DEADLOCK FALSE
INVARIANTS
  NullChecksRun
