SPECIFICATION MCPlansSpec
CONSTANTS
  sourceA = sourceA
  sourceB = sourceB
  joined = joined
  delivered = delivered
  key = key
  Nothing = Nothing
  Nodes = {sourceA, sourceB, joined, delivered}
  Inputs <- MCInputs
  CredentialOf <- MCCredentialOf
  Credentials = {key}
  Ids = {1, 2, 3, 4}
  InitialCursor = 0
  Limits <- MCLimits
  None = None
  Throws = Throws
  Invalid = Invalid
  Places = 1
  Configs <- MCConfigs
  Tables <- MCTables
  MaxSteps = 2
  Source = Source
  cursor = cursor
  windowStart = windowStart
  windowEnd = windowEnd
  ProviderFields <- MCProviderFields
  Plans <- MCPlans
  Queries <- MCQueries
  Pushes <- MCPushes
  Sources <- MCSources
  PageSize = 2
  Today = 10
  MaxGroups = 2
  MaxPredicates = 3
CHECK_DEADLOCK FALSE
INVARIANTS
  SourceIsComplete
  PlanIsScheduled
  RowsFitTheirShape
  RowsAreAccountedFor
  SortKeepsTheTop
  RoundingIsNearest
  FilterFormsAgree
  ChainedPushdownKeepsTheAnswer
PROPERTIES
  ExecutionEnds
