SPECIFICATION PushdownSpec
CONSTANTS
  None = None
  Throws = Throws
  Invalid = Invalid
  Places = 1
  Source = Source
  cursor = cursor
  windowStart = windowStart
  windowEnd = windowEnd
  ProviderFields <- MCProviderFields
  Plans <- MCPlans
  Queries <- MCQueries
  Pushes <- MCPushes
  Sources <- MCSources
  PageSize = 2
  Today = 10
  MaxGroups = 2
  MaxPredicates = 3
CHECK_DEADLOCK FALSE
INVARIANTS
  PushdownKeepsTheAnswer
