SPECIFICATION AgentSpec
CONSTANTS
  c1 = c1
  c2 = c2
  k1 = k1
  k2 = k2
  x1 = x1
  x2 = x2
  None = None
  Calls = {c1, c2}
  Keys = {k1, k2}
  Texts = {x1, x2}
  MaxEvents = 1
CHECK_DEADLOCK FALSE
INVARIANTS
  TranscriptAlternates
  KeyStartsOneRun
  IntentIsFirstMessage
  TraceIsComplete
  AbortedRunsDoNotSucceed
PROPERTIES
  ImplementsConversation
  RunsEnd
