SPECIFICATION FramingSpec
CONSTANTS
  Pipelines <- MCPipelines
  AnyStreams <- MCAnyStreams
  Buf = 30
  MaxRequests = 3
  MaxTokens = 5
CHECK_DEADLOCK FALSE
INVARIANTS AnswersInOrder
PROPERTIES AnswersTheStream
