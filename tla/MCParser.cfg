SPECIFICATION MCSpec
CONSTANTS
  MaxTokens = 5
INVARIANTS AcceptsPipelines CommandsAsWritten SegmentsFreedOnce
CHECK_DEADLOCK FALSE
