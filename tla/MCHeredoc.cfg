SPECIFICATION Spec
CONSTANTS
  Lines <- MCLines
  Delims = {"EOF"}
  MAX_HEREDOCS = 2
  MaxBody = 2
  MaxLines = 2
  MaxSignals = 2
  MaxFailures = 2
INVARIANTS InterruptAborts BodyReachesCommand
PROPERTIES FilesLeftBehind InterruptReturns
CHECK_DEADLOCK FALSE
