SPECIFICATION Spec
CONSTANTS
  Files = {"f", "h"}
  Lines <- MCLines
  Limits = {3, 4, 5, 6}
  MaxLines = 1
  MaxOutside = 1
INVARIANTS RunsAsWritten InputBeforeOutputs ShellDescriptors
PROPERTIES OutcomeAsWritten
CHECK_DEADLOCK FALSE
