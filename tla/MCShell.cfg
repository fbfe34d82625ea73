SPECIFICATION Spec
CONSTANT Codes = {7}
INVARIANTS FreedExactlyOnce PromptKeepsStatus
PROPERTIES ShellSurvives InterruptGives130
CHECK_DEADLOCK FALSE
