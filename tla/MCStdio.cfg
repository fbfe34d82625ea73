SPECIFICATION StdoutSpec
CONSTANTS
  MaxCommands = 3
  MaxHeredocs = 2
INVARIANTS EachTold
CHECK_DEADLOCK FALSE
