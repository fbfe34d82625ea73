SPECIFICATION StdoutSpec
CONSTANTS
  MaxCommands = 3
  MaxHeredocs = 2
INVARIANTS ToldOnce
CHECK_DEADLOCK FALSE
