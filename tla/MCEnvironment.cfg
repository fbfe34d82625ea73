SPECIFICATION Spec
CONSTANTS
  Keys <- MCKeys
  Values <- MCValues
  Dirs <- MCDirs
  Args <- MCArgs
  Environs <- MCEnvirons
  MaxArgs = 2
INVARIANTS OneNodePerKey
PROPERTIES MapSpec
CHECK_DEADLOCK FALSE
