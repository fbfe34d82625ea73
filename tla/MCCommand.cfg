SPECIFICATION CommandSpec
CONSTANTS
  NULL = NULL
  Dirs = {"bin", "usr"}
  Paths <- MCPaths
  MaxChanges = 1
  LLongMax = 2047
  ArgLists <- MCArgLists
  MaxArgLen = 4
  MaxDigits = 5
  Statuses = {130}
  Code <- MCCode
  Envs <- MCEnvs
  IntMax = 127
  Texts <- MCTexts
  MaxShells = 2
  BodyChar <- MCBodyChar
  Bodies <- MCBodies
  MaxBodyLen = 5
  ExpandLine <- MCExpandLine
  BufferSize = 2
  CopySize = 3
  MaxFailures = 2
INVARIANTS SteadyProgramRuns StatusTellsWhy ExitLeavesNumber EnvironmentListed BodyExpanded
PROPERTIES NextLevel CommandEnds
CHECK_DEADLOCK FALSE
