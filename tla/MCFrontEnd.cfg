SPECIFICATION Spec
CONSTANTS
  NULL = NULL
  Plain = {"a", "b", "x", "$", "0", "?", "/"}
  Inputs <- MCInputs
  Envs <- MCEnvs
  EnvsFor <- MCEnvsFor
  MaxLen = 4
  MaxTokens = 4
  Statuses = {0}
INVARIANTS
  PartsFit TokensAsWritten SegmentsFreedOnce CommandsAsTyped WordsAsSplit SameAsHeredoc
  AmbiguousRedirect
PROPERTIES LineReturns
CHECK_DEADLOCK FALSE
