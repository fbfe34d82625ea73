SPECIFICATION Spec
CONSTANTS
  MaxCmds = 3
  Programs <- MCPrograms
  MaxSignals = 1
INVARIANTS ProgramHoldsOnlyItsEnds ShellHoldsNoPipe
PROPERTIES StatusOfLastLaunched FiniteLineReturns JobSpec
