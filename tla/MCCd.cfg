SPECIFICATION CdSpec
CONSTANTS
  Directories <- MCDirs
  Root = "root"
  Parent <- MCParent
  Name <- MCName
  Links <- OneLink
  Initial <- MCInitial
  Args <- MCArgs
  NoArg = NoArg
  Unset = Unset
  None = None
  Homes <- MCHomes
INVARIANTS PwdLeadsToCwd
PROPERTIES CdUpMoves
