SPECIFICATION Spec
CONSTANTS
  Files <- MCFiles
  TimeScale = 2
  TimeOffset = 1
  None = None
  Error = Error
INVARIANT IndexSpaceFits
CHECK_DEADLOCK FALSE
