SPECIFICATION Spec
CONSTANTS
  Files <- MCFiles
  TimeScale = 2
  TimeOffset = 1
  None = None
  Error = Error
INVARIANTS IndexIsWhole SamplesAtTheirStep LoadedIsStored
CHECK_DEADLOCK FALSE
