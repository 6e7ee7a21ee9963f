SPECIFICATION Spec
CONSTANTS
  t1 = t1
  t2 = t2
  Threads = {t1, t2}
  Files <- MCFiles
  Options <- MCOptions
  TimeScale = 2
  TimeOffset = 1
  MaxVersion = 1
  MaxLeaks = 2
  TfMakeValidIdentifier <- MCMakeValidIdentifier
  None = None
INVARIANT NoPermanentHandles
CHECK_DEADLOCK FALSE
