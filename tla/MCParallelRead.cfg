SPECIFICATION Spec
CONSTANTS
  Styles = {"ranges", "blocks", "strided"}
  MaxCount = 5
  MaxThreads = 3
  Grain = 2
  Threshold = 3
  NoElement = NoElement
INVARIANTS TasksStayApart NothingUninitialized ReturnIsQuiet
CHECK_DEADLOCK FALSE
