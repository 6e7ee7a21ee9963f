SPECIFICATION Spec
CONSTANTS
  Decks <- MCDecks
  FirstByte <- Byte
  RightToLeft = {TRUE, FALSE}
  None = None
INVARIANT ExtentAsWritten
CHECK_DEADLOCK FALSE
