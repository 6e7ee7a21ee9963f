SPECIFICATION Spec
CONSTANTS
  Decks <- MCDecks
  FirstByte <- Byte
  RightToLeft = {TRUE, FALSE}
  None = None
INVARIANTS ReadAsWritten EveryArrayIsThere
CHECK_DEADLOCK FALSE
