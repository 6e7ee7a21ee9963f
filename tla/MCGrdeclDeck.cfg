SPECIFICATION DeckSpec
CONSTANTS
  Decks <- MCDecks
  Contents <- MCContents
  Root = "deck"
  MaxDepth = 3
  MaxRewrites = 1
  None = None
  Error = Error
INVARIANTS ListedArraysLoad DeckLoadsOrFails
CHECK_DEADLOCK FALSE
