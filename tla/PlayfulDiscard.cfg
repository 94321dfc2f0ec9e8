SPECIFICATION Spec
CONSTANTS
  NumPlayers = 2
  Suits = {0, 1}
  MaxRank = 3
  Copies <- MCCopies
  DeckSize = 8
  MaxClues = 3
  MaxStrikes = 2
  DefaultHandSize = 3
  HandSizeOption = 0
  Convention = "PlayfulSieve"
  Clues <- MCClues
  ClueIds <- MCClueIds
  Seats = {0, 1}
  Shuffles <- MCShuffles
  TurnBound = 6
  Bots = {1}
INVARIANT
  DiscardsAllowed
CHECK_DEADLOCK FALSE
