SPECIFICATION Spec
CONSTANTS
  NumPlayers = 2
  Suits = {0, 1}
  MaxRank = 2
  Copies <- MCCopies
  DeckSize = 6
  MaxClues = 2
  MaxStrikes = 2
  DefaultHandSize = 2
  HandSizeOption = 0
  Shuffles <- MCShuffles
  Clues <- MCClues
  MaxTurns = 3
  MaxInferences = 0
CHECK_DEADLOCK FALSE
INVARIANTS
  PlayersPropagated
