SPECIFICATION Spec
CONSTANTS
  NumPlayers = 2
  Suits = {0, 1}
  MaxRank = 3
  Copies <- MCCopies
  DeckSize = 8
  MaxClues = 3
  MaxStrikes = 1
  DefaultHandSize = 3
  HandSizeOption = 0
  Convention = "RefSieve"
  Clues <- MCClues
  ClueIds <- MCClueIds
  Seats = {0, 1}
  Shuffles <- MCShuffles
  TurnBound = 4
INVARIANTS
  TruthKept
  PublicAgreed
  ConnectionsHeld
  RewoundKnown
PROPERTIES
  KnowledgeGrows
CHECK_DEADLOCK FALSE
