SPECIFICATION Spec
CONSTANTS
  NumPlayers = 2
  Suits = {0}
  MaxRank = 3
  Copies <- MCCopies
  DeckSize = 6
  MaxClues = 2
  MaxStrikes = 3
  DefaultHandSize = 2
  HandSizeOption = 0
  Us = 0
  Deck <- MCDeck
  Games <- MCGames
  MaxRequests <- MCRequests
  MaxRewinds = 2
  MaxDepth = 3
  Kinds = {"identify", "focus", "silent", "demonstrate", "ignore", "finesse", "fix"}
  Statuses = {"finessed", "chop moved"}
INVARIANTS
  SameState
  LogKept
  NotesCorrected
  ShowsTurn
PROPERTIES
  RequestsInserted
