SPECIFICATION FairSpec
CONSTANTS
  NumPlayers = 2
  Suits = {0, 1}
  MaxRank = 2
  Copies <- MCCopies
  DeckSize = 7
  MaxClues = 1
  MaxStrikes = 2
  DefaultHandSize = 2
  HandSizeOption = 0
  Shuffles <- MCShuffles
INVARIANTS
  TypeOK
  CopiesAccounted
  OwnHandHidden
  CopiesAgree
PROPERTIES
  CriticalDiscardCosts
  FollowsRules
  GameEnds
