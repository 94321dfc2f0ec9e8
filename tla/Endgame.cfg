SPECIFICATION Spec
CONSTANTS
  NumPlayers = 3
  Suits = {0, 1}
  MaxRank = 3
  Copies <- MCCopies
  MaxClues = 2
  MaxOrder = 7
  Us = 0
  Roots <- MCRoots
  Hints = {"nothing", "suit", "rank"}
  Guesses <- MCGuesses
  MonteCarlo = TRUE
INVARIANTS
  UnwinnableIsFinal
  SimplerHolds
  CacheHolds
  WinrateHolds
  SharedFairly
CHECK_DEADLOCK FALSE
