SPECIFICATION FairSpec
CONSTANTS
  Conventions = {"HGroup", "RefSieve"}
  MaxHLevel = 2
  Us = 1
  LogEnd = 9
  MaxCrashes = 1
  MaxChats = 4
CHECK_DEADLOCK FALSE
INVARIANTS
  CaughtUp
  SettingsMatch
  OneMove
PROPERTIES
  NoteKept
  BotMoves
