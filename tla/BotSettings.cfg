SPECIFICATION Spec
CONSTANTS
  Conventions = {"HGroup", "RefSieve"}
  MaxHLevel = 2
  Us = 1
  LogEnd = 7
  MaxCrashes = 0
  MaxChats = 2
CHECK_DEADLOCK FALSE
INVARIANT SettingsRemembered
