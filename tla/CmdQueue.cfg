SPECIFICATION FairSpec
CONSTANTS
  Cmds = {c1, c2, c3}
  Period = 2
  MaxIssued = 4
INVARIANTS
  TypeOK
  NothingLost
PROPERTIES
  SendSpacing
  IsChannel
  QueueDrains
CHECK_DEADLOCK FALSE
