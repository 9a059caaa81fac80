SPECIFICATION FairSpec
CONSTANTS
  RATE_LIMIT = 2
  RATE_WINDOW = 2
  IDLE_TIMEOUT = 2
  Kinds <- AllKinds
  TokenExps <- MCTokenExps
  MaxMsgs = 4
  MaxInbox = 1
  MaxTime = 3
CHECK_DEADLOCK FALSE
INVARIANTS
  RateBound
  NoFalseAlarm
  RepliesMatchMessages
  AckedAreStored
PROPERTIES
  ExpiryEndsSession
  ImplementsSession
  
  SilenceEnds
