\* Every failure may happen at any time; the host has one or two endpoints.
SPECIFICATION ClientSpec
CONSTANTS
  x = x
  y = y
  Messages <- MCMessages
  MaxMessages = 3
  MaxEndpoints = 2
INVARIANTS
  TypeOK
  WriterIsAwake
  NothingLost
  GivesUpLast
PROPERTIES
  ImplementsChannel
  EveryMessageArrives
CHECK_DEADLOCK FALSE
