\* One subject sends Ready twice.
SPECIFICATION Spec
CONSTANTS
  trader = trader
  creator = creator
  Role = {trader, creator}
  Files <- MCFiles
  MaxSubjects = 2
  MaxCount = 3
PROPERTIES
  ReadyMeansEveryone
CHECK_DEADLOCK FALSE
