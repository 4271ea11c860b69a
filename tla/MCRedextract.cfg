SPECIFICATION FairSpec
CONSTANTS
  filesToRead = 2
  threads = 4
  STACK_MAX_SIZE = 2
  PacketCount <- TwoFiles
CHECK_DEADLOCK FALSE
INVARIANTS
  TypeOK
  PacketsAccounted
  DrainedBeforeExit
  NoSleepOnWork
  NoConsumerLeft
PROPERTIES
  ImplementsHandoff
  ProgramEnds
