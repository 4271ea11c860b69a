SPECIFICATION FairSpec
CONSTANTS
  filesToRead = 2
  threads = 3
  STACK_MAX_SIZE = 1
  PacketCount <- TwoFiles
CHECK_DEADLOCK FALSE
PROPERTIES
  ProgramEnds
