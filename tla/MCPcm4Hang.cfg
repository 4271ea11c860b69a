SPECIFICATION FairSpec
CONSTANTS
  nThreadsProducers = 2
  nThreadsConsumers = 2
  nIterations = 2
  STACK_MAX_SIZE = 1
CHECK_DEADLOCK FALSE
PROPERTIES
  ProgramEnds
