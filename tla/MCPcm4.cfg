SPECIFICATION FairSpec
CONSTANTS
  nThreadsProducers = 2
  nThreadsConsumers = 2
  nIterations = 3
  STACK_MAX_SIZE = 2
CHECK_DEADLOCK FALSE
INVARIANTS
  TypeOK
  BlocksAccounted
  StopsWhenAllSearched
  NoSleepOnWork
PROPERTIES
  ImplementsHandoff
  EndsOrSleeps
