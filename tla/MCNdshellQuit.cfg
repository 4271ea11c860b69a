SPECIFICATION Spec
CONSTANTS
  Pids = {1, 2}
  CHILDREN = 2
  MaxPresses = 1
CHECK_DEADLOCK FALSE
INVARIANTS
  QuitCompletesAll
