SPECIFICATION FairSpec
CONSTANTS
  Pids = {1, 2}
  CHILDREN = 3
  MaxPresses = 1
CHECK_DEADLOCK FALSE
INVARIANTS
  TypeOK
  ChildrenListed
  HarmlessUnlessTorn
PROPERTIES
  KillAndQuitEnd
