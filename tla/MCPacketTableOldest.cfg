SPECIFICATION Spec
CONSTANTS
  Consumers = {c1}
  SmallTableSize = 2
  PacketInfo <- Distinct
  NULL = NULL
  p1 = p1
  p2 = p2
  p3 = p3
  p4 = p4
  p5 = p5
  p6 = p6
CHECK_DEADLOCK FALSE
PROPERTIES
  EvictsOldest
