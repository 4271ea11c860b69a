SPECIFICATION FairSpec
CONSTANTS
  Consumers = {c1, c2}
  SmallTableSize = 2
  PacketInfo <- Capture
  NULL = NULL
  p1 = p1
  p2 = p2
  p3 = p3
  p4 = p4
  p5 = p5
  p6 = p6
CHECK_DEADLOCK FALSE
INVARIANTS
  TypeOK
  EveryPacketPlaced
  HitsAccountedApart
  NoDuplicateKept
  HitsAreRepeats
  NoGaps
  ReportComplete
PROPERTIES
  ReportMade
