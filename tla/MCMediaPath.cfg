SPECIFICATION ReportsSpec
CONSTANTS
  MaxPayload = 6
  HeaderSize = 1
  SeqSpace = 4
  Nal <- Nals
  AacFrame <- AacFrames
  MaxFrames = 2
  RcSpace = 4
  NoSsrc = NoSsrc
  BlockLists <- SomeBlocks
  NameLengths <- NameSizes
  NoBlock = NoBlock
INVARIANTS
  ReportsTypeOK
  SequenceCountsSent
  MarkerEndsFrame
  CompoundsParse
PROPERTIES
  FrameLeavesWhole
  ReportsCountTraffic
CHECK_DEADLOCK FALSE
