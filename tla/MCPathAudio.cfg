SPECIFICATION ReportsSpec
CONSTANTS
  MaxPayload = 10
  HeaderSize = 1
  SeqSpace = 8
  Nal <- BigNal
  AacFrame <- OneAac
  MaxFrames = 1
  RcSpace = 4
  NoSsrc = NoSsrc
  BlockLists <- NoBlocks
  NameLengths <- NameSizes
  NoBlock = NoBlock
INVARIANT DecoderGetsAacFrames
CHECK_DEADLOCK FALSE
