SPECIFICATION FairSipSpec
CONSTANTS
  c1 = c1
  c2 = c2
  a1 = a1
  NoCall = NoCall
  NoAddr = NoAddr
  CallId <- OneCall
  Addr <- Addresses
  MaxRetransmit = 2
PROPERTY UnansweredCallEnds
CHECK_DEADLOCK FALSE
