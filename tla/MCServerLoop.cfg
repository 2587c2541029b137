SPECIFICATION ServerSpec
CONSTANTS
  c1 = c1
  c2 = c2
  a1 = a1
  a2 = a2
  NoCall = NoCall
  NoAddr = NoAddr
  CallId <- Calls
  Addr <- Addresses
  Body <- Bodies
  Message <- AllMessages
  MaxRetransmit = 1
  MaxSessions = 1
INVARIANTS
  InvitesAnsweredInKind
  OffersRead
  AnswersAreBacked
PROPERTIES
  ByeReclaims
  SessionSpec
CHECK_DEADLOCK FALSE
