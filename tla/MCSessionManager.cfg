SPECIFICATION SessionSpec
CONSTANTS
  c1 = c1
  c2 = c2
  a1 = a1
  NoCall = NoCall
  NoAddr = NoAddr
  CallId <- Calls
  Addr <- Addresses
  MaxRetransmit = 2
  MaxSessions = 1
SYMMETRY Symmetry
VIEW WithoutCache
INVARIANTS
  SessionTypeOK
  ContextsTrackCalls
  AnswerPortsAssigned
PROPERTIES
  NotificationsTrackCalls
  EstablishedOutlivesTimers
  LateAnswerIgnored
  ContextsKeepTheirInfo
CHECK_DEADLOCK FALSE
