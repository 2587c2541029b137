SPECIFICATION FairThreadsSpec
CONSTANTS
  c1 = c1
  c2 = c2
  f1 = f1
  f2 = f2
  f3 = f3
  None = None
  Call <- TwoCalls
  Fd <- TwoFds
INVARIANTS
  ThreadsTypeOK
  CallbackSeesItsContext
  RegistrationMatches
PROPERTIES
  SendersUndisturbed
  StopReturns
  ContextsAreAtomic
CHECK_DEADLOCK FALSE
