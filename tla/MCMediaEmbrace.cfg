SPECIFICATION ThreadsSpec
CONSTANTS
  c1 = c1
  c2 = c2
  f1 = f1
  f2 = f2
  f3 = f3
  None = None
  Call <- TwoCalls
  Fd <- ThreeFds
INVARIANT NoDeadlyEmbrace
CHECK_DEADLOCK FALSE
