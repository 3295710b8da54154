CONSTANTS
  t1 = t1
  t2 = t2
  Threads <- MCThreads
SPECIFICATION Spec
SYMMETRY ThreadSymmetry
INVARIANT NoExceptionEscapes
CHECK_DEADLOCK FALSE
