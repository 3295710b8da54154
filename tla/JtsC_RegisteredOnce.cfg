\* A second thread's initJTS after the first thread's: the callbacks the
\* first thread registered are replaced.
CONSTANTS
  t1 = t1
  t2 = t2
  Threads <- MCThreads
SPECIFICATION Spec
SYMMETRY ThreadSymmetry
PROPERTY RegisteredOnce
CHECK_DEADLOCK FALSE
