\* Two host threads, any interleaving of initJTS, finishJTS and every
\* wrapper: a well-formed call by an inited thread never dies for any
\* reason other than a missing VM attachment.
CONSTANTS
  t1 = t1
  t2 = t2
  Threads <- MCThreads
SPECIFICATION Spec
SYMMETRY ThreadSymmetry
INVARIANT ContractCallsNeverCrash
\* A crash ends the process and the host may stop calling: the system
\* really may stop.
CHECK_DEADLOCK FALSE
