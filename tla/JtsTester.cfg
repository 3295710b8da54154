\* jtstest.c with exception messages on which log_and_exit never returns
\* (text, or a "%" that exits or crashes): no wrapper call crashes.
CONSTANTS
  main = main
  Threads <- MCThreads
  Inputs = {"missing", "valid", "malformed"}
  Argcs = {1, 2, 3}
  NArgs <- MCNArgs
  Messages = {"text", "percent"}
SPECIFICATION TesterSpec
INVARIANT WrapperNeverCrashes
\* The tester stops for good once it exits or crashes.
CHECK_DEADLOCK FALSE
