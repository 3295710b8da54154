\* main returns the round count as its exit status.
CONSTANTS
  main = main
  Threads <- MCThreads
  Inputs = {"missing", "valid", "malformed"}
  Argcs = {1, 2, 3}
  NArgs <- MCNArgs
  Messages = {"text"}
SPECIFICATION TesterSpec
INVARIANT ExitStatusReportsResult
\* The tester stops for good once it exits or crashes.
CHECK_DEADLOCK FALSE
