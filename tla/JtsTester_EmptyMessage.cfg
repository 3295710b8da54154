\* An exception whose message formats to the empty string: log_and_exit returns.
CONSTANTS
  main = main
  Threads <- MCThreads
  Inputs = {"missing", "valid", "malformed"}
  Argcs = {1, 2, 3}
  NArgs <- MCNArgs
  Messages = {"text", "empty"}
SPECIFICATION TesterSpec
INVARIANT OutputFaithful
\* The tester stops for good once it exits or crashes.
CHECK_DEADLOCK FALSE
