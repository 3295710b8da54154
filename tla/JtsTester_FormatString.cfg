\* A parse error that echoes a % from the input becomes the format string of log_and_exit.
CONSTANTS
  main = main
  Threads <- MCThreads
  Inputs = {"missing", "valid", "malformed"}
  Argcs = {1, 2, 3}
  NArgs <- MCNArgs
  Messages = {"text", "percent"}
SPECIFICATION TesterSpec
INVARIANT TesterNeverCrashes
\* The tester stops for good once it exits or crashes.
CHECK_DEADLOCK FALSE
