\* jtstest.c with every kind of exception message: whenever main returns,
\* its status is the round count mod 256 (0 for a count <= 0).
CONSTANTS
  main = main
  Threads <- MCThreads
  Inputs = {"missing", "valid", "malformed"}
  Argcs = {1, 2, 3}
  NArgs <- MCNArgs
  Messages = {"text", "empty", "percent"}
SPECIFICATION TesterSpec
INVARIANT ReturnsRoundCount
\* The tester stops for good once it exits or crashes.
CHECK_DEADLOCK FALSE
