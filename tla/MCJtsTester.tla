---------------------------- MODULE MCJtsTester ----------------------------
(* The tester as one host thread, with every command line and input file: *)
(* no count argument, a negative, a zero and a count of two rounds.      *)
EXTENDS JtsTester

CONSTANTS main

MCThreads == {main}
MCNArgs == {-1, 0, 2}

=============================================================================
