------------------------------- MODULE MCJtsC -------------------------------
(* Two host threads, so that one thread's lifecycle calls can interleave  *)
(* with the other's wrapper calls.                                        *)
EXTENDS JtsC, TLC

CONSTANTS t1, t2

MCThreads == {t1, t2}

\* Host threads are interchangeable: no wrapper depends on a thread's name.
ThreadSymmetry == Permutations(MCThreads)
=============================================================================
