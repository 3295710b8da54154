--------------------------- MODULE MCSharedCodecs ---------------------------
(* Two host threads converting two different inputs, two steps each.      *)
EXTENDS SharedCodecs, TLC

CONSTANTS t1, t2, d1, d2

MCThreads == {t1, t2}
MCData == {d1, d2}
ThreadSymmetry == Permutations(MCThreads)

=============================================================================
