---------------------------- MODULE MC_CovLifetimes ----------------------------
(* One object, two subscribers, lifetimes up to 3 seconds over 4 seconds,  *)
(* and the two ticking threads of the program.                            *)
EXTENDS CovLifetimes, TLC

CONSTANTS k1, s1, s2, serverThread, mainThread

MCKeys == {k1}
MCSubscribers == {s1, s2}
MCTickers == {serverThread, mainThread}

Symmetry == Permutations(MCSubscribers)
=============================================================================
