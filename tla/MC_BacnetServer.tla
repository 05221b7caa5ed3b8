--------------------------- MODULE MC_BacnetServer ---------------------------
(* Instance of BacnetServer for TLC: two objects, two subscribers, values *)
(* 0..2 and increments 0 and 2, so that both branches of the COV          *)
(* increment test are taken and a value can drift by one step at a time. *)
EXTENDS BacnetServer, TLC

CONSTANTS k1, k2, s1, s2

MCKeys == {k1, k2}
MCSubscribers == {s1, s2}
MCValues == 0..2
MCIncrements == {0, 2}

Symmetry == Permutations(MCKeys) \cup Permutations(MCSubscribers)
=============================================================================
