---------------------------- MODULE MCLocalCache ----------------------------
(* LocalCache with three processes, two different bundles of two chunks.   *)
EXTENDS LocalCache, TLC

CONSTANTS p1, p2, p3, b1, b2

MCProcs   == {p1, p2, p3}
TwoProcs  == {p1, p2}
MCBundles == {b1, b2}
MCInodes  == 1..6

Symm == Permutations(Procs) \cup Permutations(MCBundles)
=============================================================================
