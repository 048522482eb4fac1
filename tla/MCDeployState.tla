---------------------------- MODULE MCDeployState ----------------------------
(* DeployState with two invocations at a time. *)
EXTENDS DeployState, TLC

CONSTANTS p1, p2, s1, s2, h1, h2

MCProcs     == {p1, p2}
OneSlot     == {s1}
TwoSlots    == {s1, s2}
MCHashes    == {h1, h2}
OnlyOverlap == {"overlap"}

Symm == Permutations(MCProcs) \cup Permutations(Slots) \cup Permutations(MCHashes)
=============================================================================
