----------------------------- MODULE OrderedRun -----------------------------
(***************************************************************************)
(* What the executor promises about order, without levels, chunks or       *)
(* threads: a unit starts once in a profile, and only when the units it    *)
(* needs have finished; the next profile starts when nothing is running.   *)
(***************************************************************************)
CONSTANT Units

VARIABLES needs, run

States == {"waiting", "running", "finished"}

Init ==
  /\ needs \in [Units -> SUBSET Units]
  /\ run = [u \in Units |-> "waiting"]

Startable(u) == run[u] = "waiting" /\ \A d \in needs[u] : run[d] = "finished"

Start(S) ==
  /\ S # {} /\ \A u \in S : Startable(u)
  /\ run' = [u \in Units |-> IF u \in S THEN "running" ELSE run[u]]
  /\ UNCHANGED needs

Finish(u) ==
  /\ run[u] = "running"
  /\ run' = [run EXCEPT ![u] = "finished"]
  /\ UNCHANGED needs

NewProfile ==
  /\ \A u \in Units : run[u] # "running"
  /\ needs' \in [Units -> SUBSET Units]
  /\ run' = [u \in Units |-> "waiting"]

Next == (\E S \in SUBSET Units : Start(S)) \/ (\E u \in Units : Finish(u)) \/ NewProfile

Spec == Init /\ [][Next]_<<needs, run>>
=============================================================================
