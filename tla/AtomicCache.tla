----------------------------- MODULE AtomicCache -----------------------------
(***************************************************************************)
(* What a cache directory promises for one key: it holds one whole bundle  *)
(* or none, a put replaces it in one step, and a reader gets a bundle that *)
(* was there when it opened it, whatever happens while it reads.           *)
(***************************************************************************)
CONSTANTS Users, Bundles, Nothing

VARIABLES
  stored,     \* the bundle of the key
  reading     \* what each user is reading

Init ==
  /\ stored = Nothing
  /\ reading = [p \in Users |-> Nothing]

Replace == stored' \in Bundles /\ UNCHANGED reading
Clear   == stored' = Nothing /\ UNCHANGED reading

Open(p) ==
  /\ stored # Nothing
  /\ reading' = [reading EXCEPT ![p] = stored]
  /\ UNCHANGED stored

Close(p) ==
  /\ reading' = [reading EXCEPT ![p] = Nothing]
  /\ UNCHANGED stored

Next == Replace \/ Clear \/ \E p \in Users : Open(p) \/ Close(p)

Spec == Init /\ [][Next]_<<stored, reading>>
=============================================================================
