----------------------------- MODULE MCLRUCache -----------------------------
(***************************************************************************)
(* LRUCache for TLC.                                                       *)
(***************************************************************************)
EXTENDS LRUCache, TLC

(* Keys, objects and tuples are interchangeable; no liveness is checked.   *)
Symmetry == Permutations(Keys) \cup Permutations(Values) \cup Permutations(Tuples)
=============================================================================
