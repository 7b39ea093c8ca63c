----------------------------- MODULE MCTaskQueue -----------------------------
(* TaskQueue on small instances.  Tasks that are fetched alike, workers and     *)
(* slots are interchangeable.                                                   *)
EXTENDS TaskQueue, TLC

Symmetry == Permutations(Tasks \ Uncounted) \cup Permutations(Workers) \cup Permutations(Slots)
=============================================================================
