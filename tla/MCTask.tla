------------------------------- MODULE MCTask -------------------------------
(* Small instances of Task: the sets are symmetric. *)
EXTENDS Task, TLC

Symmetry == Permutations(Tasks) \cup Permutations(Futures)
=============================================================================
