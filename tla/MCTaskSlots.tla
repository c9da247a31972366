---------------------------- MODULE MCTaskSlots ----------------------------
(* TaskSlots with sets of three slots: the fourth outstanding operation    *)
(* puts the first set aside.  The two memory blocks are interchangeable.   *)
EXTENDS TaskSlots, TLC

Symmetry == Permutations(Sets)
=============================================================================
