------------------------------ MODULE MCRunner ------------------------------
(* Runner with interchangeable callbacks and stream reads.  Every          *)
(* operation of the runs with this symmetry is a stream read.              *)
EXTENDS Runner, TLC

Symmetry == Permutations(Soon) \cup Permutations(Streams)
=============================================================================
