---------------------------- MODULE MCSubprocess ----------------------------
(* Small instances of Subprocess.  Calls of _wait and of drain are alike.  *)
EXTENDS Subprocess, TLC

CONSTANTS w1, w2, d1, d2

MCWaiters == {w1, w2}
MCDrains == {d1, d2}
MCSymmetry == Permutations(MCWaiters) \cup Permutations(MCDrains)
=============================================================================
