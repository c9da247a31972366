------------------------------ MODULE MCStream ------------------------------
(* Small instances of Stream.                                              *)
EXTENDS Stream

MCPayloads == {<<2>>, <<0, 1>>}
MCLimits == {<<1, 0>>, <<2, 1>>}
=============================================================================
