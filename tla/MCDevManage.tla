----------------------------- MODULE MCDevManage -----------------------------
(* Model values for the device dialog; threads are interchangeable. *)
EXTENDS DevManage, TLC

CONSTANTS d1, d2
NoneOrTwo == {<<>>, <<d1, d2>>}

Symmetry == Permutations(Threads)
=============================================================================
