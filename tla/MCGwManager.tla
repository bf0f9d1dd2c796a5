----------------------------- MODULE MCGwManager -----------------------------
(* Model values for the gateway manager: the gateways are interchangeable. *)
EXTENDS GwManager, TLC

Symmetry == Permutations(Gateways)
=============================================================================
