------------------------------ MODULE MCGwScan ------------------------------
(* The scan for TLC; the gateways are model values of the cfg.  Liveness is
   checked in the same run, so no symmetry is used. *)
EXTENDS GwScan
=============================================================================
