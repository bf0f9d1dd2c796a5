------------------------------ MODULE MCHashMap ------------------------------
(* Hash functions for TLC. *)
EXTENDS HashMap, TLC

CONSTANTS k1, k2, k3, k4, k5

(* Collisions, neighbours and a chain over the end of the table, in tables of 4 and 8. *)
Crowded == k1 :> 3 @@ k2 :> 3 @@ k3 :> 4 @@ k4 :> 7 @@ k5 :> 2

(* Seventeen keys that do not collide at all. *)
Neighbours == 0 .. 16
Spread     == [k \in Neighbours |-> k]
=============================================================================
