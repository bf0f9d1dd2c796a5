------------------------------ MODULE MCTestAgent ------------------------------
(* The test target for TLC: one timer and two files of the rest of the program. *)
EXTENDS TestAgent
=============================================================================
