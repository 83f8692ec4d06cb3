------------------------------ MODULE MCHarness ------------------------------
(* A small instance of Harness. *)
EXTENDS Harness

CONSTANTS f1, f2
=============================================================================
