------------------------------ MODULE MCCalls ------------------------------
(* Calls for TLC. It adds nothing: the constants are in the cfg files. *)
EXTENDS Calls
=============================================================================
