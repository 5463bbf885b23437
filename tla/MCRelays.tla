------------------------------ MODULE MCRelays ------------------------------
(* Model-checking instance of Relays. *)
EXTENDS Relays
=============================================================================
