------------------------------ MODULE MCHpmcu ------------------------------
(* Model-checking instance of Hpmcu. *)
EXTENDS Hpmcu
=============================================================================
