------------------------------ MODULE MCVop -------------------------------
(* Instance of Vop for TLC. *)
EXTENDS Vop
=============================================================================
