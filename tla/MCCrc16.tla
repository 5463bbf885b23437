------------------------------ MODULE MCCrc16 ------------------------------
(* Model-checking instance of Crc16. *)
EXTENDS Crc16
=============================================================================
