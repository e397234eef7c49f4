------------------------------ MODULE MCMspI2c ------------------------------
(* Writes of up to four bytes into buffers of three, three of them. *)
EXTENDS MspI2c
=============================================================================
