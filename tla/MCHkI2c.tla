------------------------------ MODULE MCHkI2c ------------------------------
(* Three samples per average, two rounds, two errors on the bus. *)
EXTENDS HkI2c
=============================================================================
