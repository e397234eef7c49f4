------------------------------- MODULE MCHvps -------------------------------
(* The driver with jobs until at least MaxCmds commands were sent. *)
EXTENDS Hvps
=============================================================================
