---------------------------- MODULE MCPowerCycle ----------------------------
(* POWER_OFF and one or two other commands with a sequence flag. *)
EXTENDS PowerCycle

MCFlagged == {"POWER_OFF", "DAQ_START", "REQ_HK"}
=============================================================================
