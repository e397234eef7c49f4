------------------------------ MODULE MCMspExp ------------------------------
(* MspExp with two flagged opcodes of a kind at most, one opcode without a  *)
(* flag position, and transfers of up to three data frames.                 *)
EXTENDS MspExp

MCSysOps == {"POWER_OFF"}
MCReqOps == {"REQ_PAYLOAD", "REQ_UNFLAGGED"}
MCSendOps == {"DAQ_CONF", "SEND_UNFLAGGED"}
MCFlagged == {"POWER_OFF", "REQ_PAYLOAD", "DAQ_CONF"}
MCLengths == {0, 1, 2, 3, 5}
=============================================================================
