----------------------------- MODULE MCMspLink -----------------------------
(* One opcode of each type, three commands, transfers of up to three frames. *)
EXTENDS MspLink

MCSysOps == {"POWER_OFF"}
MCReqOps == {"REQ_PAYLOAD"}
MCSendOps == {"DAQ_CONF"}
MCFlagged == MCSysOps \cup MCReqOps \cup MCSendOps
MCLengths == {0, 1, 4, 5}
=============================================================================
