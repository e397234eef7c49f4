---------------------------- MODULE MCCubesMain ----------------------------
(* Two OBC Sends, a system command and a request; a buffer of two bytes, so *)
(* that one transfer fits, one is shorter and one is cut off.               *)
EXTENDS CubesMain

MCSysOps == {"DAQ_START"}
MCReqOps == {"REQ_HK"}
MCSendOps == {"DAQ_CONF", "HVPS_CONF"}
MCLengths == {0, 1, 3}
=============================================================================
