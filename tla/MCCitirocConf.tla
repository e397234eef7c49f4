--------------------------- MODULE MCCitirocConf ---------------------------
(* A page of 8 stands for one of 128 bytes, a slot of 9 for one of 144: like  *)
(* there, a slot reaches into the page of the next one, here with its ID.     *)
EXTENDS CitirocConf

Body(n) == [i \in 1..8 |-> n + i]
MCBodies == {Body(100), Body(120)}

Free == [user \in Users |-> "WRITE_ENABLED"]
MCProtections == {Free, [Free EXCEPT ![0] = "WRITE_ONLY"]}

MCUsedPages == 1..4
=============================================================================
