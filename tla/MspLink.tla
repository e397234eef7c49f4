------------------------------ MODULE MspLink ------------------------------
(***************************************************************************)
(* The MSP state machine at one end of the I2C link, and at the other an   *)
(* OBC that follows the protocol: it gives one command at a time and       *)
(* repeats it until it is acknowledged.  The OBC is not part of this       *)
(* repository; it is modelled from the frames the experiment expects.      *)
(*                                                                         *)
(* The two take turns.  The OBC writes a frame, the write handler runs     *)
(* msp_recv_callback and msp_send_callback, the OBC reads the reply.       *)
(* Either frame of an exchange may be corrupted on its way.                *)
(***************************************************************************)
EXTENDS MspExp

CONSTANTS MaxCommands,   \* bound: how many commands the OBC gives
          MaxRestarts    \* bound: how often it starts a command over unasked

ASSUME BoundsAssumption == MaxCommands \in Nat /\ MaxRestarts \in Nat

VARIABLES
    obc,         \* the OBC: its stage in the current command, and the command
    obcNext,     \* its sequence flags: the transaction-ID due for each opcode
    turn,        \* "write", "read": whose move it is on the bus
    noise,       \* which frame of the current exchange is corrupted
    sent, done, confirmed,   \* history: commands given, carried out, confirmed
    restarts

linkVars == <<vars, obc, obcNext, turn, noise, sent, done, confirmed, restarts>>
history == <<sent, done, confirmed>>

\* id: transaction-ID; len: bytes to transfer; off: bytes transferred so far;
\* fid: frame-ID of the data frame being sent, or of the last one received.
NoCommand == [stage |-> "idle", op |-> "NULL", id |-> 0, len |-> 0,
              off |-> 0, fid |-> 0]

Chunk == LesserOf(MTU, obc.len - obc.off)

LinkInit ==
    /\ Init
    /\ seqflags = BlankSeqflags
    /\ obc = NoCommand
    /\ obcNext = [op \in Ops |-> 0]
    /\ turn = "write"
    /\ noise = "none"
    /\ sent = << >>
    /\ done = << >>
    /\ confirmed = 0
    /\ restarts = 0
-----------------------------------------------------------------------------
(* The OBC. *)

GiveCommand ==
    /\ turn = "write" /\ phase = "recv"
    /\ obc.stage = "idle"
    /\ Len(sent) < MaxCommands
    /\ \E op \in Ops, len \in Lengths :
        /\ op \notin SendOps => len = 0
        /\ obc' = [NoCommand EXCEPT !.stage = "header", !.op = op, !.len = len,
                                    !.id = obcNext[op]]
        /\ sent' = Append(sent, op)
    /\ UNCHANGED <<vars, obcNext, turn, noise, done, confirmed, restarts>>

\* A timeout of the OBC: the current command from its beginning, after NULL
\* frames have taken the experiment out of the transaction.  Not once it has
\* sent the T_ACK of a request: a request carries no id, so repeating it is a
\* new transaction to the experiment.
StartOver ==
    /\ turn = "write" /\ phase = "recv"
    /\ obc.stage = "data"
    /\ restarts < MaxRestarts
    /\ obc' = [obc EXCEPT !.stage = "reset"]
    /\ restarts' = restarts + 1
    /\ UNCHANGED <<vars, obcNext, turn, noise, history>>

Frame(op, id, len) == [op |-> op, id |-> id, len |-> len]

ObcFrame ==
    CASE obc.stage = "reset"                          -> Frame("NULL", 0, 0)
      [] obc.stage = "header" /\ obc.op \in SendOps -> Frame(obc.op, obc.id, obc.len)
      [] obc.stage = "header" /\ obc.op \in SysOps  -> Frame(obc.op, obc.id, 0)
      [] obc.stage = "header" /\ obc.op \in ReqOps  -> Frame(obc.op, 0, 0)
      [] obc.stage = "data" /\ obc.op \in SendOps   -> Frame("DATA", obc.fid, Chunk)
      [] obc.stage = "data" /\ obc.op \in ReqOps    -> Frame("F_ACK", obc.fid, 0)
      [] obc.stage = "final"                        -> Frame("T_ACK", obc.id, 0)

CarriedOut(cs) ==
    \E i \in DOMAIN cs : cs[i] \in {Call(fn, opcode, 0, 0) :
        fn \in {"exprecv_complete", "expsend_complete", "exprecv_syscommand"}}

RecordDone == done' = IF CarriedOut(calls') THEN Append(done, opcode) ELSE done

ObcWrite ==
    /\ turn = "write"
    /\ obc.stage # "idle"
    /\ noise' \in {"none", "write", "read"}
    /\ msp_recv_callback(IF noise' = "write" THEN Frame("CORRUPT", 0, 0) ELSE ObcFrame)
    /\ RecordDone
    /\ turn' = "read"
    /\ UNCHANGED <<obc, obcNext, sent, confirmed, restarts>>

Reply ==
    /\ msp_send_callback
    /\ RecordDone
    /\ UNCHANGED <<obc, obcNext, turn, noise, sent, confirmed, restarts>>

\* What an intact reply makes the OBC do.  A reply that fits none of these
\* leaves it where it is: it writes the same frame again.
HeaderAcked == obc.stage = "header" /\ obc.op \in SendOps
               /\ reply.op = "F_ACK" /\ reply.id = obc.id
DataAcked   == obc.stage = "data" /\ obc.op \in SendOps
               /\ reply.op = "F_ACK" /\ reply.id = obc.fid
Announced   == obc.stage = "header" /\ obc.op \in ReqOps /\ reply.op = "EXP_SEND"
NewData     == obc.stage = "data" /\ obc.op \in ReqOps
               /\ reply.op = "DATA" /\ reply.id # obc.fid
FellOut     == obc.stage \in {"reset", "data"} /\ reply.op = "NULL"
Concluded   == \/ obc.op \notin ReqOps /\ obc.stage # "reset"
                  /\ reply.op = "T_ACK" /\ reply.id = obc.id
               \/ obc.stage = "final" /\ reply.op = "NULL"

Proceed ==
    \/ HeaderAcked /\ obc' = [obc EXCEPT !.stage = "data", !.off = 0, !.fid = 1 - obc.id]
    \/ DataAcked   /\ obc' = [obc EXCEPT !.off = @ + Chunk, !.fid = 1 - @]
    \/ Announced   /\ obc' = [obc EXCEPT !.stage = IF reply.len = 0 THEN "final" ELSE "data",
                                         !.id = reply.id, !.len = reply.len,
                                         !.off = 0, !.fid = reply.id]
    \/ NewData     /\ obc' = [obc EXCEPT !.stage = IF obc.off + reply.len = obc.len
                                                  THEN "final" ELSE "data",
                                         !.off = @ + reply.len, !.fid = reply.id]
    \/ FellOut     /\ obc' = [obc EXCEPT !.stage = "header"]

Conclude ==
    /\ Concluded
    /\ obc' = NoCommand
    /\ obcNext' = [obcNext EXCEPT ![obc.op] = 1 - obc.id]
    /\ confirmed' = confirmed + 1

Unusable == noise = "read" \/ ~(HeaderAcked \/ DataAcked \/ Announced \/ NewData
                               \/ FellOut \/ Concluded)

ObcRead ==
    /\ turn = "read" /\ phase = "recv"
    /\ turn' = "write"
    /\ \/ noise # "read" /\ Conclude
       \/ noise # "read" /\ Proceed /\ UNCHANGED <<obcNext, confirmed>>
       \/ Unusable /\ UNCHANGED <<obc, obcNext, confirmed>>
    /\ UNCHANGED <<vars, noise, sent, done, restarts>>
-----------------------------------------------------------------------------
LinkNext == GiveCommand \/ StartOver \/ ObcWrite \/ Reply \/ ObcRead

\* Of the exchanges the OBC tries, infinitely many get through both ways.
CleanWrite == ObcWrite /\ noise' = "none"

LinkSpec ==
    /\ LinkInit
    /\ [][LinkNext]_linkVars
    /\ WF_linkVars(ObcWrite) /\ WF_linkVars(Reply) /\ WF_linkVars(ObcRead)
    /\ SF_linkVars(CleanWrite)
-----------------------------------------------------------------------------
Delivery == INSTANCE MspDelivery WITH Commands <- Ops

\* Over a link that corrupts frames in both directions, every command the OBC
\* gives is carried out exactly once, in order, and confirmed only after that.
ExactlyOnceDelivery == Delivery!Spec

\* Bytes land where they belong: a data frame repeated or answered late never
\* shifts the data, on the way to the experiment or to the OBC.
BytesInPlace ==
    [][/\ \A i \in DOMAIN calls' : calls'[i].fn = "exprecv_data"
             => calls'[i].off = obc.off /\ calls'[i].len = Chunk
       /\ NewData /\ turn = "read" /\ phase = "recv" /\ noise # "read"
             => reply.off = obc.off
      ]_linkVars

\* expsend_complete, on which the application clears the payload, is called
\* only when the OBC has every byte of the response.
CompleteAfterDelivery ==
    [][\A i \in DOMAIN calls' : calls'[i].fn = "expsend_complete"
          => obc.stage = "final" /\ obc.off = total_length]_linkVars

\* Every command is confirmed in the end.
EveryCommandConfirmed ==
    \A n \in 1..MaxCommands : Len(sent) >= n ~> confirmed >= n
=============================================================================
