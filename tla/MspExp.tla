------------------------------- MODULE MspExp -------------------------------
(***************************************************************************)
(* The experiment side of the MSP protocol (msp/msp_exp_callback.c): the   *)
(* state machine that turns the frames the OBC writes into callbacks of    *)
(* the application and into the frame the OBC reads next.                  *)
(*                                                                         *)
(* I2C1_SlaveWriteHandler() calls msp_recv_callback() and then             *)
(* msp_send_callback() on every frame written by the OBC, in one           *)
(* interrupt.  phase says which of the two is due; nothing else touches    *)
(* the state, so "busy" is never seen set and is left out.                 *)
(*                                                                         *)
(* The OBC is arbitrary here: any frame may arrive at any time.            *)
(***************************************************************************)
EXTENDS SeqFlags, Sequences

CONSTANTS SysOps, ReqOps, SendOps,   \* opcodes, by their MSP_OP_TYPE
          Lengths,                   \* DL values, and lengths of a response
          MTU                        \* MSP_EXP_MTU

\* Control opcodes; "CORRUPT" stands for any frame whose FCS or length is wrong.
CtrlOps == {"NULL", "DATA", "F_ACK", "T_ACK", "EXP_SEND", "CORRUPT"}

ASSUME OpsAssumption ==
    /\ CtrlOps \cap (SysOps \cup ReqOps \cup SendOps) = {}
    /\ SysOps \cap ReqOps = {}
    /\ SysOps \cap SendOps = {}
    /\ ReqOps \cap SendOps = {}
ASSUME LengthsAssumption == Lengths \subseteq Nat
ASSUME MTUAssumption == MTU \in Nat \ {0}

Ops == SysOps \cup ReqOps \cup SendOps

VARIABLES
    type,                     \* struct msp_exp_state_information
    opcode,
    transaction_id,
    frame_id,
    last_received_frame_id,
    seqflags,
    total_length,
    processed_length,
    prev_data_length,
    phase,                    \* "recv" or "send": the callback due next
    reply,                    \* i2c_tx_buffer: the frame the OBC will read
    calls                     \* callbacks made by the last step (history)

transaction == <<type, opcode, transaction_id, total_length>>
progress == <<frame_id, last_received_frame_id, processed_length,
              prev_data_length>>
mspState == <<transaction, progress, seqflags>>
vars == <<mspState, phase, reply, calls>>

Types == {"READY", "OBC_REQ_RESPONSE", "OBC_REQ_TX",
          "OBC_SEND_RX", "OBC_SEND_RX_DUPLICATE"}
Requesting == {"OBC_REQ_RESPONSE", "OBC_REQ_TX"}

\* msp_seqflags_get_next() returns -1 for an opcode without a flag position,
\* and transaction_id is an unsigned char.
NoFlagId == 255
UChar(n) == n % 256

\* Frames from the OBC: a data frame carries 1..MTU bytes, a header a DL value.
Frames == [op : CtrlOps \cup SysOps \cup ReqOps, id : 0..1, len : {0}]
          \cup [op : {"DATA"}, id : 0..1, len : 1..MTU]
          \cup [op : SendOps, id : 0..1, len : Lengths]

\* Frames to the OBC.  A header carries only the low bit of its id on the wire.
Header(op, id, dl) == [op |-> op, id |-> id % 2, off |-> 0, len |-> dl]
DataFrame(id, off, len) == [op |-> "DATA", id |-> id, off |-> off, len |-> len]
EmptyHeader(op) == Header(op, 0, 0)

Call(fn, op, off, len) == [fn |-> fn, op |-> op, off |-> off, len |-> len]

LesserOf(a, b) == IF a < b THEN a ELSE b
-----------------------------------------------------------------------------
(* Seeded faults.  Each is a plausible slip in the definition it is named      *)
(* after; the properties below are tested by putting them in its place.        *)

FAckAccepted_AnyId(id) ==
    /\ processed_length + prev_data_length < total_length
    /\ type \in Requesting

FAckAccepted_LastToo(id) ==
    /\ processed_length + prev_data_length <= total_length
    /\ id = frame_id
    /\ type \in Requesting

TAckAccepted_AnyId(id) == type \in Requesting

DataAccepted_RepeatsToo(id, len) ==
    type = "OBC_SEND_RX" /\ processed_length + len <= total_length

ReceivedType_NoDuplicates(op, id) == "OBC_SEND_RX"

EnsureReadyCalls_Complete ==
    IF type \in Requesting THEN <<Call("expsend_complete", opcode, 0, 0)>>
                           ELSE << >>

RecvFAck_SameFrameId(id) ==
    /\ type \in Requesting
    /\ id = frame_id
    /\ processed_length + prev_data_length < total_length
    /\ processed_length' = IF type = "OBC_REQ_RESPONSE" THEN 0
                           ELSE processed_length + prev_data_length
    /\ type' = "OBC_REQ_TX"
    /\ calls' = << >>
    /\ UNCHANGED <<opcode, transaction_id, total_length, frame_id,
                   last_received_frame_id, prev_data_length, seqflags>>

SendTAck_FlagNotSet ==
    /\ type = "OBC_SEND_RX"
    /\ processed_length >= total_length
    /\ reply' = Header("T_ACK", transaction_id, 0)
    /\ type' = "READY"
    /\ calls' = <<Call(IF opcode \in SysOps THEN "exprecv_syscommand"
                                            ELSE "exprecv_complete",
                       opcode, 0, 0)>>
    /\ UNCHANGED <<opcode, transaction_id, total_length, progress, seqflags>>
-----------------------------------------------------------------------------
Init ==
    /\ type = "READY"
    /\ opcode = "NULL"
    /\ transaction_id = 0
    /\ frame_id = 0
    /\ last_received_frame_id = 0
    /\ seqflags \in Seqflags      \* blank, or restored from NVM
    /\ seqflags.values \subseteq seqflags.inits
    /\ total_length = 0
    /\ processed_length = 0
    /\ prev_data_length = 0
    /\ phase = "recv"
    /\ reply = EmptyHeader("NULL")
    /\ calls = << >>
-----------------------------------------------------------------------------
(* msp_recv_callback: one action per kind of frame that is accepted. *)

\* The _error callback of ensure_ready_state().
EnsureReadyCalls ==
    CASE type = "OBC_SEND_RX" /\ opcode \notin SysOps ->
            <<Call("exprecv_error", opcode, 0, 0)>>
      [] type \in Requesting -> <<Call("expsend_error", opcode, 0, 0)>>
      [] OTHER -> << >>

ReceivedType(op, id) ==
    IF FlagIsSet(seqflags, op, id) THEN "OBC_SEND_RX_DUPLICATE"
                                   ELSE "OBC_SEND_RX"

DataAccepted(id, len) ==
    /\ type = "OBC_SEND_RX"
    /\ id # last_received_frame_id
    /\ processed_length + len <= total_length

RecvData(id, len) ==
    /\ DataAccepted(id, len)
    /\ calls' = <<Call("exprecv_data", opcode, processed_length, len)>>
    /\ processed_length' = processed_length + len
    /\ last_received_frame_id' = id
    /\ UNCHANGED <<transaction, frame_id, prev_data_length, seqflags>>

RecvNull ==
    /\ calls' = EnsureReadyCalls
    /\ type' = "READY"
    /\ UNCHANGED <<opcode, transaction_id, total_length, progress, seqflags>>

FAckAccepted(id) ==
    /\ processed_length + prev_data_length < total_length
    /\ id = frame_id
    /\ type \in Requesting

RecvFAck(id) ==
    /\ FAckAccepted(id)
    /\ processed_length' = IF type = "OBC_REQ_RESPONSE" THEN 0
                           ELSE processed_length + prev_data_length
    /\ frame_id' = 1 - frame_id
    /\ type' = "OBC_REQ_TX"
    /\ calls' = << >>
    /\ UNCHANGED <<opcode, transaction_id, total_length,
                   last_received_frame_id, prev_data_length, seqflags>>

TAckAccepted(id) ==
    /\ type \in Requesting
    /\ id = transaction_id

RecvTAck(id) ==
    /\ TAckAccepted(id)
    /\ calls' = <<Call("expsend_complete", opcode, 0, 0)>>
    /\ seqflags' = SetFlag(seqflags, opcode, id)
    /\ type' = "READY"
    /\ UNCHANGED <<opcode, transaction_id, total_length, progress>>

RecvSystem(op, id) ==
    /\ calls' = EnsureReadyCalls
    /\ type' = ReceivedType(op, id)
    /\ opcode' = op
    /\ transaction_id' = id
    /\ last_received_frame_id' = id
    /\ total_length' = 0
    /\ processed_length' = 0
    /\ prev_data_length' = 0
    /\ UNCHANGED <<frame_id, seqflags>>

RecvRequest(op) ==
    /\ type' = "OBC_REQ_RESPONSE"
    /\ opcode' = op
    /\ transaction_id' = UChar(NextFlag(seqflags, op))
    /\ frame_id' = transaction_id'
    /\ \E len \in Lengths :      \* chosen by the application
        /\ total_length' = len
        /\ calls' = Append(EnsureReadyCalls, Call("expsend_start", op, 0, len))
    /\ processed_length' = 0
    /\ prev_data_length' = 0
    /\ UNCHANGED <<last_received_frame_id, seqflags>>

\* prev_data_length keeps its value: only an OBC Request reads it.
RecvSend(op, id, dl) ==
    /\ type' = ReceivedType(op, id)
    /\ calls' = IF type' = "OBC_SEND_RX_DUPLICATE" THEN EnsureReadyCalls
                ELSE Append(EnsureReadyCalls, Call("exprecv_start", op, 0, dl))
    /\ opcode' = op
    /\ transaction_id' = id
    /\ last_received_frame_id' = id
    /\ total_length' = dl
    /\ processed_length' = 0
    /\ UNCHANGED <<frame_id, prev_data_length, seqflags>>

\* A frame that is corrupted, malformed, or not expected changes nothing.
Rejected(f) ==
    \/ f.op \in {"CORRUPT", "EXP_SEND"}
    \/ f.op = "DATA" /\ (f.len = 0 \/ ~DataAccepted(f.id, f.len))
    \/ f.op = "F_ACK" /\ ~FAckAccepted(f.id)
    \/ f.op = "T_ACK" /\ ~TAckAccepted(f.id)

RecvRejected(f) ==
    /\ Rejected(f)
    /\ calls' = << >>
    /\ UNCHANGED mspState

msp_recv_callback(f) ==
    /\ phase = "recv"
    /\ phase' = "send"
    /\ UNCHANGED reply
    /\ \/ f.op = "NULL" /\ RecvNull
       \/ f.op = "DATA" /\ f.len > 0 /\ RecvData(f.id, f.len)
       \/ f.op = "F_ACK" /\ RecvFAck(f.id)
       \/ f.op = "T_ACK" /\ RecvTAck(f.id)
       \/ f.op \in SysOps /\ RecvSystem(f.op, f.id)
       \/ f.op \in ReqOps /\ RecvRequest(f.op)
       \/ f.op \in SendOps /\ RecvSend(f.op, f.id, f.len)
       \/ RecvRejected(f)
-----------------------------------------------------------------------------
(* msp_send_callback: one action per state it can be called in. *)

SendNull ==
    /\ type = "READY"
    /\ reply' = EmptyHeader("NULL")
    /\ calls' = << >>
    /\ UNCHANGED mspState

SendResponse ==
    /\ type = "OBC_REQ_RESPONSE"
    /\ reply' = Header("EXP_SEND", transaction_id, total_length)
    /\ calls' = << >>
    /\ UNCHANGED mspState

\* With nothing left to send the transaction is given up with a NULL frame.
SendData ==
    /\ type = "OBC_REQ_TX"
    /\ IF processed_length >= total_length
       THEN /\ type' = "READY"
            /\ calls' = EnsureReadyCalls
            /\ reply' = EmptyHeader("NULL")
            /\ UNCHANGED prev_data_length
       ELSE LET len == LesserOf(MTU, total_length - processed_length) IN
            /\ prev_data_length' = len
            /\ calls' = <<Call("expsend_data", opcode, processed_length, len)>>
            /\ reply' = DataFrame(frame_id, processed_length, len)
            /\ UNCHANGED type
    /\ UNCHANGED <<opcode, transaction_id, total_length, frame_id,
                   last_received_frame_id, processed_length, seqflags>>

\* A transaction that was carried out before is acknowledged again only.
SendDuplicateAck ==
    /\ type = "OBC_SEND_RX_DUPLICATE"
    /\ reply' = Header("T_ACK", transaction_id, 0)
    /\ type' = "READY"
    /\ calls' = << >>
    /\ UNCHANGED <<opcode, transaction_id, total_length, progress, seqflags>>

\* The application is told and the sequence flag set as the T_ACK is formed.
SendTAck ==
    /\ type = "OBC_SEND_RX"
    /\ processed_length >= total_length
    /\ reply' = Header("T_ACK", transaction_id, 0)
    /\ type' = "READY"
    /\ calls' = <<Call(IF opcode \in SysOps THEN "exprecv_syscommand"
                                            ELSE "exprecv_complete",
                       opcode, 0, 0)>>
    /\ seqflags' = SetFlag(seqflags, opcode, transaction_id)
    /\ UNCHANGED <<opcode, transaction_id, total_length, progress>>

SendFAck ==
    /\ type = "OBC_SEND_RX"
    /\ processed_length < total_length
    /\ reply' = Header("F_ACK", last_received_frame_id, 0)
    /\ calls' = << >>
    /\ UNCHANGED mspState

msp_send_callback ==
    /\ phase = "send"
    /\ phase' = "recv"
    /\ \/ SendNull
       \/ SendResponse
       \/ SendData
       \/ SendDuplicateAck
       \/ SendTAck
       \/ SendFAck

Next == (\E f \in Frames : msp_recv_callback(f)) \/ msp_send_callback

Spec == Init /\ [][Next]_vars
-----------------------------------------------------------------------------
(* Type correctness: every field of the state has one of its C values. *)
TypeOK ==
    /\ type \in Types
    /\ opcode \in Ops \cup {"NULL"}
    /\ transaction_id \in {0, 1, NoFlagId}
    /\ frame_id \in {0, 1, NoFlagId}
    /\ last_received_frame_id \in {0, 1}
    /\ seqflags \in Seqflags
    /\ total_length \in Nat
    /\ processed_length \in Nat
    /\ prev_data_length \in Nat
    /\ phase \in {"recv", "send"}

-----------------------------------------------------------------------------
(* The transaction the application is engaged in, read off the state. *)
HandlerView ==
    CASE type = "OBC_SEND_RX" /\ opcode \notin SysOps ->
            [dir |-> "recv", op |-> opcode,
             len |-> total_length, off |-> processed_length]
      [] type \in Requesting ->
            [dir |-> "send", op |-> opcode,
             len |-> total_length, off |-> processed_length]
      [] OTHER -> [dir |-> "none"]

Handler == INSTANCE MspHandler WITH tr <- HandlerView

\* The library makes its callbacks in the documented order, hands over
\* contiguous data, completes a receive only when all of it has arrived and
\* asks for no byte beyond the announced length (msp_exp_handler.h 16-51).
HandlerContract == Handler!Spec

FinishingCalls(op) ==
    {Call(fn, op, 0, 0) : fn \in {"exprecv_complete", "expsend_complete",
                                  "exprecv_syscommand"}}
FlagChanges(op) ==
    \/ (op \in seqflags.inits) # (op \in seqflags'.inits)
    \/ (op \in seqflags.values) # (op \in seqflags'.values)

\* A transaction is carried out, and the application told so, exactly when its
\* sequence flag takes a new value: a frame the OBC repeats because it missed
\* the T_ACK executes nothing again, and no flag moves without an execution.
CarriedOutOnce ==
    [][\A op \in Flagged :
         FlagChanges(op) <=> \E i \in DOMAIN calls' : calls'[i] \in FinishingCalls(op)
      ]_vars

\* A T_ACK offered to the OBC, first or repeated, always stands for a
\* transaction that was carried out under that very transaction-ID.
AcknowledgedIsDone ==
    (phase = "recv" /\ reply.op = "T_ACK" /\ opcode \in Flagged)
        => FlagIsSet(seqflags, opcode, reply.id)

\* A transaction in progress is a new one: its id is not the one the flags
\* hold for its opcode, whatever was aborted, repeated or completed before.
InProgressIsNew ==
    (opcode \in Flagged /\ type \in Requesting \cup {"OBC_SEND_RX"})
        => ~FlagIsSet(seqflags, opcode, transaction_id)

\* handle_outgoing_data_frame's "something has gone very wrong" branch is dead:
\* a response that is being sent always has a byte left to send.
NeverRunsDry ==
    type = "OBC_REQ_TX" => processed_length < total_length

-----------------------------------------------------------------------------
(* The inductive invariant behind these properties. *)

OpcodeFitsType ==
    /\ type \in Requesting => opcode \in ReqOps
    /\ type \in {"OBC_SEND_RX", "OBC_SEND_RX_DUPLICATE"}
         => opcode \in SysOps \cup SendOps /\ transaction_id \in {0, 1}

LengthsAgree ==
    /\ type = "OBC_REQ_RESPONSE" => processed_length = 0 /\ prev_data_length = 0
    /\ type = "OBC_SEND_RX" => processed_length <= total_length
    /\ type = "OBC_SEND_RX" /\ opcode \in SysOps => total_length = 0
    /\ type = "OBC_REQ_TX" /\ phase = "recv"
         => /\ prev_data_length = LesserOf(MTU, total_length - processed_length)
            /\ calls = <<Call("expsend_data", opcode, processed_length,
                              prev_data_length)>>

\* Only what was carried out before is taken for a duplicate.
DuplicateWasDone ==
    type = "OBC_SEND_RX_DUPLICATE" => FlagIsSet(seqflags, opcode, transaction_id)

IInv ==
    /\ TypeOK
    /\ OpcodeFitsType
    /\ LengthsAgree
    /\ NeverRunsDry
    /\ InProgressIsNew
    /\ DuplicateWasDone
    /\ AcknowledgedIsDone
=============================================================================
