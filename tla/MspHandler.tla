----------------------------- MODULE MspHandler -----------------------------
(***************************************************************************)
(* What the MSP library promises the application that implements its       *)
(* callback functions: the order in which the msp_exprecv_xxx and          *)
(* msp_expsend_xxx functions are called, and with which lengths and        *)
(* offsets.  Written as an abstract state machine over                     *)
(*                                                                         *)
(*   tr     the transaction the application is engaged in                  *)
(*   calls  the callbacks the library made in its last step                *)
(*                                                                         *)
(* MspExp, the protocol state machine, is checked and proved to implement  *)
(* this specification.                                                     *)
(***************************************************************************)
EXTENDS Integers, Sequences

CONSTANTS SysOps, ReqOps, SendOps,   \* opcodes, by their MSP_OP_TYPE
          Lengths,                   \* transaction lengths in bytes
          MTU                        \* longest data field of a frame

VARIABLES tr, calls

Call(fn, op, off, len) == [fn |-> fn, op |-> op, off |-> off, len |-> len]

NoTransaction == [dir |-> "none"]
Transaction(dir, op, len, off) ==
    [dir |-> dir, op |-> op, len |-> len, off |-> off]

\* The data field of the next outgoing frame: a whole MTU or what remains.
ChunkAt(len, off) == IF len - off < MTU THEN len - off ELSE MTU

\* The _error callback that closes the current transaction, if there is one.
ErrorCalls ==
    CASE tr.dir = "recv" -> <<Call("exprecv_error", tr.op, 0, 0)>>
      [] tr.dir = "send" -> <<Call("expsend_error", tr.op, 0, 0)>>
      [] OTHER           -> << >>

Init ==
    /\ tr = NoTransaction
    /\ calls = << >>

\* The transaction in progress, if any, is aborted.
Abort ==
    /\ tr' = NoTransaction
    /\ calls' = ErrorCalls

\* exprecv_start opens a transaction; one still open is closed by its _error.
StartRecv(op) ==
    \E len \in Lengths :
        /\ tr' = Transaction("recv", op, len, 0)
        /\ calls' = Append(ErrorCalls, Call("exprecv_start", op, 0, len))

StartSend(op) ==
    \E len \in Lengths :
        /\ tr' = Transaction("send", op, len, 0)
        /\ calls' = Append(ErrorCalls, Call("expsend_start", op, 0, len))

\* Data arrive in order, without gaps, and never beyond the announced length.
RecvData ==
    /\ tr.dir = "recv"
    /\ \E n \in 1..MTU :
        /\ tr.off + n <= tr.len
        /\ tr' = [tr EXCEPT !.off = @ + n]
        /\ calls' = <<Call("exprecv_data", tr.op, tr.off, n)>>

\* A receive is complete exactly when every announced byte was handed over.
CompleteRecv ==
    /\ tr.dir = "recv"
    /\ tr.off = tr.len
    /\ tr' = NoTransaction
    /\ calls' = <<Call("exprecv_complete", tr.op, 0, 0)>>

\* A chunk that exists is asked for; the same chunk may be asked for again.
SendData ==
    /\ tr.dir = "send"
    /\ tr.off < tr.len
    /\ calls' = <<Call("expsend_data", tr.op, tr.off, ChunkAt(tr.len, tr.off))>>
    /\ UNCHANGED tr

\* The peer acknowledged the chunk asked for last, and more data remain.
Advance ==
    /\ tr.dir = "send"
    /\ calls = <<Call("expsend_data", tr.op, tr.off, ChunkAt(tr.len, tr.off))>>
    /\ tr.off + ChunkAt(tr.len, tr.off) < tr.len
    /\ tr' = [tr EXCEPT !.off = @ + ChunkAt(tr.len, tr.off)]
    /\ calls' = << >>

\* The peer acknowledged the whole transaction.
CompleteSend ==
    /\ tr.dir = "send"
    /\ tr' = NoTransaction
    /\ calls' = <<Call("expsend_complete", tr.op, 0, 0)>>

\* A system command: the only callback, and outside any transaction.
Syscommand(op) ==
    /\ tr.dir = "none"
    /\ calls' = <<Call("exprecv_syscommand", op, 0, 0)>>
    /\ UNCHANGED tr

\* A step of the library that calls nothing.
Silent == calls' = << >> /\ UNCHANGED tr

Next ==
    \/ Abort
    \/ \E op \in SendOps : StartRecv(op)
    \/ \E op \in ReqOps : StartSend(op)
    \/ RecvData \/ CompleteRecv
    \/ SendData \/ Advance \/ CompleteSend
    \/ \E op \in SysOps : Syscommand(op)
    \/ Silent

Spec == Init /\ [][Next]_<<tr, calls>>
=============================================================================
