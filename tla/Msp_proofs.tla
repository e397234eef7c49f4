----------------------------- MODULE Msp_proofs -----------------------------
(***************************************************************************)
(* Proofs about MSP, for any sets of opcodes, any MTU and any transaction  *)
(* lengths.                                                                *)
(*                                                                         *)
(* First of the state machine with an arbitrary OBC: its own properties,   *)
(* and that it implements the callback contract of MspHandler - every step *)
(* is a step of the contract, or changes nothing it speaks of.             *)
(*                                                                         *)
(* Then of the link with an OBC that follows the protocol, for any number  *)
(* of commands and of frames that are corrupted: it delivers every command *)
(* exactly once, and every byte of it in its place.  The invariant follows *)
(* one command: for each stage the OBC is in, it says in which state the   *)
(* experiment may be, be the last frame or its answer corrupted or not.    *)
(***************************************************************************)
EXTENDS MspLink, SequenceTheorems, TLAPS

-----------------------------------------------------------------------------
(* The sequence flags, for any set of flagged opcodes. *)

(* msp_seqflags_set returns a set of sequence flags. *)
LEMMA SetFlagType ==
    ASSUME NEW flags \in Seqflags, NEW op, NEW flag
    PROVE  SetFlag(flags, op, flag) \in Seqflags
BY DEF SetFlag, Seqflags

(* After msp_seqflags_set, msp_seqflags_is_set finds that value and no other. *)
LEMMA SetFlagIsSet ==
    ASSUME NEW flags \in Seqflags, NEW op \in Flagged, NEW flag \in {0, 1}
    PROVE  /\ FlagIsSet(SetFlag(flags, op, flag), op, flag)
           /\ ~FlagIsSet(SetFlag(flags, op, flag), op, 1 - flag)
BY DEF SetFlag, FlagIsSet, FlagValue, Seqflags

(* Setting the flag of an opcode leaves every other flag alone. *)
LEMMA SetFlagOthers ==
    ASSUME NEW flags \in Seqflags, NEW op, NEW flag, NEW other, other # op
    PROVE  /\ other \in SetFlag(flags, op, flag).inits <=> other \in flags.inits
           /\ other \in SetFlag(flags, op, flag).values <=> other \in flags.values
BY DEF SetFlag, Seqflags

(* msp_seqflags_get_next returns a value the flag does not have. *)
LEMMA NextFlagIsNew ==
    ASSUME NEW flags \in Seqflags, NEW op \in Flagged
    PROVE  /\ NextFlag(flags, op) \in {0, 1}
           /\ ~FlagIsSet(flags, op, NextFlag(flags, op))
BY DEF NextFlag, FlagIsSet, FlagValue, Seqflags

(* The flag of an opcode changes when it is set to a value it does not have. *)
LEMMA SetNewFlagChanges ==
    ASSUME NEW flags \in Seqflags, NEW op \in Flagged, NEW flag \in {0, 1},
           ~FlagIsSet(flags, op, flag)
    PROVE  \/ op \notin flags.inits /\ op \in SetFlag(flags, op, flag).inits
           \/ (op \in flags.values) # (op \in SetFlag(flags, op, flag).values)
BY DEF SetFlag, FlagIsSet, FlagValue, Seqflags
-----------------------------------------------------------------------------
(* The state machine. *)

USE OpsAssumption, LengthsAssumption, MTUAssumption
USE DEF Types, Requesting, Ops, CtrlOps, UChar, NoFlagId

(* The start-up state, with blank or restored flags, satisfies IInv. *)
LEMMA InitIInv == Init => IInv
BY DEF Init, IInv, TypeOK, OpcodeFitsType, LengthsAgree, NeverRunsDry,
       InProgressIsNew, DuplicateWasDone, AcknowledgedIsDone, EmptyHeader, Header

(* The transaction-ID of a request is 0, 1, or 255 for an unflagged opcode. *)
LEMMA RequestId ==
    ASSUME NEW flags \in Seqflags, NEW op
    PROVE  UChar(NextFlag(flags, op)) \in {0, 1, 255}
BY DEF NextFlag, Seqflags

(* What a received frame leads to: its kind, and the ranges of its fields. *)
LEMMA Reception ==
    ASSUME NEW f \in Frames, msp_recv_callback(f)
    PROVE  \/ RecvNull
           \/ RecvRejected(f)
           \/ \E op \in ReqOps : RecvRequest(op)
           \/ \E id \in 0..1 :
                \/ RecvFAck(id)
                \/ RecvTAck(id)
                \/ \E len \in 1..MTU : RecvData(id, len)
                \/ \E op \in SysOps : RecvSystem(op, id)
                \/ \E op \in SendOps, dl \in Lengths : RecvSend(op, id, dl)
<1>1. /\ f.id \in 0..1
      /\ f.op = "DATA" /\ f.len > 0 => f.len \in 1..MTU
      /\ f.op \in SendOps => f.len \in Lengths
  BY DEF Frames
<1>2. \/ RecvNull
      \/ f.op = "DATA" /\ f.len > 0 /\ RecvData(f.id, f.len)
      \/ RecvFAck(f.id)
      \/ RecvTAck(f.id)
      \/ f.op \in SysOps /\ RecvSystem(f.op, f.id)
      \/ f.op \in ReqOps /\ RecvRequest(f.op)
      \/ f.op \in SendOps /\ RecvSend(f.op, f.id, f.len)
      \/ RecvRejected(f)
  BY DEF msp_recv_callback
<1>3. CASE f.op = "DATA" /\ f.len > 0 /\ RecvData(f.id, f.len)
  BY <1>1, <1>3
<1>4. CASE RecvFAck(f.id) \/ RecvTAck(f.id)
  BY <1>1, <1>4
<1>5. CASE f.op \in SysOps /\ RecvSystem(f.op, f.id)
  BY <1>1, <1>5
<1>6. CASE f.op \in ReqOps /\ RecvRequest(f.op)
  BY <1>6
<1>7. CASE f.op \in SendOps /\ RecvSend(f.op, f.id, f.len)
  BY <1>1, <1>7
<1> QED
  BY <1>2, <1>3, <1>4, <1>5, <1>6, <1>7

(* msp_recv_callback preserves the invariant, one step per kind of frame. *)
LEMMA RecvIInv ==
    ASSUME IInv, NEW f \in Frames, msp_recv_callback(f)
    PROVE  IInv'
<1> USE DEF IInv, TypeOK, OpcodeFitsType, LengthsAgree, NeverRunsDry,
            InProgressIsNew, DuplicateWasDone, AcknowledgedIsDone
<1>1. phase = "recv" /\ phase' = "send" /\ reply' = reply
  BY DEF msp_recv_callback
<1>2. CASE RecvNull
  BY <1>1, <1>2 DEF RecvNull, progress
<1>3. CASE RecvRejected(f)
  BY <1>1, <1>3 DEF RecvRejected, mspState, transaction, progress
<1>4. ASSUME NEW op \in ReqOps, RecvRequest(op) PROVE IInv'
  BY <1>1, <1>4, RequestId, NextFlagIsNew DEF RecvRequest
<1>5. ASSUME NEW id \in 0..1, RecvFAck(id) PROVE IInv'
  BY <1>1, <1>5 DEF RecvFAck, FAckAccepted
<1>6. ASSUME NEW id \in 0..1, RecvTAck(id) PROVE IInv'
  BY <1>1, <1>6, SetFlagType DEF RecvTAck, TAckAccepted, progress
<1>7. ASSUME NEW id \in 0..1, NEW len \in 1..MTU, RecvData(id, len) PROVE IInv'
  BY <1>1, <1>7 DEF RecvData, DataAccepted, transaction
<1>8. ASSUME NEW id \in 0..1, NEW op \in SysOps, RecvSystem(op, id) PROVE IInv'
  BY <1>1, <1>8 DEF RecvSystem, ReceivedType
<1>9. ASSUME NEW id \in 0..1, NEW op \in SendOps, NEW dl \in Lengths,
             RecvSend(op, id, dl)
      PROVE  IInv'
  BY <1>1, <1>9 DEF RecvSend, ReceivedType
<1> QED
  BY <1>2, <1>3, <1>4, <1>5, <1>6, <1>7, <1>8, <1>9, Reception

(* msp_send_callback preserves it, one step per state it is called in. *)
LEMMA SendIInv == IInv /\ msp_send_callback => IInv'
<1> SUFFICES ASSUME IInv, msp_send_callback PROVE IInv'
  OBVIOUS
<1> USE DEF IInv, TypeOK, OpcodeFitsType, LengthsAgree, NeverRunsDry,
            InProgressIsNew, DuplicateWasDone, AcknowledgedIsDone,
            EmptyHeader, Header, DataFrame
<1>1. phase = "send" /\ phase' = "recv"
  BY DEF msp_send_callback
<1>2. CASE SendNull
  BY <1>1, <1>2 DEF SendNull, mspState, transaction, progress
<1>3. CASE SendResponse
  BY <1>1, <1>3 DEF SendResponse, mspState, transaction, progress
<1>4. CASE SendData
  BY <1>1, <1>4 DEF SendData, LesserOf
<1>5. CASE SendDuplicateAck
  BY <1>1, <1>5 DEF SendDuplicateAck, progress
<1>6. CASE SendTAck
  BY <1>1, <1>6, SetFlagType, SetFlagIsSet DEF SendTAck, progress
<1>7. CASE SendFAck
  BY <1>1, <1>7 DEF SendFAck, mspState, transaction, progress
<1> QED
  BY <1>2, <1>3, <1>4, <1>5, <1>6, <1>7 DEF msp_send_callback

(* IInv is an invariant of the MSP state machine. *)
THEOREM Invariance == Spec => []IInv
<1>1. IInv /\ UNCHANGED vars => IInv'
  BY DEF vars, mspState, transaction, progress, IInv, TypeOK, OpcodeFitsType,
         LengthsAgree, NeverRunsDry, InProgressIsNew, DuplicateWasDone,
         AcknowledgedIsDone
<1>2. IInv /\ [Next]_vars => IInv'
  BY <1>1, RecvIInv, SendIInv DEF Next
<1> QED
  BY InitIInv, <1>2, PTL DEF Spec

(* Every value of the state is one its C type can hold in this protocol. *)
THEOREM TypeCorrect == Spec => []TypeOK
BY Invariance, PTL DEF IInv

(* A transaction that is under way is one that has not been carried out. *)
THEOREM InProgressAreNew == Spec => []InProgressIsNew
BY Invariance, PTL DEF IInv

(* A T_ACK is only ever sent for a transaction that was carried out. *)
THEOREM AcknowledgedAreDone == Spec => []AcknowledgedIsDone
BY Invariance, PTL DEF IInv

(* While a response is being sent, msp_exp_send is never called for more data *)
(* than there is left.                                                        *)
THEOREM ResponsesNeverRunDry == Spec => []NeverRunsDry
BY Invariance, PTL DEF IInv
-----------------------------------------------------------------------------
(* The part of the action property CarriedOutOnce about one step. *)
CarriesOutOnce ==
    \A op \in Flagged :
        FlagChanges(op) <=> \E i \in DOMAIN calls' : calls'[i] \in FinishingCalls(op)

(* The calls of ensure_ready_state, and those that open a transaction, finish
   none. *)
LEMMA OpeningFinishesNothing ==
    ASSUME NEW op, NEW i \in DOMAIN EnsureReadyCalls
    PROVE  EnsureReadyCalls[i] \notin FinishingCalls(op)
BY DEF EnsureReadyCalls, FinishingCalls, Call

LEMMA StartFinishesNothing ==
    ASSUME NEW op, NEW other, NEW n, NEW fn \in {"exprecv_start", "expsend_start"},
           NEW i \in DOMAIN Append(EnsureReadyCalls, Call(fn, other, 0, n))
    PROVE  Append(EnsureReadyCalls, Call(fn, other, 0, n))[i] \notin FinishingCalls(op)
<1>1. EnsureReadyCalls = << >> \/ \E c : EnsureReadyCalls = <<c>>
  BY DEF EnsureReadyCalls
<1>2. Call(fn, other, 0, n) \notin FinishingCalls(op)
  BY DEF FinishingCalls, Call
<1>3. CASE EnsureReadyCalls = << >>
  BY <1>2, <1>3
<1>4. ASSUME NEW c, EnsureReadyCalls = <<c>>
      PROVE Append(EnsureReadyCalls, Call(fn, other, 0, n))[i] \notin FinishingCalls(op)
  <2>1. c \notin FinishingCalls(op)
    BY <1>4, OpeningFinishesNothing
  <2>2. i \in 1..2
    BY <1>4
  <2> QED
    BY <1>2, <1>4, <2>1, <2>2
<1> QED
  BY <1>1, <1>3, <1>4

(* Reception changes a flag for an accepted T_ACK only. *)
LEMMA RecvCarriesOutOnce ==
    ASSUME IInv, NEW f \in Frames, msp_recv_callback(f)
    PROVE  CarriesOutOnce
<1> SUFFICES ASSUME NEW op \in Flagged
             PROVE  FlagChanges(op)
                      <=> \E i \in DOMAIN calls' : calls'[i] \in FinishingCalls(op)
  BY DEF CarriesOutOnce
<1>1. CASE RecvNull
  BY <1>1, OpeningFinishesNothing DEF RecvNull, FlagChanges
<1>2. CASE RecvRejected(f)
  BY <1>2 DEF RecvRejected, mspState, FlagChanges
<1>3. ASSUME NEW o \in ReqOps, RecvRequest(o)
      PROVE  /\ ~FlagChanges(op)
             /\ \A i \in DOMAIN calls' : calls'[i] \notin FinishingCalls(op)
  BY <1>3, StartFinishesNothing DEF RecvRequest, FlagChanges
<1>4. ASSUME NEW id \in 0..1, RecvFAck(id)
      PROVE  ~FlagChanges(op) /\ calls' = << >>
  BY <1>4 DEF RecvFAck, FlagChanges
<1>5. ASSUME NEW id \in 0..1, RecvTAck(id)
      PROVE  FlagChanges(op)
               <=> \E i \in DOMAIN calls' : calls'[i] \in FinishingCalls(op)
  <2>1. seqflags \in Seqflags /\ id = transaction_id /\ type \in Requesting
    BY <1>5 DEF RecvTAck, TAckAccepted, IInv, TypeOK
  <2>2. calls' = <<Call("expsend_complete", opcode, 0, 0)>>
        /\ seqflags' = SetFlag(seqflags, opcode, id)
    BY <1>5 DEF RecvTAck
  <2>3. CASE op = opcode
    <3>1. calls'[1] \in FinishingCalls(op) /\ DOMAIN calls' = {1}
      BY <2>2, <2>3 DEF FinishingCalls, Call
    <3>2. ~FlagIsSet(seqflags, op, id)
      BY <2>1, <2>3 DEF IInv, InProgressIsNew
    <3> QED
      BY <2>1, <2>2, <2>3, <3>1, <3>2, SetNewFlagChanges DEF FlagChanges
  <2>4. CASE op # opcode
    <3>1. calls'[1] \notin FinishingCalls(op) /\ DOMAIN calls' = {1}
      BY <2>2, <2>4 DEF FinishingCalls, Call
    <3> QED
      BY <2>1, <2>2, <2>4, <3>1, SetFlagOthers DEF FlagChanges
  <2> QED
    BY <2>3, <2>4
<1>6. ASSUME NEW id \in 0..1, NEW len \in 1..MTU, RecvData(id, len)
      PROVE  /\ ~FlagChanges(op)
             /\ \A i \in DOMAIN calls' : calls'[i] \notin FinishingCalls(op)
  BY <1>6 DEF RecvData, FlagChanges, FinishingCalls, Call
<1>7. ASSUME NEW id \in 0..1, NEW o \in SysOps, RecvSystem(o, id)
      PROVE  /\ ~FlagChanges(op)
             /\ \A i \in DOMAIN calls' : calls'[i] \notin FinishingCalls(op)
  BY <1>7, OpeningFinishesNothing DEF RecvSystem, FlagChanges
<1>8. ASSUME NEW id \in 0..1, NEW o \in SendOps, NEW dl \in Lengths,
             RecvSend(o, id, dl)
      PROVE  /\ ~FlagChanges(op)
             /\ \A i \in DOMAIN calls' : calls'[i] \notin FinishingCalls(op)
  BY <1>8, OpeningFinishesNothing, StartFinishesNothing DEF RecvSend, FlagChanges
<1> QED
  BY <1>1, <1>2, <1>3, <1>4, <1>5, <1>6, <1>7, <1>8, Reception

(* A reply changes a flag for the first T_ACK of a transaction only. *)
LEMMA SendCarriesOutOnce == IInv /\ msp_send_callback => CarriesOutOnce
<1> SUFFICES ASSUME IInv, msp_send_callback, NEW op \in Flagged
             PROVE  FlagChanges(op)
                      <=> \E i \in DOMAIN calls' : calls'[i] \in FinishingCalls(op)
  BY DEF CarriesOutOnce
<1>1. CASE SendNull \/ SendResponse \/ SendDuplicateAck \/ SendFAck
  <2>1. calls' = << >> /\ seqflags' = seqflags
    BY <1>1 DEF SendNull, SendResponse, SendDuplicateAck, SendFAck, mspState
  <2> QED
    BY <2>1 DEF FlagChanges
<1>2. CASE SendData
  <2>1. processed_length < total_length
    BY <1>2 DEF SendData, IInv, NeverRunsDry
  <2>2. /\ calls' = <<Call("expsend_data", opcode, processed_length, prev_data_length')>>
        /\ seqflags' = seqflags
    BY <1>2, <2>1 DEF SendData, IInv, TypeOK
  <2> QED
    BY <2>2 DEF FlagChanges, FinishingCalls, Call
<1>3. CASE SendTAck
  <2> DEFINE fn == IF opcode \in SysOps THEN "exprecv_syscommand"
                                         ELSE "exprecv_complete"
  <2>1. /\ seqflags \in Seqflags
        /\ transaction_id \in {0, 1}
        /\ type = "OBC_SEND_RX"
    BY <1>3 DEF SendTAck, IInv, TypeOK, OpcodeFitsType
  <2>2. /\ calls' = <<Call(fn, opcode, 0, 0)>>
        /\ seqflags' = SetFlag(seqflags, opcode, transaction_id)
    BY <1>3 DEF SendTAck
  <2>3. fn \in {"exprecv_complete", "expsend_complete", "exprecv_syscommand"}
    OBVIOUS
  <2>4. CASE op = opcode
    <3>1. calls'[1] \in FinishingCalls(op) /\ DOMAIN calls' = {1}
      BY <2>2, <2>3, <2>4 DEF FinishingCalls
    <3>2. ~FlagIsSet(seqflags, op, transaction_id)
      BY <2>1, <2>4 DEF IInv, InProgressIsNew
    <3> QED
      BY <2>1, <2>2, <2>4, <3>1, <3>2, SetNewFlagChanges DEF FlagChanges
  <2>5. CASE op # opcode
    <3>1. calls'[1] \notin FinishingCalls(op) /\ DOMAIN calls' = {1}
      BY <2>2, <2>5 DEF FinishingCalls, Call
    <3> QED
      BY <2>1, <2>2, <2>5, <3>1, SetFlagOthers DEF FlagChanges
  <2> QED
    BY <2>4, <2>5
<1> QED
  BY <1>1, <1>2, <1>3 DEF msp_send_callback

(* A transaction is carried out exactly when its sequence flag changes, in
   every behaviour: none is repeated and none is acknowledged for nothing. *)
THEOREM ExactlyOnce == Spec => CarriedOutOnce
<1>1. IInv /\ [Next]_vars => [CarriesOutOnce]_vars
  BY RecvCarriesOutOnce, SendCarriesOutOnce DEF Next
<1> QED
  BY Invariance, <1>1, PTL DEF Spec, CarriedOutOnce, CarriesOutOnce
-----------------------------------------------------------------------------
(* The callback contract. *)

USE DEF Handler!Call, Handler!NoTransaction, Handler!Transaction

(* The calls of ensure_ready_state are those that close the transaction the
   contract has open. *)
LEMMA AbortCalls == IInv => EnsureReadyCalls = Handler!ErrorCalls
BY DEF IInv, OpcodeFitsType, EnsureReadyCalls, Handler!ErrorCalls, HandlerView, Call

(* The next chunk is the same number of bytes on both sides. *)
LEMMA SameChunk ==
    ASSUME NEW len \in Nat, NEW off \in Nat
    PROVE  Handler!ChunkAt(len, off) = LesserOf(MTU, len - off)
BY DEF Handler!ChunkAt, LesserOf

(* The start-up state is idle for the contract. *)
LEMMA InitImplements == Init => Handler!Init
BY DEF Init, Handler!Init, HandlerView

(* Each received frame is a step of the contract. *)
LEMMA RecvImplements ==
    ASSUME IInv, NEW f \in Frames, msp_recv_callback(f)
    PROVE  Handler!Next
<1> USE DEF HandlerView
<1>1. CASE RecvNull
  <2>1. Handler!Abort
    BY <1>1, AbortCalls DEF RecvNull, Handler!Abort
  <2> QED
    BY <2>1 DEF Handler!Next
<1>2. CASE RecvRejected(f)
  <2>1. Handler!Silent
    BY <1>2 DEF RecvRejected, mspState, transaction, progress, Handler!Silent
  <2> QED
    BY <2>1 DEF Handler!Next
<1>3. ASSUME NEW op \in ReqOps, RecvRequest(op) PROVE Handler!StartSend(op)
  BY <1>3, AbortCalls DEF RecvRequest, Handler!StartSend, Call
<1>4. ASSUME NEW id \in 0..1, RecvFAck(id) PROVE Handler!Next
  <2>1. CASE type = "OBC_REQ_RESPONSE"
    <3>1. Handler!Silent
      BY <1>4, <2>1 DEF RecvFAck, IInv, LengthsAgree, Handler!Silent
    <3> QED
      BY <3>1 DEF Handler!Next
  <2>2. CASE type = "OBC_REQ_TX"
    <3>1. phase = "recv"
      BY DEF msp_recv_callback
    <3>2. /\ prev_data_length = Handler!ChunkAt(total_length, processed_length)
          /\ calls = <<Call("expsend_data", opcode, processed_length,
                            prev_data_length)>>
          /\ processed_length + prev_data_length < total_length
      BY <1>4, <2>2, <3>1, SameChunk
      DEF IInv, TypeOK, LengthsAgree, RecvFAck, FAckAccepted
    <3>3. Handler!Advance
      BY <1>4, <2>2, <3>2 DEF RecvFAck, Handler!Advance, Call
    <3> QED
      BY <3>3 DEF Handler!Next
  <2> QED
    BY <1>4, <2>1, <2>2 DEF RecvFAck, FAckAccepted
<1>5. ASSUME NEW id \in 0..1, RecvTAck(id) PROVE Handler!CompleteSend
  BY <1>5 DEF RecvTAck, TAckAccepted, Handler!CompleteSend, Call
<1>6. ASSUME NEW id \in 0..1, NEW len \in 1..MTU, RecvData(id, len)
      PROVE  Handler!RecvData
  <2>1. opcode \notin SysOps
    BY <1>6 DEF RecvData, DataAccepted, IInv, TypeOK, LengthsAgree
  <2> QED
    BY <1>6, <2>1 DEF RecvData, DataAccepted, transaction, Handler!RecvData, Call
<1>7. ASSUME NEW id \in 0..1, NEW op \in SysOps, RecvSystem(op, id)
      PROVE  Handler!Abort
  BY <1>7, AbortCalls DEF RecvSystem, ReceivedType, Handler!Abort
<1>8. ASSUME NEW id \in 0..1, NEW op \in SendOps, NEW dl \in Lengths,
             RecvSend(op, id, dl)
      PROVE  Handler!Abort \/ Handler!StartRecv(op)
  BY <1>8, AbortCalls
  DEF RecvSend, ReceivedType, Handler!Abort, Handler!StartRecv, Call
<1> QED
  BY <1>1, <1>2, <1>3, <1>4, <1>5, <1>6, <1>7, <1>8, Reception DEF Handler!Next

(* Each reply is a step of the contract. *)
LEMMA SendImplements ==
    ASSUME IInv, msp_send_callback
    PROVE  Handler!Next
<1> USE DEF HandlerView
<1>1. CASE SendNull \/ SendResponse \/ SendDuplicateAck \/ SendFAck
  <2>1. Handler!Silent
    BY <1>1 DEF SendNull, SendResponse, SendDuplicateAck, SendFAck, mspState,
                transaction, progress, Handler!Silent
  <2> QED
    BY <2>1 DEF Handler!Next
<1>2. CASE SendData
  <2>1. processed_length < total_length
    BY <1>2 DEF SendData, IInv, NeverRunsDry
  <2>2. Handler!SendData
    BY <1>2, <2>1, SameChunk DEF SendData, IInv, TypeOK, Handler!SendData, Call
  <2> QED
    BY <2>2 DEF Handler!Next
<1>3. CASE SendTAck
  <2>1. CASE opcode \in SysOps
    <3>1. Handler!Syscommand(opcode)
      BY <1>3, <2>1 DEF SendTAck, Handler!Syscommand, Call
    <3> QED
      BY <2>1, <3>1 DEF Handler!Next
  <2>2. CASE opcode \notin SysOps
    <3>1. processed_length = total_length
      BY <1>3 DEF SendTAck, IInv, TypeOK, LengthsAgree
    <3>2. Handler!CompleteRecv
      BY <1>3, <2>2, <3>1 DEF SendTAck, Handler!CompleteRecv, Call
    <3> QED
      BY <3>2 DEF Handler!Next
  <2> QED
    BY <2>1, <2>2
<1> QED
  BY <1>1, <1>2, <1>3 DEF msp_send_callback

(* The application sees the callbacks in the order, and with the lengths and
   offsets, that msp_exp_handler.h documents, whatever frames arrive. *)
THEOREM Implementation == Spec => HandlerContract
<1>1. UNCHANGED vars => UNCHANGED <<HandlerView, calls>>
  BY DEF vars, mspState, transaction, progress, HandlerView
<1>2. IInv /\ [Next]_vars => [Handler!Next]_<<HandlerView, calls>>
  BY <1>1, RecvImplements, SendImplements DEF Next
<1> QED
  BY InitImplements, Invariance, <1>2, PTL DEF Spec, HandlerContract, Handler!Spec
-----------------------------------------------------------------------------
(* The link. *)

\* The opcodes the OBC uses all have a sequence flag, as those of msp_opcodes.h
\* do.  Without one a request is announced with the id 255 (msp_exp_callback.c
\* 349), and a command that is repeated is carried out again.
AllFlagged == Ops \subseteq Flagged

Stages == {"idle", "header", "data", "final", "reset"}

LinkTypeOK ==
    /\ obc \in [stage : Stages, op : Ops \cup {"NULL"}, id : {0, 1},
                len : Nat, off : Nat, fid : {0, 1}]
    /\ obcNext \in [Ops -> {0, 1}]
    /\ turn \in {"write", "read"}
    /\ sent \in Seq(Ops) /\ done \in Seq(Ops) /\ confirmed \in Nat

\* The current command was carried out.
Executed == Len(done) > confirmed

\* At most one command is under way, and it is the last one given.
Histories ==
    /\ Len(sent) = IF obc.stage = "idle" THEN confirmed ELSE confirmed + 1
    /\ confirmed <= Len(done) /\ Len(done) <= Len(sent)
    /\ obc.stage # "idle" => sent[Len(sent)] = obc.op

\* The experiment replies in the same exchange; the OBC reads only what it asked.
Turns ==
    /\ phase = "send" => turn = "read"
    /\ obc.stage = "idle" => turn = "write"

\* What the OBC keeps of the command, by stage.
Command ==
    /\ obc.stage = "idle" => obc.op = "NULL"
    /\ obc.stage # "idle" => obc.op \in Ops /\ obc.id = obcNext[obc.op]
    /\ obc.op \in SendOps => obc.len \in Lengths
    /\ obc.op \in SysOps => obc.len = 0
    /\ obc.stage = "data" => obc.op \in SendOps \cup ReqOps /\ obc.off < obc.len
    /\ obc.stage = "reset" => obc.op \in SendOps \cup ReqOps
    /\ obc.stage = "final" => obc.op \in ReqOps /\ obc.off = obc.len
    /\ (obc.op \in ReqOps /\ Executed) => obc.stage = "final"

\* Both ends count on the same transaction-ID, but for the command the OBC does
\* not know to be carried out yet.
FlagsAgree ==
    \A op \in Ops :
        IF op = obc.op /\ Executed THEN FlagIsSet(seqflags, op, obcNext[op])
                                    ELSE NextFlag(seqflags, op) = obcNext[op]

\* The states the experiment may be in, told by the bytes that went over (off)
\* and the frame-ID it expects or has seen (fid).
Ready == type = "READY"
Engaged(t) == type = t /\ opcode = obc.op /\ transaction_id = obc.id

Repeated == Engaged("OBC_SEND_RX_DUPLICATE") /\ Executed /\ phase = "send"

Receiving(off, fid) ==
    /\ Engaged("OBC_SEND_RX") /\ ~Executed
    /\ total_length = obc.len /\ processed_length = off
    /\ last_received_frame_id = fid
    /\ phase = "recv" => off < obc.len

Announcing(fid) ==
    /\ Engaged("OBC_REQ_RESPONSE") /\ ~Executed
    /\ frame_id = fid

Responding(off, fid) ==
    /\ Engaged("OBC_REQ_TX") /\ ~Executed
    /\ total_length = obc.len /\ processed_length = off
    /\ frame_id = fid

\* The OBC has the frame that is out; its F_ACK has not arrived.
ResponseRead ==
    /\ Responding(processed_length, obc.fid)
    /\ prev_data_length = LesserOf(MTU, total_length - processed_length)
    /\ processed_length + prev_data_length = obc.off

\* In which of them for each stage of the OBC.
InIdle == obc.stage = "idle" => Ready
InHeader ==
    obc.stage = "header" =>
        \/ Ready
        \/ obc.op \in SysOps \cup SendOps /\ (Repeated \/ Receiving(0, obc.id))
        \/ obc.op \in ReqOps /\ Announcing(obc.id)
InDataSent ==
    (obc.stage = "data" /\ obc.op \in SendOps) =>
        \/ Receiving(obc.off, 1 - obc.fid)
        \/ Receiving(obc.off + Chunk, obc.fid)
        \/ Ready /\ Executed
InDataRead ==
    (obc.stage = "data" /\ obc.op \in ReqOps) =>
        \/ Announcing(obc.fid) /\ obc.off = 0 /\ total_length = obc.len
        \/ ResponseRead
        \/ Responding(obc.off, 1 - obc.fid)
InFinal ==
    obc.stage = "final" =>
        \/ Announcing(obc.fid) /\ obc.len = 0 /\ total_length = 0
        \/ ResponseRead
        \/ Ready /\ Executed
InReset ==
    obc.stage = "reset" =>
        \/ Ready
        \/ /\ ~Executed /\ type # "OBC_SEND_RX_DUPLICATE"
           /\ type = "OBC_SEND_RX" => processed_length < total_length

Match == InIdle /\ InHeader /\ InDataSent /\ InDataRead /\ InFinal /\ InReset

\* Calls that neither hand over data nor end a response.
Quiet(cs) == \A i \in DOMAIN cs : cs[i].fn \notin {"exprecv_data", "expsend_complete"}

\* The last reply tells the state the experiment is in.
Answer ==
    phase = "recv" =>
        /\ reply.op = "NULL" => Ready
        /\ reply.op = "EXP_SEND" =>
             type = "OBC_REQ_RESPONSE" /\ reply.id = transaction_id % 2 /\ reply.len = total_length
        /\ reply.op = "DATA" =>
             /\ type = "OBC_REQ_TX" /\ reply.id = frame_id
             /\ reply.off = processed_length /\ reply.len = prev_data_length
        /\ reply.op = "F_ACK" => type = "OBC_SEND_RX" /\ reply.id = last_received_frame_id
        /\ (turn = "read" /\ reply.op = "T_ACK") => Executed
        /\ Quiet(calls)

\* The inductive invariant of the link.
LinkIInv == IInv /\ LinkTypeOK /\ Histories /\ Turns /\ Command /\ FlagsAgree /\ Match /\ Answer
-----------------------------------------------------------------------------
(* The link starts in it. *)
LEMMA InitLink ==
    ASSUME AllFlagged, LinkInit
    PROVE  LinkIInv
<1>1. IInv
  BY InitIInv DEF LinkInit
<1>2. LinkTypeOK /\ Histories /\ Turns /\ Command
  BY DEF LinkInit, Init, LinkTypeOK, Stages, NoCommand, Histories, Turns, Command, Executed
<1>3. FlagsAgree
  <2>1. ~Executed
    BY DEF LinkInit, Executed
  <2>2. \A op : NextFlag(BlankSeqflags, op) = IF op \in Flagged THEN 0 ELSE -1
    BY DEF NextFlag, BlankSeqflags
  <2>3. \A op \in Ops : obcNext[op] = 0
    BY DEF LinkInit
  <2> QED
    BY <2>1, <2>2, <2>3 DEF LinkInit, FlagsAgree, AllFlagged
<1>4. Match
  BY DEF LinkInit, Init, NoCommand, Match, InIdle, InHeader, InDataSent, InDataRead,
         InFinal, InReset, Ready
<1>5. Answer
  BY DEF LinkInit, Init, Answer, Quiet, Ready, EmptyHeader, Header
<1> QED
  BY <1>1, <1>2, <1>3, <1>4, <1>5 DEF LinkIInv

\* What the OBC sends next of its data.
LEMMA ChunkFits ==
    ASSUME LinkTypeOK, obc.off < obc.len
    PROVE  Chunk \in 1..MTU /\ obc.off + Chunk <= obc.len
BY DEF Chunk, LesserOf, LinkTypeOK

\* Setting a flag leaves what is next for any other opcode.
LEMMA SetFlagNext ==
    ASSUME NEW flags \in Seqflags, NEW op \in Flagged, NEW flag \in {0, 1}
    PROVE  \A other : other # op =>
                NextFlag(SetFlag(flags, op, flag), other) = NextFlag(flags, other)
BY DEF NextFlag, SetFlag, Seqflags

\* After a value of the flag comes the other one.
LEMMA NextAfterSet ==
    ASSUME NEW flags \in Seqflags, NEW op \in Flagged, NEW flag \in {0, 1},
           FlagIsSet(flags, op, flag)
    PROVE  NextFlag(flags, op) = 1 - flag
BY DEF NextFlag, FlagIsSet, FlagValue, Seqflags

\* The OBC's frames are frames.
LEMMA ObcFrameIsFrame ==
    ASSUME LinkTypeOK, Command, obc.stage # "idle"
    PROVE  /\ ObcFrame \in Frames
           /\ Frame("CORRUPT", 0, 0) \in Frames
<1>1. CASE obc.stage = "reset"
  <2>1. ObcFrame = Frame("NULL", 0, 0)
    BY <1>1 DEF ObcFrame
  <2> QED
    BY <2>1 DEF Frame, Frames
<1>2. CASE obc.stage = "header"
  <2>1. obc.op \in Ops /\ obc.id \in 0..1
    BY <1>2 DEF Command, LinkTypeOK
  <2>2. CASE obc.op \in SendOps
    <3>1. ObcFrame = Frame(obc.op, obc.id, obc.len)
      BY <1>2, <2>2 DEF ObcFrame
    <3> QED
      BY <2>1, <2>2, <3>1 DEF Frame, Frames, Command
  <2>3. CASE obc.op \in SysOps
    <3>1. ObcFrame = Frame(obc.op, obc.id, 0)
      BY <1>2, <2>3 DEF ObcFrame
    <3> QED
      BY <2>1, <2>3, <3>1 DEF Frame, Frames
  <2>4. CASE obc.op \in ReqOps
    <3>1. ObcFrame = Frame(obc.op, 0, 0)
      BY <1>2, <2>4 DEF ObcFrame
    <3> QED
      BY <2>4, <3>1 DEF Frame, Frames
  <2> QED
    BY <2>1, <2>2, <2>3, <2>4
<1>3. CASE obc.stage = "data"
  <2>1. obc.op \in SendOps \cup ReqOps /\ obc.off < obc.len /\ obc.fid \in 0..1
    BY <1>3 DEF Command, LinkTypeOK
  <2>2. CASE obc.op \in SendOps
    <3>1. ObcFrame = Frame("DATA", obc.fid, Chunk)
      BY <1>3, <2>2 DEF ObcFrame
    <3> QED
      BY <2>1, <3>1, ChunkFits DEF Frame, Frames
  <2>3. CASE obc.op \in ReqOps
    <3>1. ObcFrame = Frame("F_ACK", obc.fid, 0)
      BY <1>3, <2>3 DEF ObcFrame
    <3> QED
      BY <2>1, <3>1 DEF Frame, Frames
  <2> QED
    BY <2>1, <2>2, <2>3
<1>4. CASE obc.stage = "final"
  <2>1. ObcFrame = Frame("T_ACK", obc.id, 0)
    BY <1>4 DEF ObcFrame
  <2> QED
    BY <2>1 DEF Frame, Frames, LinkTypeOK
<1>5. Frame("CORRUPT", 0, 0) \in Frames
  BY DEF Frame, Frames
<1> QED
  BY <1>1, <1>2, <1>3, <1>4, <1>5 DEF LinkTypeOK, Stages

\* What the experiment makes of them.
LEMMA WriteMeans ==
    ASSUME LinkTypeOK, Command, ObcWrite
    PROVE  \/ \E f \in Frames : RecvRejected(f)
           \/ obc.stage = "reset" /\ RecvNull
           \/ obc.stage = "header" /\ obc.op \in SendOps /\ RecvSend(obc.op, obc.id, obc.len)
           \/ obc.stage = "header" /\ obc.op \in SysOps /\ RecvSystem(obc.op, obc.id)
           \/ obc.stage = "header" /\ obc.op \in ReqOps /\ RecvRequest(obc.op)
           \/ obc.stage = "data" /\ obc.op \in SendOps /\ RecvData(obc.fid, Chunk)
           \/ obc.stage = "data" /\ obc.op \in ReqOps /\ RecvFAck(obc.fid)
           \/ obc.stage = "final" /\ RecvTAck(obc.id)
<1>0. obc.stage # "idle"
  BY DEF ObcWrite
<1>1. CASE noise' = "write"
  <2>1. msp_recv_callback(Frame("CORRUPT", 0, 0))
    BY <1>1 DEF ObcWrite
  <2>2. RecvRejected(Frame("CORRUPT", 0, 0))
    BY <2>1 DEF msp_recv_callback, Frame
  <2> QED
    BY <1>0, <2>2, ObcFrameIsFrame
<1>2. CASE noise' # "write"
  <2>1. msp_recv_callback(ObcFrame) /\ ObcFrame \in Frames
    BY <1>0, <1>2, ObcFrameIsFrame DEF ObcWrite
  <2>2. CASE obc.stage = "reset"
    <3>1. ObcFrame = Frame("NULL", 0, 0)
      BY <2>2 DEF ObcFrame
    <3> QED
      BY <2>1, <2>2, <3>1 DEF msp_recv_callback, Frame
  <2>3. CASE obc.stage = "header"
    <3>1. obc.op \in Ops
      BY <2>3 DEF Command
    <3>2. CASE obc.op \in SendOps
      <4>1. ObcFrame = Frame(obc.op, obc.id, obc.len)
        BY <2>3, <3>2 DEF ObcFrame
      <4> QED
        BY <2>1, <2>3, <3>2, <4>1 DEF msp_recv_callback, Frame
    <3>3. CASE obc.op \in SysOps
      <4>1. ObcFrame = Frame(obc.op, obc.id, 0)
        BY <2>3, <3>3 DEF ObcFrame
      <4> QED
        BY <2>1, <2>3, <3>3, <4>1 DEF msp_recv_callback, Frame
    <3>4. CASE obc.op \in ReqOps
      <4>1. ObcFrame = Frame(obc.op, 0, 0)
        BY <2>3, <3>4 DEF ObcFrame
      <4> QED
        BY <2>1, <2>3, <3>4, <4>1 DEF msp_recv_callback, Frame
    <3> QED
      BY <3>1, <3>2, <3>3, <3>4
  <2>4. CASE obc.stage = "data" /\ obc.op \in SendOps
    <3>1. ObcFrame = Frame("DATA", obc.fid, Chunk)
      BY <2>4 DEF ObcFrame
    <3> QED
      BY <2>1, <2>4, <3>1 DEF msp_recv_callback, Frame
  <2>5. CASE obc.stage = "data" /\ obc.op \in ReqOps
    <3>1. ObcFrame = Frame("F_ACK", obc.fid, 0)
      BY <2>5 DEF ObcFrame
    <3> QED
      BY <2>1, <2>5, <3>1 DEF msp_recv_callback, Frame
  <2>6. CASE obc.stage = "final"
    <3>1. ObcFrame = Frame("T_ACK", obc.id, 0)
      BY <2>6 DEF ObcFrame
    <3> QED
      BY <2>1, <2>6, <3>1 DEF msp_recv_callback, Frame
  <2> QED
    BY <1>0, <2>2, <2>3, <2>4, <2>5, <2>6 DEF LinkTypeOK, Stages, Command
<1> QED
  BY <1>1, <1>2
-----------------------------------------------------------------------------
\* A step that carries nothing out, and leaves the OBC where it is.
LEMMA Unexecuted ==
    ASSUME LinkIInv, obc.stage # "idle", UNCHANGED <<obc, obcNext, sent, confirmed, done>>,
           seqflags' = seqflags, turn' = "read", IInv', Match',
           phase' = "send" \/ Answer'
    PROVE  LinkIInv'
<1> USE DEF LinkIInv
<1>1. LinkTypeOK' /\ Histories' /\ Turns' /\ Command'
  BY DEF LinkTypeOK, Histories, Turns, Command, Executed
<1>2. FlagsAgree'
  BY DEF FlagsAgree, Executed
<1>3. Answer'
  BY DEF Answer, IInv, TypeOK
<1> QED
  BY <1>1, <1>2, <1>3

\* A step that carries out the command under way.
LEMMA NowExecuted ==
    ASSUME AllFlagged, LinkIInv, obc.stage # "idle", ~Executed,
           UNCHANGED <<obc, obcNext, sent, confirmed>>,
           done' = Append(done, obc.op), obc.op \in ReqOps => obc.stage = "final",
           seqflags' = SetFlag(seqflags, obc.op, obc.id), turn' = "read", IInv', Match',
           phase' = "send" \/ Answer'
    PROVE  /\ LinkIInv'
           /\ Len(done) < Len(sent) /\ sent[Len(done) + 1] = obc.op
           /\ Executed'
<1> USE DEF LinkIInv
<1>1. /\ done \in Seq(Ops) /\ obc.op \in Ops /\ confirmed \in Nat
      /\ Len(done) = confirmed /\ Len(sent) = confirmed + 1
      /\ sent[Len(done) + 1] = obc.op
  BY DEF LinkTypeOK, Command, Histories, Executed
<1>2. done' \in Seq(Ops) /\ Len(done') = confirmed + 1
  BY <1>1
<1>3. Executed'
  BY <1>1, <1>2 DEF Executed
<1>4. LinkTypeOK' /\ Histories' /\ Turns' /\ Command'
  BY <1>1, <1>2 DEF LinkTypeOK, Histories, Turns, Command, Executed
<1>5. FlagsAgree'
  <2>1. /\ seqflags \in Seqflags /\ obc.op \in Flagged /\ obc.id \in {0, 1}
        /\ obc.id = obcNext[obc.op]
    BY <1>1 DEF IInv, TypeOK, AllFlagged, LinkTypeOK, Command
  <2>2. /\ FlagIsSet(seqflags', obc.op, obcNext[obc.op])
        /\ \A other : other # obc.op => NextFlag(seqflags', other) = NextFlag(seqflags, other)
    BY <2>1, SetFlagNext, SetFlagIsSet
  <2>3. \A op \in Ops : op # obc.op => NextFlag(seqflags, op) = obcNext[op]
    BY DEF FlagsAgree
  <2> QED
    BY <1>3, <2>2, <2>3 DEF FlagsAgree
<1>6. Answer'
  BY DEF Answer, IInv, TypeOK
<1> QED
  BY <1>1, <1>3, <1>4, <1>5, <1>6

\* The calls of a step that finish nothing.
LEMMA NothingDone ==
    ASSUME RecordDone, \A i \in DOMAIN calls' : calls'[i] \notin FinishingCalls(opcode)
    PROVE  done' = done
BY DEF RecordDone, CarriedOut, FinishingCalls

\* What is common to all frames.
LEMMA Written ==
    ASSUME LinkIInv, ObcWrite
    PROVE  /\ IInv'
           /\ phase = "recv" /\ phase' = "send" /\ turn' = "read"
           /\ UNCHANGED <<obc, obcNext, sent, confirmed>>
           /\ obc.stage # "idle"
           /\ RecordDone
<1>1. obc.stage # "idle" /\ LinkTypeOK /\ Command /\ IInv
  BY DEF ObcWrite, LinkIInv
<1>2. \E f \in Frames : msp_recv_callback(f)
  BY <1>1, ObcFrameIsFrame DEF ObcWrite
<1>3. IInv'
  BY <1>1, <1>2, RecvIInv
<1> QED
  BY <1>1, <1>2, <1>3 DEF ObcWrite, msp_recv_callback

\* It carries on: the transaction is where it was, but for what the names say.
LEMMA WriteRejected ==
    ASSUME LinkIInv, ObcWrite, NEW f \in Frames, RecvRejected(f)
    PROVE  LinkIInv' /\ done' = done
<1>1. UNCHANGED mspState /\ calls' = << >>
  BY DEF RecvRejected
<1>2. done' = done
  BY <1>1, Written, NothingDone
<1>3. Match'
  BY <1>1, <1>2, Written
  DEF LinkIInv, mspState, transaction, progress, Match, InIdle, InHeader, InDataSent, InDataRead,
      InFinal, InReset, Ready, Engaged, Repeated, Receiving, Announcing, Responding,
      ResponseRead, Executed, Chunk
<1> QED
  BY <1>1, <1>2, <1>3, Written, Unexecuted DEF mspState

LEMMA WriteReset ==
    ASSUME LinkIInv, ObcWrite, obc.stage = "reset", RecvNull
    PROVE  LinkIInv' /\ done' = done
<1>1. done' = done
  BY Written, NothingDone, OpeningFinishesNothing DEF RecvNull
<1>2. Match'
  BY Written
  DEF RecvNull, Match, InIdle, InHeader, InDataSent, InDataRead, InFinal, InReset, Ready
<1> QED
  BY <1>1, <1>2, Written, Unexecuted DEF RecvNull

\* Of a new transaction, whether it was carried out tells its flag.
LEMMA FlagTells ==
    ASSUME AllFlagged, LinkIInv, obc.stage # "idle"
    PROVE  FlagIsSet(seqflags, obc.op, obc.id) <=> Executed
<1>1. /\ seqflags \in Seqflags /\ obc.op \in Ops /\ obc.op \in Flagged
      /\ obc.id = obcNext[obc.op] /\ obc.id \in {0, 1}
  BY DEF LinkIInv, IInv, TypeOK, Command, AllFlagged, LinkTypeOK
<1>2. ASSUME Executed PROVE FlagIsSet(seqflags, obc.op, obc.id)
  BY <1>1, <1>2 DEF LinkIInv, FlagsAgree
<1>3. ASSUME ~Executed PROVE ~FlagIsSet(seqflags, obc.op, obc.id)
  <2>1. NextFlag(seqflags, obc.op) = obc.id
    BY <1>1, <1>3 DEF LinkIInv, FlagsAgree
  <2> QED
    BY <1>1, <2>1, NextFlagIsNew
<1> QED
  BY <1>2, <1>3

LEMMA WriteSend ==
    ASSUME AllFlagged, LinkIInv, ObcWrite, obc.stage = "header", obc.op \in SendOps,
           RecvSend(obc.op, obc.id, obc.len)
    PROVE  LinkIInv' /\ done' = done
<1>1. done' = done
  BY Written, NothingDone, OpeningFinishesNothing, StartFinishesNothing DEF RecvSend
<1>2. Executed' <=> Executed
  BY <1>1, Written DEF Executed
<1>3. type' = IF Executed THEN "OBC_SEND_RX_DUPLICATE" ELSE "OBC_SEND_RX"
  BY FlagTells DEF RecvSend, ReceivedType
<1>4. Match'
  BY <1>2, <1>3, Written
  DEF RecvSend, Match, InIdle, InHeader, InDataSent, InDataRead, InFinal, InReset,
      Engaged, Repeated, Receiving
<1> QED
  BY <1>1, <1>4, Written, Unexecuted DEF RecvSend

LEMMA WriteSystem ==
    ASSUME AllFlagged, LinkIInv, ObcWrite, obc.stage = "header", obc.op \in SysOps,
           RecvSystem(obc.op, obc.id)
    PROVE  LinkIInv' /\ done' = done
<1>1. done' = done
  BY Written, NothingDone, OpeningFinishesNothing DEF RecvSystem
<1>2. Executed' <=> Executed
  BY <1>1, Written DEF Executed
<1>3. type' = IF Executed THEN "OBC_SEND_RX_DUPLICATE" ELSE "OBC_SEND_RX"
  BY FlagTells DEF RecvSystem, ReceivedType
<1>4. obc.len = 0
  BY DEF LinkIInv, Command
<1>5. Match'
  BY <1>2, <1>3, <1>4, Written
  DEF RecvSystem, Match, InIdle, InHeader, InDataSent, InDataRead, InFinal, InReset,
      Engaged, Repeated, Receiving
<1> QED
  BY <1>1, <1>5, Written, Unexecuted DEF RecvSystem

LEMMA WriteRequest ==
    ASSUME AllFlagged, LinkIInv, ObcWrite, obc.stage = "header", obc.op \in ReqOps,
           RecvRequest(obc.op)
    PROVE  LinkIInv' /\ done' = done
<1>1. done' = done
  BY Written, NothingDone, StartFinishesNothing DEF RecvRequest
<1>2. ~Executed /\ ~Executed'
  BY <1>1, Written DEF LinkIInv, Command, Executed
<1>3. transaction_id' = obc.id
  <2>1. obc.op \in Ops /\ obc.id = obcNext[obc.op] /\ obc.id \in {0, 1}
    BY DEF LinkIInv, Command, LinkTypeOK
  <2>2. NextFlag(seqflags, obc.op) = obc.id
    BY <1>2, <2>1 DEF LinkIInv, FlagsAgree
  <2> QED
    BY <2>1, <2>2 DEF RecvRequest
<1>4. Match'
  BY <1>2, <1>3, Written
  DEF RecvRequest, Match, InIdle, InHeader, InDataSent, InDataRead, InFinal, InReset,
      Engaged, Announcing
<1> QED
  BY <1>1, <1>4, Written, Unexecuted DEF RecvRequest

LEMMA WriteData ==
    ASSUME LinkIInv, ObcWrite, obc.stage = "data", obc.op \in SendOps,
           RecvData(obc.fid, Chunk)
    PROVE  /\ LinkIInv' /\ done' = done
           /\ processed_length = obc.off
<1>1. done' = done
  <2>1. calls' = <<Call("exprecv_data", opcode, processed_length, Chunk)>>
    BY DEF RecvData
  <2>2. Call("exprecv_data", opcode, processed_length, Chunk) \notin FinishingCalls(opcode)
    BY DEF Call, FinishingCalls
  <2> QED
    BY <2>1, <2>2, Written, NothingDone
<1>2. Executed' <=> Executed
  BY <1>1, Written DEF Executed
<1>3. Receiving(obc.off, 1 - obc.fid)
  BY DEF RecvData, DataAccepted, LinkIInv, Match, InDataSent, Receiving, Ready
<1>4. processed_length = obc.off
  BY <1>3 DEF Receiving
<1>5. Match'
  BY <1>2, <1>3, Written
  DEF RecvData, transaction, Match, InIdle, InHeader, InDataSent, InDataRead, InFinal, InReset,
      Engaged, Receiving, Chunk
<1> QED
  BY <1>1, <1>4, <1>5, Written, Unexecuted DEF RecvData

LEMMA WriteFAck ==
    ASSUME LinkIInv, ObcWrite, obc.stage = "data", obc.op \in ReqOps, RecvFAck(obc.fid)
    PROVE  LinkIInv' /\ done' = done
<1>1. done' = done
  BY Written, NothingDone DEF RecvFAck
<1>2. Executed' <=> Executed
  BY <1>1, Written DEF Executed
<1>3. obc.fid \in {0, 1} /\ obc.off \in Nat /\ frame_id = obc.fid /\ type \in Requesting
  BY DEF LinkIInv, LinkTypeOK, RecvFAck, FAckAccepted
<1>4. \/ Announcing(obc.fid) /\ obc.off = 0 /\ total_length = obc.len
      \/ ResponseRead
  BY <1>3 DEF LinkIInv, Match, InDataRead, Responding
<1>5. Responding(obc.off, 1 - obc.fid)'
  BY <1>2, <1>3, <1>4, Written
  DEF RecvFAck, Announcing, ResponseRead, Responding, Engaged
<1>6. Match'
  BY <1>5, Written DEF Match, InIdle, InHeader, InDataSent, InDataRead, InFinal, InReset
<1> QED
  BY <1>1, <1>6, Written, Unexecuted DEF RecvFAck

LEMMA WriteTAck ==
    ASSUME AllFlagged, LinkIInv, ObcWrite, obc.stage = "final", RecvTAck(obc.id)
    PROVE  /\ LinkIInv' /\ obc.off = total_length
           /\ Len(done) < Len(sent) /\ done' = Append(done, sent[Len(done) + 1])
<1>1. /\ type \in Requesting /\ opcode = obc.op /\ ~Executed /\ total_length = obc.len
  BY DEF RecvTAck, TAckAccepted, LinkIInv, Match, InFinal, Announcing, ResponseRead, Responding,
         Engaged, Ready
<1>2. obc.off = total_length /\ obc.op \in ReqOps
  BY <1>1 DEF LinkIInv, Command
<1>3. done' = Append(done, obc.op)
  <2>1. calls' = <<Call("expsend_complete", opcode, 0, 0)>>
    BY DEF RecvTAck
  <2>2. CarriedOut(calls')
    BY <2>1 DEF CarriedOut
  <2> QED
    BY <1>1, <2>2, Written DEF RecordDone
<1>4. Executed'
  BY <1>1, <1>3, Written DEF Executed, LinkIInv, LinkTypeOK, Histories, Command
<1>5. Match'
  BY <1>4, Written
  DEF RecvTAck, Match, InIdle, InHeader, InDataSent, InDataRead, InFinal, InReset, Ready
<1>6. seqflags' = SetFlag(seqflags, obc.op, obc.id)
  BY <1>1 DEF RecvTAck
<1> QED
  BY <1>1, <1>2, <1>3, <1>5, <1>6, Written, NowExecuted
-----------------------------------------------------------------------------
\* A call that hands over received bytes is for the bytes the OBC has sent; one
\* that ends a response is made when the OBC has all of it.
CallsFit ==
    \A i \in DOMAIN calls' :
        /\ calls'[i].fn = "exprecv_data" => calls'[i].off = obc.off /\ calls'[i].len = Chunk
        /\ calls'[i].fn = "expsend_complete" => obc.stage = "final" /\ obc.off = total_length

LEMMA OpeningIsQuiet ==
    /\ Quiet(<< >>) /\ Quiet(EnsureReadyCalls)
    /\ \A op, n : \A fn \in {"exprecv_start", "expsend_start"} :
            Quiet(Append(EnsureReadyCalls, Call(fn, op, 0, n)))
<1>1. EnsureReadyCalls = << >> \/ \E c : EnsureReadyCalls = <<c>>
  BY DEF EnsureReadyCalls
<1>2. Quiet(<< >>) /\ Quiet(EnsureReadyCalls)
  BY DEF Quiet, EnsureReadyCalls, Call
<1>3. ASSUME NEW op, NEW n, NEW fn \in {"exprecv_start", "expsend_start"}
      PROVE  Quiet(Append(EnsureReadyCalls, Call(fn, op, 0, n)))
  <2>1. Call(fn, op, 0, n).fn \notin {"exprecv_data", "expsend_complete"}
    BY DEF Call
  <2>2. CASE EnsureReadyCalls = << >>
    BY <2>1, <2>2 DEF Quiet
  <2>3. ASSUME NEW c, EnsureReadyCalls = <<c>>
        PROVE  Quiet(Append(EnsureReadyCalls, Call(fn, op, 0, n)))
    <3>1. c.fn \notin {"exprecv_data", "expsend_complete"}
      BY <1>2, <2>3 DEF Quiet
    <3> QED
      BY <2>1, <2>3, <3>1 DEF Quiet
  <2> QED
    BY <1>1, <2>2, <2>3
<1> QED
  BY <1>2, <1>3

\* Each frame the OBC writes keeps the invariant.
LEMMA ObcWrites ==
    ASSUME AllFlagged, LinkIInv, ObcWrite
    PROVE  /\ LinkIInv'
           /\ UNCHANGED <<sent, done, confirmed>> \/ Delivery!CarryOut
           /\ CallsFit
<1>1. UNCHANGED <<sent, confirmed>>
  BY Written
<1>2. ASSUME NEW f \in Frames, RecvRejected(f) PROVE LinkIInv' /\ done' = done /\ CallsFit
  BY <1>2, WriteRejected, OpeningIsQuiet DEF RecvRejected, CallsFit, Quiet
<1>3. CASE obc.stage = "reset" /\ RecvNull
  BY <1>1, <1>3, WriteReset, OpeningIsQuiet DEF RecvNull, CallsFit, Quiet
<1>4. CASE obc.stage = "header" /\ obc.op \in SendOps /\ RecvSend(obc.op, obc.id, obc.len)
  <2>1. Quiet(calls')
    BY <1>4, OpeningIsQuiet DEF RecvSend
  <2> QED
    BY <1>1, <1>4, <2>1, WriteSend DEF CallsFit, Quiet
<1>5. CASE obc.stage = "header" /\ obc.op \in SysOps /\ RecvSystem(obc.op, obc.id)
  BY <1>1, <1>5, WriteSystem, OpeningIsQuiet DEF RecvSystem, CallsFit, Quiet
<1>6. CASE obc.stage = "header" /\ obc.op \in ReqOps /\ RecvRequest(obc.op)
  <2>1. Quiet(calls')
    BY <1>6, OpeningIsQuiet DEF RecvRequest
  <2> QED
    BY <1>1, <1>6, <2>1, WriteRequest DEF CallsFit, Quiet
<1>7. CASE obc.stage = "data" /\ obc.op \in SendOps /\ RecvData(obc.fid, Chunk)
  <2>1. calls' = <<Call("exprecv_data", opcode, obc.off, Chunk)>>
    BY <1>7, WriteData DEF RecvData
  <2>2. CallsFit
    BY <2>1 DEF CallsFit, Call
  <2> QED
    BY <1>1, <1>7, <2>2, WriteData
<1>8. CASE obc.stage = "data" /\ obc.op \in ReqOps /\ RecvFAck(obc.fid)
  BY <1>1, <1>8, WriteFAck, OpeningIsQuiet DEF RecvFAck, CallsFit, Quiet
<1>9. CASE obc.stage = "final" /\ RecvTAck(obc.id)
  <2>1. calls' = <<Call("expsend_complete", opcode, 0, 0)>>
    BY <1>9 DEF RecvTAck
  <2>2. CallsFit
    BY <1>9, <2>1, WriteTAck DEF CallsFit, Call
  <2> QED
    BY <1>1, <1>9, <2>2, WriteTAck DEF Delivery!CarryOut
<1> QED
  BY <1>1, <1>2, <1>3, <1>4, <1>5, <1>6, <1>7, <1>8, <1>9, WriteMeans DEF LinkIInv
-----------------------------------------------------------------------------
\* What is common to all replies.
LEMMA Replied ==
    ASSUME LinkIInv, Reply
    PROVE  /\ IInv'
           /\ phase = "send" /\ phase' = "recv" /\ turn = "read" /\ turn' = "read"
           /\ UNCHANGED <<obc, obcNext, sent, confirmed>>
           /\ obc.stage # "idle"
           /\ RecordDone
<1>1. phase = "send" /\ phase' = "recv"
  BY DEF Reply, msp_send_callback
<1>2. turn = "read" /\ obc.stage # "idle"
  BY <1>1 DEF LinkIInv, Turns
<1>3. IInv'
  BY SendIInv DEF Reply, LinkIInv
<1> QED
  BY <1>1, <1>2, <1>3 DEF Reply

\* A header that goes out with the transaction as it is.
LEMMA ReplyHeader ==
    ASSUME LinkIInv, Reply, SendNull \/ SendResponse \/ SendFAck
    PROVE  LinkIInv' /\ done' = done
<1>1. UNCHANGED mspState /\ calls' = << >>
  BY DEF SendNull, SendResponse, SendFAck
<1>2. done' = done
  BY <1>1, Replied, NothingDone
<1>3. Executed' <=> Executed
  BY <1>2, Replied DEF Executed
<1>4. type # "OBC_SEND_RX_DUPLICATE"
      /\ (type = "OBC_SEND_RX" => processed_length < total_length)
  BY DEF SendNull, SendResponse, SendFAck
<1>5. Match'
  BY <1>1, <1>3, <1>4, Replied
  DEF LinkIInv, mspState, transaction, progress, Match, InIdle, InHeader, InDataSent, InDataRead,
      InFinal, InReset, Ready, Engaged, Repeated, Receiving, Announcing, Responding,
      ResponseRead, Chunk
<1>6. Answer'
  BY <1>1, Replied
  DEF SendNull, SendResponse, SendFAck, Answer, Quiet, Ready, EmptyHeader, Header, LinkIInv,
      IInv, TypeOK, mspState, transaction, progress
<1> QED
  BY <1>1, <1>2, <1>5, <1>6, Replied, Unexecuted DEF mspState

\* A data frame goes out.
LEMMA ReplyData ==
    ASSUME LinkIInv, Reply, SendData
    PROVE  LinkIInv' /\ done' = done
<1>1. processed_length < total_length
  BY DEF SendData, LinkIInv, IInv, NeverRunsDry
<1>2. /\ prev_data_length' = LesserOf(MTU, total_length - processed_length)
      /\ calls' = <<Call("expsend_data", opcode, processed_length, prev_data_length')>>
      /\ reply' = DataFrame(frame_id, processed_length, prev_data_length')
      /\ UNCHANGED <<type, transaction, frame_id, last_received_frame_id, processed_length, seqflags>>
  BY <1>1 DEF SendData, LinkIInv, IInv, TypeOK, transaction
<1>3. done' = done
  <2>1. Call("expsend_data", opcode, processed_length, prev_data_length') \notin FinishingCalls(opcode)
    BY DEF Call, FinishingCalls
  <2> QED
    BY <1>2, <2>1, Replied, NothingDone
<1>4. Executed' <=> Executed
  BY <1>3, Replied DEF Executed
<1>5. Match'
  BY <1>2, <1>4, Replied
  DEF LinkIInv, SendData, transaction, Match, InIdle, InHeader, InDataSent, InDataRead,
      InFinal, InReset, Ready, Engaged, Repeated, Receiving, Announcing, Responding,
      ResponseRead, Chunk
<1>6. Answer'
  <2>1. Quiet(calls')
    BY <1>2 DEF Quiet, Call
  <2> QED
    BY <1>2, <2>1, Replied DEF SendData, Answer, DataFrame
<1> QED
  BY <1>2, <1>3, <1>5, <1>6, Replied, Unexecuted

\* What the experiment is about to acknowledge is the OBC's command.
LEMMA InAcknowledgedStage ==
    ASSUME LinkIInv, Reply,
           \/ type = "OBC_SEND_RX_DUPLICATE"
           \/ type = "OBC_SEND_RX" /\ processed_length >= total_length
    PROVE  Repeated \/ \E off, fid : Receiving(off, fid)
<1>1. /\ obc.stage \in Stages /\ Match /\ Command
      /\ total_length \in Nat /\ processed_length \in Nat
  BY DEF LinkIInv, LinkTypeOK, IInv, TypeOK
<1>2. CASE obc.stage = "header"
  <2>1. Repeated \/ Receiving(0, obc.id) \/ type = "READY" \/ type = "OBC_REQ_RESPONSE"
    BY <1>1, <1>2 DEF Match, InHeader, Ready, Announcing, Engaged
  <2> QED
    BY <2>1
<1>3. CASE obc.stage = "data" /\ obc.op \in SendOps
  BY <1>1, <1>3 DEF Match, InDataSent, Ready
<1>4. CASE obc.stage = "data" /\ obc.op \in ReqOps
  BY <1>1, <1>4 DEF Match, InDataRead, ResponseRead, Responding, Announcing, Engaged
<1>5. CASE obc.stage = "final"
  BY <1>1, <1>5 DEF Match, InFinal, Ready, ResponseRead, Responding, Announcing, Engaged
<1>6. CASE obc.stage = "reset"
  BY <1>1, <1>6 DEF Match, InReset, Ready
<1>7. \/ obc.stage \in {"header", "final", "reset"}
      \/ obc.stage = "data" /\ (obc.op \in SendOps \/ obc.op \in ReqOps)
  BY <1>1, Replied DEF Stages, Command
<1> QED
  BY <1>2, <1>3, <1>4, <1>5, <1>6, <1>7

\* An acknowledgement is repeated.
LEMMA ReplyDuplicateAck ==
    ASSUME LinkIInv, Reply, SendDuplicateAck
    PROVE  LinkIInv' /\ done' = done
<1>1. done' = done
  BY Replied, NothingDone DEF SendDuplicateAck
<1>2. Executed' <=> Executed
  BY <1>1, Replied DEF Executed
<1>3. Executed
  BY InAcknowledgedStage DEF SendDuplicateAck, Repeated, Receiving, Engaged
<1>4. Match'
  BY <1>2, <1>3, Replied
  DEF SendDuplicateAck, LinkIInv, Match, InIdle, InHeader, InDataSent, InDataRead, InFinal, InReset,
      Ready, Engaged, Repeated, Receiving, Announcing, Responding, ResponseRead
<1>5. Answer'
  BY <1>2, <1>3, Replied DEF SendDuplicateAck, Answer, Quiet, Header
<1> QED
  BY <1>1, <1>4, <1>5, Replied, Unexecuted DEF SendDuplicateAck

\* The first acknowledgement carries the command out.
LEMMA ReplyTAck ==
    ASSUME AllFlagged, LinkIInv, Reply, SendTAck
    PROVE  /\ LinkIInv'
           /\ Len(done) < Len(sent) /\ done' = Append(done, sent[Len(done) + 1])
<1>1. \E off, fid : Receiving(off, fid)
  BY InAcknowledgedStage DEF SendTAck, Repeated, Engaged
<1>2. opcode = obc.op /\ transaction_id = obc.id /\ ~Executed
  BY <1>1 DEF Receiving, Engaged
<1>3. obc.op \notin ReqOps
  BY <1>2 DEF SendTAck, LinkIInv, IInv, OpcodeFitsType
<1>4. done' = Append(done, obc.op)
  <2>1. CarriedOut(calls')
    BY DEF SendTAck, CarriedOut
  <2> QED
    BY <1>2, <2>1, Replied DEF RecordDone
<1>5. Executed'
  BY <1>2, <1>4, Replied DEF Executed, LinkIInv, LinkTypeOK, Histories, Command
<1>6. Match'
  BY <1>3, <1>5, Replied
  DEF SendTAck, LinkIInv, LinkTypeOK, Stages, Command, Match, InIdle, InHeader, InDataSent, InDataRead, InFinal, InReset, Ready
<1>7. Answer'
  <2>1. Quiet(calls')
    BY DEF SendTAck, Quiet, Call
  <2> QED
    BY <1>5, <2>1, Replied DEF SendTAck, Answer, Header
<1>8. seqflags' = SetFlag(seqflags, obc.op, obc.id)
  BY <1>2 DEF SendTAck
<1> QED
  BY <1>2, <1>3, <1>4, <1>6, <1>7, <1>8, Replied, NowExecuted

\* Each reply keeps the invariant.
LEMMA Replies ==
    ASSUME AllFlagged, LinkIInv, Reply
    PROVE  /\ LinkIInv'
           /\ UNCHANGED <<sent, done, confirmed>> \/ Delivery!CarryOut
           /\ CallsFit
<1>1. LinkIInv' /\ (UNCHANGED <<sent, done, confirmed>> \/ Delivery!CarryOut)
  <2>1. UNCHANGED <<sent, confirmed>>
    BY Replied
  <2>2. CASE SendNull \/ SendResponse \/ SendFAck
    BY <2>1, <2>2, ReplyHeader
  <2>3. CASE SendData
    BY <2>1, <2>3, ReplyData
  <2>4. CASE SendDuplicateAck
    BY <2>1, <2>4, ReplyDuplicateAck
  <2>5. CASE SendTAck
    BY <2>1, <2>5, ReplyTAck DEF Delivery!CarryOut
  <2> QED
    BY <2>2, <2>3, <2>4, <2>5 DEF Reply, msp_send_callback
<1>2. CallsFit
  BY <1>1, Replied DEF LinkIInv, Answer, Quiet, CallsFit
<1> QED
  BY <1>1, <1>2
-----------------------------------------------------------------------------
\* The OBC gives a command.
LEMMA GiveCommandIInv ==
    ASSUME LinkIInv, GiveCommand
    PROVE  /\ LinkIInv'
           /\ \E op \in Ops : Delivery!Submit(op)
<1>1. PICK op \in Ops, len \in Lengths :
        /\ op \notin SendOps => len = 0
        /\ obc' = [NoCommand EXCEPT !.stage = "header", !.op = op, !.len = len,
                                    !.id = obcNext[op]]
        /\ sent' = Append(sent, op)
  BY DEF GiveCommand
<1>2. /\ turn = "write" /\ phase = "recv" /\ obc.stage = "idle"
      /\ UNCHANGED <<vars, obcNext, turn, noise, done, confirmed, restarts>>
  BY DEF GiveCommand
<1>3. /\ obc' = [stage |-> "header", op |-> op, id |-> obcNext[op], len |-> len,
                 off |-> 0, fid |-> 0]
      /\ len \in Nat /\ obcNext[op] \in {0, 1}
  BY <1>1 DEF NoCommand, LinkIInv, LinkTypeOK
<1>4. /\ sent \in Seq(Ops) /\ done \in Seq(Ops) /\ confirmed \in Nat
      /\ Len(sent) = confirmed /\ Len(done) = confirmed
  BY <1>2 DEF LinkIInv, LinkTypeOK, Histories
<1>5. sent' \in Seq(Ops) /\ Len(sent') = confirmed + 1 /\ sent'[confirmed + 1] = op
  BY <1>1, <1>4
<1>6. ~Executed /\ ~Executed'
  BY <1>2, <1>4 DEF Executed
<1>7. IInv'
  BY <1>2 DEF LinkIInv, IInv, TypeOK, OpcodeFitsType, LengthsAgree, NeverRunsDry, InProgressIsNew,
              DuplicateWasDone, AcknowledgedIsDone, vars, mspState, transaction, progress
<1>8. LinkTypeOK' /\ Histories' /\ Turns' /\ Command'
  <2>1. LinkTypeOK'
    BY <1>2, <1>3, <1>5 DEF LinkIInv, LinkTypeOK, Stages
  <2>2. Histories'
    BY <1>2, <1>3, <1>4, <1>5 DEF Histories
  <2>3. Turns'
    BY <1>2, <1>3 DEF Turns, vars
  <2>4. Command'
    BY <1>1, <1>2, <1>3, <1>6 DEF Command
  <2> QED
    BY <2>1, <2>2, <2>3, <2>4
<1>9. FlagsAgree'
  BY <1>2, <1>6 DEF LinkIInv, FlagsAgree, vars, mspState
<1>10. Match' /\ Answer'
  <2>1. Ready'
    BY <1>2 DEF LinkIInv, Match, InIdle, Ready, vars, mspState, transaction
  <2>2. Match'
    BY <1>3, <2>1 DEF Match, InIdle, InHeader, InDataSent, InDataRead, InFinal, InReset
  <2>3. Answer'
    BY <1>2 DEF LinkIInv, Answer, Ready, Quiet, vars, mspState, transaction, progress
  <2> QED
    BY <2>2, <2>3
<1>11. Delivery!Submit(op)
  BY <1>1, <1>2, <1>4 DEF Delivery!Submit
<1> QED
  BY <1>7, <1>8, <1>9, <1>10, <1>11 DEF LinkIInv

\* A move of the OBC within the current command: the experiment does nothing.
LEMMA ObcMoves ==
    ASSUME LinkIInv, phase = "recv", obc.stage # "idle",
           UNCHANGED <<vars, obcNext, sent, done, confirmed>>, turn' = "write",
           obc'.stage # "idle", obc'.op = obc.op,
           LinkTypeOK', Command', Match'
    PROVE  LinkIInv'
<1> USE DEF LinkIInv
<1>1. IInv'
  BY DEF IInv, TypeOK, OpcodeFitsType, LengthsAgree, NeverRunsDry, InProgressIsNew,
         DuplicateWasDone, AcknowledgedIsDone, vars, mspState, transaction, progress
<1>2. Histories' /\ Turns'
  BY DEF Histories, Turns, vars
<1>3. FlagsAgree'
  BY DEF FlagsAgree, Executed, vars, mspState
<1>4. Answer'
  BY DEF Answer, Ready, Quiet, vars, mspState, transaction, progress
<1> QED
  BY <1>1, <1>2, <1>3, <1>4

LEMMA StartOverIInv ==
    ASSUME LinkIInv, StartOver
    PROVE  LinkIInv' /\ UNCHANGED <<sent, done, confirmed>>
<1>1. /\ turn = "write" /\ phase = "recv" /\ obc.stage = "data"
      /\ UNCHANGED <<vars, obcNext, turn, sent, done, confirmed>>
      /\ obc' = [obc EXCEPT !.stage = "reset"]
  BY DEF StartOver, history
<1>2. /\ obc'.stage = "reset" /\ obc'.op = obc.op /\ obc'.id = obc.id /\ obc'.len = obc.len
  BY <1>1 DEF LinkIInv, LinkTypeOK
<1>3. LinkTypeOK'
  BY <1>1 DEF LinkIInv, LinkTypeOK, Stages
<1>4. Executed' <=> Executed
  BY <1>1 DEF Executed
<1>5. Command'
  BY <1>1, <1>2, <1>4 DEF LinkIInv, Command
<1>6. \/ Ready
      \/ /\ ~Executed /\ type # "OBC_SEND_RX_DUPLICATE"
         /\ type = "OBC_SEND_RX" => processed_length < total_length
  <2>1. CASE obc.op \in SendOps
    BY <1>1, <2>1 DEF LinkIInv, Match, InDataSent, Receiving, Engaged
  <2>2. CASE obc.op \in ReqOps
    BY <1>1, <2>2 DEF LinkIInv, Match, InDataRead, ResponseRead, Responding, Announcing, Engaged
  <2> QED
    BY <1>1, <2>1, <2>2 DEF LinkIInv, Command
<1>7. Match'
  BY <1>1, <1>2, <1>4, <1>6
  DEF Match, InIdle, InHeader, InDataSent, InDataRead, InFinal, InReset, Ready, vars, mspState,
      transaction, progress
<1> QED
  BY <1>1, <1>2, <1>3, <1>5, <1>7, ObcMoves
-----------------------------------------------------------------------------
\* A reply that is corrupted, or not expected, leaves everything where it is.
LEMMA ReadUnusable ==
    ASSUME LinkIInv, ObcRead, UNCHANGED <<obc, obcNext, confirmed>>
    PROVE  LinkIInv' /\ UNCHANGED <<sent, done, confirmed>>
<1>1. phase = "recv" /\ turn' = "write" /\ UNCHANGED <<vars, sent, done>>
  BY DEF ObcRead
<1>2. CASE obc.stage # "idle"
  <2>1. LinkTypeOK' /\ Command' /\ Match'
    BY <1>1
    DEF LinkIInv, LinkTypeOK, Command, Executed, Match, InIdle, InHeader, InDataSent, InDataRead,
        InFinal, InReset, Ready, Engaged, Repeated, Receiving, Announcing, Responding,
        ResponseRead, Chunk, vars, mspState, transaction, progress
  <2> QED
    BY <1>1, <1>2, <2>1, ObcMoves
<1>3. CASE obc.stage = "idle"
  BY <1>3 DEF LinkIInv, Turns, ObcRead
<1> QED
  BY <1>1, <1>2, <1>3

\* The command the OBC takes for confirmed was carried out.
LEMMA ConcludedIsExecuted ==
    ASSUME LinkIInv, ObcRead, Concluded
    PROVE  Executed /\ Ready
<1> USE DEF LinkIInv, Match
<1>1. turn = "read" /\ phase = "recv"
  BY DEF ObcRead
<1>2. CASE obc.stage = "final" /\ reply.op = "NULL"
  <2>1. Ready
    BY <1>1, <1>2 DEF Answer
  <2> QED
    BY <1>2, <2>1
    DEF InFinal, Ready, Announcing, ResponseRead, Responding, Engaged
<1>3. CASE obc.op \notin ReqOps /\ obc.stage # "reset" /\ reply.op = "T_ACK"
  <2>1. Executed
    BY <1>1, <1>3 DEF Answer
  <2>2. obc.stage = "header" \/ obc.stage = "data"
    BY <1>1, <1>3 DEF LinkTypeOK, Stages, Turns, Command
  <2>3. CASE obc.stage = "header"
    BY <1>1, <1>3, <2>1, <2>3 DEF InHeader, Repeated, Receiving
  <2>4. CASE obc.stage = "data"
    BY <1>3, <2>1, <2>4 DEF InDataSent, Receiving, Command
  <2> QED
    BY <2>1, <2>2, <2>3, <2>4
<1> QED
  BY <1>2, <1>3 DEF Concluded

LEMMA ConcludeIInv ==
    ASSUME AllFlagged, LinkIInv, ObcRead, Conclude
    PROVE  LinkIInv' /\ Delivery!Confirm
<1>1. /\ turn = "read" /\ phase = "recv" /\ turn' = "write"
      /\ UNCHANGED <<vars, sent, done>>
      /\ obc' = NoCommand
      /\ obcNext' = [obcNext EXCEPT ![obc.op] = 1 - obc.id]
      /\ confirmed' = confirmed + 1
  BY DEF ObcRead, Conclude
<1>2. Executed /\ Ready
  BY ConcludedIsExecuted DEF Conclude
<1>3. obc.stage # "idle"
  BY <1>1 DEF LinkIInv, Turns
<1>4. /\ obc.op \in Ops /\ obc.op \in Flagged /\ obc.id = obcNext[obc.op]
      /\ obc.id \in {0, 1} /\ seqflags \in Seqflags
  BY <1>3 DEF LinkIInv, Command, LinkTypeOK, AllFlagged, IInv, TypeOK
<1>5. /\ sent \in Seq(Ops) /\ done \in Seq(Ops) /\ confirmed \in Nat
      /\ Len(sent) = confirmed + 1 /\ Len(done) = confirmed + 1
  BY <1>2, <1>3 DEF LinkIInv, LinkTypeOK, Histories, Executed
<1>6. ~Executed'
  BY <1>1, <1>5 DEF Executed
<1>7. IInv'
  BY <1>1 DEF LinkIInv, IInv, TypeOK, OpcodeFitsType, LengthsAgree, NeverRunsDry, InProgressIsNew,
              DuplicateWasDone, AcknowledgedIsDone, vars, mspState, transaction, progress
<1>8. LinkTypeOK'
  BY <1>1, <1>4, <1>5 DEF LinkIInv, LinkTypeOK, NoCommand, Stages
<1>9. Histories' /\ Turns' /\ Command'
  <2>1. obc'.stage = "idle" /\ obc'.op = "NULL" /\ "NULL" \notin Ops
    BY <1>1 DEF NoCommand
  <2> QED
    BY <1>1, <1>5, <2>1 DEF Histories, Turns, Command, vars
<1>10. FlagsAgree'
  <2>1. NextFlag(seqflags, obc.op) = 1 - obc.id
    <3>1. FlagIsSet(seqflags, obc.op, obc.id)
      BY <1>3, <1>2, FlagTells
    <3> QED
      BY <1>4, <3>1, NextAfterSet
  <2>2. \A op \in Ops : op # obc.op => NextFlag(seqflags, op) = obcNext[op]
    BY DEF LinkIInv, FlagsAgree
  <2>3. \A op \in Ops : obcNext'[op] = IF op = obc.op THEN 1 - obc.id ELSE obcNext[op]
    BY <1>1 DEF LinkIInv, LinkTypeOK
  <2>4. seqflags' = seqflags
    BY <1>1 DEF vars, mspState
  <2> QED
    BY <1>6, <2>1, <2>2, <2>3, <2>4 DEF FlagsAgree
<1>11. Match' /\ Answer'
  <2>1. obc'.stage = "idle" /\ Ready'
    BY <1>1, <1>2 DEF NoCommand, Ready, vars, mspState, transaction
  <2>2. Match'
    BY <2>1 DEF Match, InIdle, InHeader, InDataSent, InDataRead, InFinal, InReset
  <2>3. Answer'
    BY <1>1 DEF LinkIInv, Answer, Ready, Quiet, vars, mspState, transaction, progress
  <2> QED
    BY <2>2, <2>3
<1>12. Delivery!Confirm
  BY <1>1, <1>5 DEF Delivery!Confirm
<1> QED
  BY <1>7, <1>8, <1>9, <1>10, <1>11, <1>12 DEF LinkIInv
-----------------------------------------------------------------------------
\* What each of the other replies tells of the experiment, and that the state
\* the OBC moves to fits it.
LEMMA HeaderAckedFits ==
    ASSUME LinkIInv, ObcRead, HeaderAcked, UNCHANGED <<obcNext, confirmed>>,
           obc' = [obc EXCEPT !.stage = "data", !.off = 0, !.fid = 1 - obc.id]
    PROVE  LinkIInv'
<1>1. phase = "recv" /\ turn' = "write" /\ UNCHANGED <<vars, sent, done>>
      /\ obc.stage = "header" /\ obc.op \in SendOps /\ obc.id \in {0, 1}
  BY DEF ObcRead, HeaderAcked, LinkIInv, LinkTypeOK
<1>2. type = "OBC_SEND_RX"
  BY <1>1 DEF LinkIInv, Answer, HeaderAcked
<1>3. Receiving(0, obc.id) /\ 0 < obc.len
  BY <1>1, <1>2 DEF LinkIInv, Match, InHeader, Ready, Repeated, Receiving
<1>5. obc' = [stage |-> "data", op |-> obc.op, id |-> obc.id, len |-> obc.len,
              off |-> 0, fid |-> 1 - obc.id]
  BY DEF LinkIInv, LinkTypeOK
<1>6. LinkTypeOK' /\ Command'
  <2>1. LinkTypeOK'
    BY <1>1, <1>5 DEF LinkIInv, LinkTypeOK, Stages
  <2>2. Command'
    BY <1>1, <1>3, <1>5 DEF LinkIInv, Command, Executed
  <2> QED
    BY <2>1, <2>2
<1>7. Receiving(0, obc.id)'
  BY <1>1, <1>3, <1>5 DEF Receiving, Engaged, Executed, vars, mspState, transaction, progress
<1>8. Match'
  BY <1>1, <1>5, <1>7
  DEF Match, InIdle, InHeader, InDataSent, InDataRead, InFinal, InReset, Receiving, Engaged
<1> QED
  BY <1>1, <1>5, <1>6, <1>8, ObcMoves

LEMMA DataAckedFits ==
    ASSUME LinkIInv, ObcRead, DataAcked, UNCHANGED <<obcNext, confirmed>>,
           obc' = [obc EXCEPT !.off = @ + Chunk, !.fid = 1 - @]
    PROVE  LinkIInv'
<1>1. phase = "recv" /\ turn' = "write" /\ UNCHANGED <<vars, sent, done>>
      /\ obc.stage = "data" /\ obc.op \in SendOps /\ obc.fid \in {0, 1}
  BY DEF ObcRead, DataAcked, LinkIInv, LinkTypeOK
<1>2. type = "OBC_SEND_RX" /\ last_received_frame_id = obc.fid
  BY <1>1 DEF LinkIInv, Answer, DataAcked
<1>3. Receiving(obc.off + Chunk, obc.fid) /\ obc.off + Chunk < obc.len
  BY <1>1, <1>2 DEF LinkIInv, Match, InDataSent, Ready, Receiving
<1>5. Chunk \in Nat
  BY <1>1, ChunkFits DEF LinkIInv, Command
<1>6. obc' = [stage |-> "data", op |-> obc.op, id |-> obc.id, len |-> obc.len,
              off |-> obc.off + Chunk, fid |-> 1 - obc.fid]
  BY <1>1 DEF LinkIInv, LinkTypeOK
<1>7. LinkTypeOK' /\ Command'
  <2>1. LinkTypeOK'
    BY <1>1, <1>5, <1>6 DEF LinkIInv, LinkTypeOK, Stages
  <2>2. Command'
    BY <1>1, <1>3, <1>6 DEF LinkIInv, Command, Executed
  <2> QED
    BY <2>1, <2>2
<1>8. Receiving(obc.off, 1 - obc.fid)'
  BY <1>1, <1>3, <1>6 DEF Receiving, Engaged, Executed, vars, mspState, transaction, progress
<1>9. Match'
  BY <1>1, <1>6, <1>8 DEF Match, InIdle, InHeader, InDataSent, InDataRead, InFinal, InReset
<1> QED
  BY <1>1, <1>6, <1>7, <1>9, ObcMoves

LEMMA AnnouncedFits ==
    ASSUME LinkIInv, ObcRead, Announced, UNCHANGED <<obcNext, confirmed>>,
           obc' = [obc EXCEPT !.stage = IF reply.len = 0 THEN "final" ELSE "data",
                              !.id = reply.id, !.len = reply.len,
                              !.off = 0, !.fid = reply.id]
    PROVE  LinkIInv'
<1>1. phase = "recv" /\ turn' = "write" /\ UNCHANGED <<vars, sent, done>>
      /\ obc.stage = "header" /\ obc.op \in ReqOps /\ obc.id \in {0, 1}
  BY DEF ObcRead, Announced, LinkIInv, LinkTypeOK
<1>2. /\ type = "OBC_REQ_RESPONSE"
      /\ reply.id = transaction_id % 2 /\ reply.len = total_length
  BY <1>1 DEF LinkIInv, Answer, Announced
<1>3. Announcing(obc.id)
  BY <1>1, <1>2 DEF LinkIInv, Match, InHeader, Ready
<1>4. reply.id = obc.id /\ reply.len = total_length /\ total_length \in Nat
  BY <1>1, <1>2, <1>3 DEF Announcing, Engaged, LinkIInv, IInv, TypeOK
<1>5. obc' = [stage |-> IF total_length = 0 THEN "final" ELSE "data", op |-> obc.op,
              id |-> obc.id, len |-> total_length, off |-> 0, fid |-> obc.id]
  BY <1>4 DEF LinkIInv, LinkTypeOK
<1>6. LinkIInv /\ UNCHANGED <<vars, obcNext, sent, done, confirmed>> /\ turn' = "write"
  BY <1>1
<1>7. LinkTypeOK'
  BY ONLY <1>1, <1>4, <1>5, <1>6 DEF LinkIInv, LinkTypeOK, Stages
<1>8. Command'
  BY <1>1, <1>3, <1>4, <1>5 DEF LinkIInv, Command, Executed, Announcing
<1>9. Announcing(obc.fid)' /\ total_length' = total_length
  BY ONLY <1>3, <1>5, <1>6
  DEF Announcing, Engaged, Executed, vars, mspState, transaction, progress
<1>10. Match'
  BY ONLY <1>1, <1>5, <1>9, OpsAssumption
  DEF Match, InIdle, InHeader, InDataSent, InDataRead, InFinal, InReset
<1> QED
  BY <1>1, <1>5, <1>6, <1>7, <1>8, <1>10, ObcMoves

\* A data frame the OBC has not seen holds the bytes it waits for.
LEMMA NewDataIsNext ==
    ASSUME LinkIInv, phase = "recv", NewData
    PROVE  /\ Responding(obc.off, 1 - obc.fid)
           /\ reply.off = obc.off /\ reply.id = 1 - obc.fid
           /\ reply.len = prev_data_length
<1>1. /\ type = "OBC_REQ_TX" /\ reply.id = frame_id /\ reply.id # obc.fid
      /\ reply.off = processed_length /\ reply.len = prev_data_length
  BY DEF LinkIInv, Answer, NewData
<1>2. Responding(obc.off, 1 - obc.fid)
  BY <1>1 DEF LinkIInv, Match, InDataRead, NewData, Announcing, Engaged, ResponseRead, Responding
<1> QED
  BY <1>1, <1>2 DEF Responding

LEMMA NewDataFits ==
    ASSUME LinkIInv, ObcRead, NewData, UNCHANGED <<obcNext, confirmed>>,
           obc' = [obc EXCEPT !.stage = IF obc.off + reply.len = obc.len THEN "final" ELSE "data",
                              !.off = @ + reply.len, !.fid = reply.id]
    PROVE  LinkIInv'
<1>1. phase = "recv" /\ turn' = "write" /\ UNCHANGED <<vars, sent, done>>
      /\ obc.stage = "data" /\ obc.op \in ReqOps /\ obc.fid \in {0, 1}
  BY DEF ObcRead, NewData, LinkIInv, LinkTypeOK
<1>2. /\ Responding(obc.off, 1 - obc.fid)
      /\ reply.off = obc.off /\ reply.id = 1 - obc.fid /\ reply.len = prev_data_length
  BY <1>1, NewDataIsNext
<1>3. /\ prev_data_length = LesserOf(MTU, total_length - processed_length)
      /\ processed_length < total_length
      /\ prev_data_length \in Nat /\ total_length \in Nat /\ processed_length \in Nat
  BY <1>1, <1>2 DEF LinkIInv, IInv, TypeOK, LengthsAgree, NeverRunsDry, Responding, Engaged
<1>4. /\ prev_data_length > 0
      /\ obc.off + prev_data_length <= obc.len
      /\ obc.off \in Nat /\ obc.len \in Nat
  BY <1>2, <1>3 DEF Responding, LesserOf
<1>6. obc' = [stage |-> IF obc.off + prev_data_length = obc.len THEN "final" ELSE "data",
              op |-> obc.op, id |-> obc.id, len |-> obc.len,
              off |-> obc.off + prev_data_length, fid |-> 1 - obc.fid]
  BY <1>2 DEF LinkIInv, LinkTypeOK
<1>7. LinkTypeOK' /\ Command'
  <2>1. LinkTypeOK'
    BY <1>1, <1>3, <1>4, <1>6 DEF LinkIInv, LinkTypeOK, Stages
  <2>2. Command'
    BY <1>1, <1>2, <1>3, <1>4, <1>6 DEF LinkIInv, Command, Executed, Responding
  <2> QED
    BY <2>1, <2>2
<1>8. ResponseRead'
  BY <1>1, <1>2, <1>3, <1>6
  DEF ResponseRead, Responding, Engaged, Executed, vars, mspState, transaction, progress
<1>9. Match'
  BY <1>1, <1>6, <1>8 DEF Match, InIdle, InHeader, InDataSent, InDataRead, InFinal, InReset
<1> QED
  BY <1>1, <1>6, <1>7, <1>9, ObcMoves

LEMMA FellOutFits ==
    ASSUME LinkIInv, ObcRead, FellOut, UNCHANGED <<obcNext, confirmed>>,
           obc' = [obc EXCEPT !.stage = "header"]
    PROVE  LinkIInv'
<1>1. phase = "recv" /\ turn' = "write" /\ UNCHANGED <<vars, sent, done>>
      /\ obc.stage \in {"reset", "data"}
  BY DEF ObcRead, FellOut
<1>2. Ready
  BY <1>1 DEF LinkIInv, Answer, FellOut
<1>3. /\ obc'.stage = "header" /\ obc'.op = obc.op /\ obc'.id = obc.id /\ obc'.len = obc.len
  BY DEF LinkIInv, LinkTypeOK
<1>4. LinkTypeOK' /\ Command'
  BY <1>1, <1>3 DEF LinkIInv, LinkTypeOK, Stages, Command, Executed
<1>5. Match'
  BY <1>1, <1>2, <1>3
  DEF Match, InIdle, InHeader, InDataSent, InDataRead, InFinal, InReset, Ready, vars, mspState,
      transaction
<1> QED
  BY <1>1, <1>3, <1>4, <1>5, ObcMoves

\* Each reply the OBC reads keeps the invariant.
LEMMA ObcReads ==
    ASSUME AllFlagged, LinkIInv, ObcRead
    PROVE  /\ LinkIInv'
           /\ UNCHANGED <<sent, done, confirmed>> \/ Delivery!Confirm
<1>1. UNCHANGED <<vars, sent, done>>
  BY DEF ObcRead
<1>2. CASE Conclude
  BY <1>2, ConcludeIInv
<1>3. CASE Proceed /\ UNCHANGED <<obcNext, confirmed>>
  BY <1>1, <1>3, HeaderAckedFits, DataAckedFits, AnnouncedFits, NewDataFits, FellOutFits
  DEF Proceed
<1>4. CASE UNCHANGED <<obc, obcNext, confirmed>>
  BY <1>4, ReadUnusable
<1> QED
  BY <1>2, <1>3, <1>4 DEF ObcRead
-----------------------------------------------------------------------------
\* Every step keeps the invariant and is a step of the delivery, or none of it;
\* and what it calls fits what the OBC has sent and received.
LEMMA LinkStep ==
    ASSUME AllFlagged, LinkIInv, [LinkNext]_linkVars
    PROVE  /\ LinkIInv'
           /\ [Delivery!Next]_<<sent, done, confirmed>>
           /\ [CallsFit]_linkVars
<1> USE DEF Delivery!Next
<1>1. CASE GiveCommand
  <2>1. phase = "recv" /\ UNCHANGED calls
    BY <1>1 DEF GiveCommand, vars
  <2> QED
    BY <1>1, <2>1, GiveCommandIInv DEF LinkIInv, Answer, Quiet, CallsFit
<1>2. CASE StartOver
  <2>1. phase = "recv" /\ UNCHANGED calls
    BY <1>2 DEF StartOver, vars
  <2> QED
    BY <1>2, <2>1, StartOverIInv DEF LinkIInv, Answer, Quiet, CallsFit
<1>3. CASE ObcWrite
  BY <1>3, ObcWrites
<1>4. CASE Reply
  BY <1>4, Replies
<1>5. CASE ObcRead
  <2>1. phase = "recv" /\ UNCHANGED calls
    BY <1>5 DEF ObcRead, vars
  <2> QED
    BY <1>5, <2>1, ObcReads DEF LinkIInv, Answer, Quiet, CallsFit
<1>6. CASE UNCHANGED linkVars
  <2>1. UNCHANGED <<vars, obc, obcNext, turn, sent, done, confirmed>>
    BY <1>6 DEF linkVars
  <2>2. LinkIInv'
    BY <2>1
    DEF LinkIInv, IInv, TypeOK, OpcodeFitsType, LengthsAgree, NeverRunsDry, InProgressIsNew,
        DuplicateWasDone, AcknowledgedIsDone, LinkTypeOK, Histories, Turns, Command, FlagsAgree,
        Executed, Match, InIdle, InHeader, InDataSent, InDataRead, InFinal, InReset, Ready,
        Engaged, Repeated, Receiving, Announcing, Responding, ResponseRead, Chunk, Answer, Quiet,
        vars, mspState, transaction, progress
  <2> QED
    BY <1>6, <2>1, <2>2
<1> QED
  BY <1>1, <1>2, <1>3, <1>4, <1>5, <1>6 DEF LinkNext

\* The OBC and the experiment fit together after any exchange, corrupted or not.
THEOREM LinkInvariance ==
    ASSUME AllFlagged
    PROVE  LinkSpec => []LinkIInv
<1>1. LinkInit => LinkIInv
  BY InitLink
<1>2. LinkIInv /\ [LinkNext]_linkVars => LinkIInv'
  BY LinkStep
<1> QED
  BY <1>1, <1>2, PTL DEF LinkSpec

\* Whatever frames are corrupted and whenever the OBC starts over, every command
\* it gives is carried out once, in order, and confirmed only after that.
THEOREM DeliveredExactlyOnce ==
    ASSUME AllFlagged
    PROVE  LinkSpec => ExactlyOnceDelivery
<1>1. LinkInit => Delivery!Init
  BY DEF LinkInit, Delivery!Init
<1>2. LinkIInv /\ [LinkNext]_linkVars => [Delivery!Next]_<<sent, done, confirmed>>
  BY LinkStep
<1> QED
  BY <1>1, <1>2, LinkInvariance, PTL DEF LinkSpec, ExactlyOnceDelivery, Delivery!Spec

\* A repeated, lost or late data frame never shifts the data, either way.
THEOREM BytesAreInPlace ==
    ASSUME AllFlagged
    PROVE  LinkSpec => BytesInPlace
<1>1. LinkIInv /\ [LinkNext]_linkVars
        => [/\ \A i \in DOMAIN calls' : calls'[i].fn = "exprecv_data"
                 => calls'[i].off = obc.off /\ calls'[i].len = Chunk
            /\ NewData /\ turn = "read" /\ phase = "recv" /\ noise # "read"
                 => reply.off = obc.off
           ]_linkVars
  BY LinkStep, NewDataIsNext DEF CallsFit
<1> QED
  BY <1>1, LinkInvariance, PTL DEF LinkSpec, BytesInPlace

\* The application is told that a response was sent, on which it clears the
\* payload, only when the OBC has read all of it.
THEOREM CompleteOnlyAfterDelivery ==
    ASSUME AllFlagged
    PROVE  LinkSpec => CompleteAfterDelivery
<1>1. LinkIInv /\ [LinkNext]_linkVars
        => [\A i \in DOMAIN calls' : calls'[i].fn = "expsend_complete"
               => obc.stage = "final" /\ obc.off = total_length]_linkVars
  BY LinkStep DEF CallsFit
<1> QED
  BY <1>1, LinkInvariance, PTL DEF LinkSpec, CompleteAfterDelivery
=============================================================================
