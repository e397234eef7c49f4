---------------------------- MODULE Hvps_proofs ----------------------------
(***************************************************************************)
(* Proofs about the bias-voltage driver, for a FIFO of any size, any       *)
(* number of commands, a reply that is split anywhere, that comes before   *)
(* the driver waits for it or without its end, and any length of           *)
(* hvps_reply that holds the longest reply, which has three symbols.       *)
(*                                                                         *)
(* The invariant follows a command through the four stages it goes         *)
(* through while send_cmd_and_check_reply runs.                            *)
(***************************************************************************)
EXTENDS Hvps, SequenceTheorems, TLAPS

USE FifoAssumption

LongEnough == HVPS_REPLY_SIZE \in Nat /\ HVPS_REPLY_SIZE >= 3

Ops == {"HST", "HBV", "HCM1", "HON", "HOF", "HRE", "HGV", "HGC", "HGT", "HGS", "HRT"}
Commands == [op : Ops, vb : Voltages]
Words == {n \in Nat : n < 65536}
Symbols == [letters : Ops \cup {"hxx", "garbage", "CR", "none"}] \cup [value : BOOLEAN]

MainTypeOK ==
    /\ job \in Jobs \cup {NoJob} /\ step \in Nat /\ clean \in BOOLEAN
    /\ at \in {"idle", "tx", "count", "clear", "wait"} /\ ret \in Int
    /\ hvps_cmd \in Commands \cup {NoCmd}

RxTypeOK ==
    /\ hvps_reply \in [1..HVPS_REPLY_SIZE -> Symbols]
    /\ hvps_reply_ready \in BOOLEAN /\ rx_size \in Nat
    /\ cmds_sent \in Words /\ cmds_acked \in Nat /\ cmds_failed \in Nat /\ garbled \in Nat

LineTypeOK ==
    /\ tx_size \in Nat /\ tx_fifo \in Nat /\ rx_fifo \in Seq(Symbols)
    /\ inbox \in Commands \cup {NoCmd} /\ received \in Nat /\ line \in Seq(Symbols)
    /\ on \in BOOLEAN

HvpsTypeOK == MainTypeOK /\ RxTypeOK /\ LineTypeOK
-----------------------------------------------------------------------------
(* A reply on its way: its length, and its symbols, be they read, received or
   still on the line. *)

ReplyLength == rx_size + Len(rx_fifo) + Len(line)

Symbol(k) ==
    IF k <= rx_size THEN hvps_reply[k]
    ELSE IF k <= rx_size + Len(rx_fifo) THEN rx_fifo[k - rx_size]
    ELSE line[k - rx_size - Len(rx_fifo)]

\* The beginning of a reply tells the truth about the module.
Truthful(first, second) ==
    /\ first \in {Letters(hvps_cmd.op), Letters("hxx"), Letters("garbage")}
    /\ first = Letters(hvps_cmd.op) =>
         /\ lastDone = hvps_cmd.op
         /\ hvps_cmd.op = "HON" => on = TRUE
         /\ hvps_cmd.op = "HOF" => on = FALSE
         /\ hvps_cmd.op \in Queries => second = Value(on)

\* The stages of a command.
Silence == tx_fifo = 0 /\ received = 0 /\ inbox = NoCmd

NoReply == rx_size = 0 /\ rx_fifo = << >> /\ line = << >>

Prepared ==
    /\ at = "tx" /\ tx_size = CmdLength(hvps_cmd.op)
    /\ Silence /\ NoReply /\ last_cmd_err = lastFailed

Sending ==
    /\ inbox = hvps_cmd
    /\ tx_size + tx_fifo + received = CmdLength(hvps_cmd.op)
    /\ tx_size > 0 <=> at = "tx"
    /\ NoReply /\ last_cmd_err = lastFailed
    /\ at = "wait" => ~hvps_reply_ready

Replying ==
    /\ at # "tx" /\ tx_size = 0 /\ Silence
    /\ ReplyLength \in 1..3
    /\ \A k \in 1..ReplyLength : Symbol(k) = CR => k = ReplyLength
    /\ Truthful(Symbol(1), Symbol(2))
    /\ hvps_cmd.op \in Queries /\ Symbol(1) = Letters(hvps_cmd.op) => ReplyLength >= 2
    /\ lastFailed = IF Symbol(1) = Letters("hxx") THEN hvps_cmd.op ELSE last_cmd_err
    /\ at = "wait" => ~hvps_reply_ready

Answered ==
    /\ at # "tx" /\ tx_size = 0
    /\ Silence /\ NoReply /\ last_cmd_err = lastFailed
    /\ Truthful(hvps_reply[1], hvps_reply[2])

Stages ==
    IF at = "idle"
    THEN tx_size = 0 /\ Silence /\ NoReply /\ last_cmd_err = lastFailed
    ELSE /\ job # NoJob
         /\ hvps_cmd \in Commands /\ last_cmd = hvps_cmd.op
         /\ Prepared \/ Sending \/ Replying \/ Answered

\* A command whose reply has not been counted.
Awaited == tx_size > 0 \/ inbox # NoCmd \/ ReplyLength > 0

Counted ==
    UInt16(cmds_sent + IF at \in {"tx", "count"} THEN 1 ELSE 0)
      = UInt16(cmds_acked + cmds_failed + garbled + IF Awaited THEN 1 ELSE 0)

HvpsIInv == HvpsTypeOK /\ Stages /\ Counted /\ ResultIsGenuine
-----------------------------------------------------------------------------
USE DEF HvpsIInv

LEMMA UInt16Facts ==
    /\ \A n \in Nat : UInt16(n) \in Words
    /\ \A n \in Words : UInt16(n) = n
    /\ \A n, k \in Nat : UInt16(UInt16(n) + k) = UInt16(n + k)
<1>1. ASSUME NEW n \in Nat PROVE UInt16(n) \in Words
  BY DEF UInt16, Words
<1>2. ASSUME NEW n \in Words PROVE UInt16(n) = n
  BY DEF UInt16, Words
<1>3. ASSUME NEW n \in Nat, NEW k \in Nat PROVE UInt16(UInt16(n) + k) = UInt16(n + k)
  BY DEF UInt16
<1>. QED
  BY <1>1, <1>2, <1>3

(* Letters, values and the end of a reply cannot be taken for one another. *)
LEMMA SymbolFacts ==
    /\ \A a, b : Letters(a) = Letters(b) => a = b
    /\ \A a, b : Value(b) # Letters(a)
    /\ \A a, b : Value(a) = Value(b) => a = b
    /\ \A a \in Ops \cup {"hxx", "garbage", "CR", "none"} : Letters(a) \in Symbols
    /\ \A b \in BOOLEAN : Value(b) \in Symbols
<1>1. ASSUME NEW a, NEW b, Letters(a) = Letters(b) PROVE a = b
  <2>1. Letters(a).letters = a /\ Letters(b).letters = b
    BY DEF Letters
  <2>. QED
    BY <1>1, <2>1
<1>2. ASSUME NEW a, NEW b, Value(a) = Value(b) PROVE a = b
  <2>1. Value(a).value = a /\ Value(b).value = b
    BY DEF Value
  <2>. QED
    BY <1>2, <2>1
<1>3. ASSUME NEW a, NEW b PROVE Value(b) # Letters(a)
  <2>1. DOMAIN Value(b) = {"value"} /\ DOMAIN Letters(a) = {"letters"}
    BY DEF Value, Letters
  <2>. QED
    BY <2>1
<1>. QED
  BY <1>1, <1>2, <1>3 DEF Letters, Value, Symbols

LEMMA CommandFacts ==
    /\ \A c \in Commands : /\ c # NoCmd /\ c.op \in Ops
                           /\ CmdLength(c.op) \in 1..4
                           /\ c.op \notin {"hxx", "garbage", "CR", "none"}
    /\ \A op \in Ops, vb \in Voltages : Cmd(op, vb) \in Commands /\ Cmd(op, vb).op = op
<1>1. ASSUME NEW c \in Commands
      PROVE  /\ c # NoCmd /\ c.op \in Ops
             /\ c.op \notin {"hxx", "garbage", "CR", "none"}
  <2>1. c.op \in Ops
    BY DEF Commands
  <2>2. c.op \notin {"hxx", "garbage", "CR", "none"}
    BY <2>1 DEF Ops
  <2>3. NoCmd.op = "none"
    BY DEF NoCmd, Cmd, None
  <2>. QED
    BY <2>1, <2>2, <2>3
<1>2. ASSUME NEW op \in Ops PROVE CmdLength(op) \in 1..4
  BY DEF CmdLength
<1>3. ASSUME NEW op \in Ops, NEW vb \in Voltages
      PROVE  Cmd(op, vb) \in Commands /\ Cmd(op, vb).op = op
  BY DEF Commands, Cmd
<1>. QED
  BY <1>1, <1>2, <1>3

(* What a job sends is a command. *)
LEMMA DueFacts ==
    ASSUME job \in Jobs, NEW n \in Nat, NEW stray
    PROVE  Due(n, stray) \in Ops \cup {None}
<1>1. \A k \in DOMAIN HkCmds : HkCmds[k] \in Ops
  BY DEF HkCmds, Ops
<1>2. SwitchTo(IsOn(stray)) \in Ops \cup {None}
  BY DEF SwitchTo, Ops
<1>. QED
  BY <1>1, <1>2 DEF Due, SwitchingDue, Ops

(* Nothing is on its way when the driver starts. *)
LEMMA HvpsInitIInv == ASSUME LongEnough, HvpsInit PROVE HvpsIInv
<1> USE DEF HvpsInit, MSS_UART_init, LongEnough
<1>1. HvpsTypeOK
  <2>1. hvps_reply \in [1..HVPS_REPLY_SIZE -> Symbols]
    <3>1. Letters(None) \in Symbols
      BY SymbolFacts DEF None
    <3>. QED
      BY <3>1
  <2>2. << >> \in Seq(Symbols)
    BY EmptySeq
  <2>3. 0 \in Words
    BY DEF Words
  <2>4. RxTypeOK
    BY <2>1, <2>3 DEF RxTypeOK
  <2>5. MainTypeOK
    BY DEF MainTypeOK
  <2>6. LineTypeOK
    BY <2>2 DEF LineTypeOK
  <2>. QED
    BY <2>4, <2>5, <2>6 DEF HvpsTypeOK
<1>2. Stages
  BY DEF Stages, Silence, NoReply
<1>3. Counted
  BY EmptySeq DEF Counted, Awaited, ReplyLength
<1>4. ResultIsGenuine
  BY DEF ResultIsGenuine
<1>. QED
  BY <1>1, <1>2, <1>3, <1>4

LEMMA NextCount ==
    ASSUME NEW a \in Nat, NEW b \in Nat, UInt16(a) = UInt16(b)
    PROVE  UInt16(a + 1) = UInt16(b + 1)
BY DEF UInt16

(* The command goes into the FIFO. *)
LEMMA TransmitIInv == ASSUME HvpsIInv, Transmit PROVE HvpsIInv'
<1> USE DEF Transmit, MSS_UART_polled_tx
<1>1. UNCHANGED <<client, ret, command, rxState, hvps_reply_ready, cmds_sent,
                  rx_fifo, received, line, on, lastDone, lastFailed>>
  OBVIOUS
<1> USE <1>1 DEF client, command, rxState
<1>2. /\ tx_size \in Nat /\ tx_size > 0 /\ tx_fifo = 0 /\ tx_fifo' \in Nat \ {0}
      /\ tx_size' \in Nat /\ tx_size' + tx_fifo' = tx_size /\ inbox' = hvps_cmd
  BY DEF HvpsTypeOK, LineTypeOK
<1>3. at = "tx" /\ at' = (IF tx_size' = 0 THEN "count" ELSE "tx")
  OBVIOUS
<1>4. hvps_cmd \in Commands /\ last_cmd = hvps_cmd.op /\ job # NoJob
  BY <1>3 DEF Stages
<1>5. Sending'
  <2>1. /\ tx_size + received = CmdLength(hvps_cmd.op) /\ received \in Nat
        /\ NoReply /\ last_cmd_err = lastFailed
    <3>1. CASE Prepared
      BY <1>2, <3>1 DEF Prepared, Silence
    <3>2. CASE Sending
      BY <1>2, <3>2 DEF Sending, HvpsTypeOK, LineTypeOK
    <3>. QED
      BY <1>3, <3>1, <3>2 DEF Stages, Replying, Answered
  <2>2. tx_size' + tx_fifo' + received = CmdLength(hvps_cmd.op)
    BY <1>2, <2>1
  <2>3. (tx_size' > 0 <=> at' = "tx") /\ at' # "wait"
    BY <1>2, <1>3
  <2>. QED
    BY <1>2, <2>1, <2>2, <2>3 DEF Sending, NoReply
<1>6. Stages'
  BY <1>3, <1>4, <1>5 DEF Stages
<1>7. HvpsTypeOK'
  BY <1>2, <1>3, <1>4 DEF HvpsTypeOK, MainTypeOK, RxTypeOK, LineTypeOK
<1>8. Awaited /\ Awaited'
  BY <1>2, <1>4, CommandFacts DEF Awaited
<1>9. Counted'
  BY <1>3, <1>8 DEF Counted
<1>. QED
  BY <1>3, <1>6, <1>7, <1>9 DEF ResultIsGenuine

(* The command is counted. *)
LEMMA CountSentIInv == ASSUME HvpsIInv, CountSent PROVE HvpsIInv'
<1> USE DEF CountSent
<1>1. UNCHANGED <<client, ret, command, rxState, hvps_reply_ready, module, uartVars>>
  OBVIOUS
<1> USE <1>1 DEF client, command, rxState, module, uartVars
<1>2. at = "count" /\ at' = "clear" /\ cmds_sent' = UInt16(cmds_sent + 1)
  OBVIOUS
<1>3. cmds_sent \in Nat /\ cmds_sent' \in Words
  BY <1>2, UInt16Facts DEF HvpsTypeOK, RxTypeOK, Words
<1>4. HvpsTypeOK'
  BY <1>2, <1>3 DEF HvpsTypeOK, MainTypeOK, RxTypeOK, LineTypeOK
<1>5. Stages'
  BY <1>2 DEF Stages, Prepared, Sending, Replying, Answered, Silence, NoReply,
              ReplyLength, Symbol, Truthful
<1>6. Counted'
  <2>1. UInt16(cmds_sent') = UInt16(cmds_sent + 1)
    BY <1>2, <1>3, UInt16Facts
  <2>2. cmds_sent' + 0 = cmds_sent'
    BY <1>3 DEF Words
  <2>3. Awaited' <=> Awaited
    BY DEF Awaited, ReplyLength
  <2>. QED
    BY <1>2, <2>1, <2>2, <2>3 DEF Counted
<1>. QED
  BY <1>2, <1>4, <1>5, <1>6 DEF ResultIsGenuine

(* The flag is cleared before the reply is waited for. *)
LEMMA ClearReadyIInv == ASSUME HvpsIInv, ClearReady PROVE HvpsIInv'
<1> USE DEF ClearReady
<1>1. UNCHANGED <<client, ret, command, rxState, cmds_sent, module, uartVars>>
  OBVIOUS
<1> USE <1>1 DEF client, command, rxState, module, uartVars
<1>2. at = "clear" /\ at' = "wait" /\ hvps_reply_ready' = FALSE
  OBVIOUS
<1>3. HvpsTypeOK'
  BY <1>2 DEF HvpsTypeOK, MainTypeOK, RxTypeOK, LineTypeOK
<1>4. Stages'
  BY <1>2 DEF Stages, Prepared, Sending, Replying, Answered, Silence, NoReply,
              ReplyLength, Symbol, Truthful
<1>5. Counted'
  BY <1>2 DEF Counted, Awaited, ReplyLength
<1>. QED
  BY <1>2, <1>3, <1>4, <1>5 DEF ResultIsGenuine

(* Only a command that was answered is checked, and its reply is the one     *)
(* that is looked at.                                                        *)
LEMMA CheckReplyIInv == ASSUME HvpsIInv, CheckReply PROVE HvpsIInv'
<1> USE DEF CheckReply
<1>1. UNCHANGED <<job, step, command, rxState, hvps_reply_ready, cmds_sent, module, uartVars>>
  OBVIOUS
<1> USE <1>1 DEF command, rxState, module, uartVars
<1>2. at = "wait" /\ at' = "idle" /\ hvps_reply_ready
      /\ ret' = (IF ReplyGood THEN 0 ELSE 1) /\ clean' = (clean /\ ReplyGood)
  OBVIOUS
<1>3. Answered
  BY <1>2 DEF Stages, Prepared, Sending, Replying
<1>4. HvpsTypeOK'
  BY <1>2 DEF HvpsTypeOK, MainTypeOK, RxTypeOK, LineTypeOK
<1>5. Stages'
  BY <1>2, <1>3 DEF Stages, Answered, Silence, NoReply
<1>6. Counted'
  BY <1>2 DEF Counted, Awaited, ReplyLength
<1>7. ResultIsGenuine'
  BY <1>2, <1>3 DEF ResultIsGenuine, Answered, Truthful, ReplyGood
<1>. QED
  BY <1>4, <1>5, <1>6, <1>7

(* A job starts and ends between commands. *)
LEMMA JobIInv == ASSUME HvpsIInv, StartJob \/ EndJob PROVE HvpsIInv'
<1>1. UNCHANGED <<at, ret, command, rxState, hvps_reply_ready, cmds_sent, module, uartVars>>
  BY DEF StartJob, EndJob
<1> USE <1>1 DEF command, rxState, module, uartVars
<1>2. at = "idle"
  BY DEF StartJob, EndJob, Stages
<1>3. HvpsTypeOK'
  <2>1. job' \in Jobs \cup {NoJob} /\ step' \in Nat /\ clean' \in BOOLEAN
    <3>1. CASE StartJob
      BY <3>1, Zenon DEF StartJob, HvpsTypeOK, MainTypeOK
    <3>2. CASE EndJob
      BY <3>2 DEF EndJob, HvpsTypeOK, MainTypeOK
    <3>. QED
      BY <3>1, <3>2
  <2>. QED
    BY <2>1 DEF HvpsTypeOK, MainTypeOK, RxTypeOK, LineTypeOK
<1>4. Stages'
  BY <1>2 DEF Stages, Silence, NoReply
<1>5. Counted' /\ ResultIsGenuine'
  BY DEF Counted, Awaited, ReplyLength, ResultIsGenuine
<1>. QED
  BY <1>3, <1>4, <1>5

(* The next command of a job is prepared, or none is. *)
LEMMA SendNextIInv == ASSUME HvpsIInv, SendNext PROVE HvpsIInv'
<1>1. UNCHANGED <<job, clean, rxState, hvps_reply_ready, cmds_sent, module>>
  BY DEF SendNext
<1> USE <1>1 DEF rxState, module
<1>2. /\ job \in Jobs /\ job # NoJob /\ at = "idle" /\ step \in Nat /\ step' = step + 1
      /\ tx_size = 0 /\ Silence /\ NoReply /\ last_cmd_err = lastFailed
  BY DEF SendNext, Stages, HvpsTypeOK, MainTypeOK
<1>3. ~Awaited
  BY <1>2, EmptySeq DEF Awaited, Silence, NoReply, ReplyLength
<1>4. PICK stray \in BOOLEAN :
       LET op == Due(step, stray)
           c == Cmd(op, IF op \in {"HST", "HBV"} THEN job.vb ELSE "ok") IN
        \/ op = None /\ UNCHANGED <<at, ret, command, uartVars>>
        \/ op \in {"HST", "HBV"} /\ ~VoltageLess(FALSE) /\ ret' = -1
             /\ UNCHANGED <<at, command, uartVars>>
        \/ op # None /\ (op \in {"HST", "HBV"} => VoltageLess(TRUE)) /\ Prepare(c)
             /\ UNCHANGED ret
  BY DEF SendNext
<1> DEFINE op == Due(step, stray)
           c == Cmd(op, IF op \in {"HST", "HBV"} THEN job.vb ELSE "ok")
<1>5. op \in Ops \cup {None}
  BY <1>2, DueFacts
<1>6. CASE UNCHANGED <<at, command, uartVars>> /\ ret' \in {ret, -1}
  <2> USE <1>6 DEF command, uartVars
  <2>1. HvpsTypeOK'
    BY <1>2 DEF HvpsTypeOK, MainTypeOK, RxTypeOK, LineTypeOK
  <2>2. Stages'
    BY <1>2 DEF Stages, Silence, NoReply
  <2>3. Counted'
    BY DEF Counted, Awaited, ReplyLength
  <2>4. ResultIsGenuine'
    BY DEF ResultIsGenuine
  <2>. QED
    BY <2>1, <2>2, <2>3, <2>4
<1>7. CASE op # None /\ (op \in {"HST", "HBV"} => VoltageLess(TRUE)) /\ Prepare(c) /\ UNCHANGED ret
  <2>1. /\ hvps_cmd' = c /\ last_cmd' = c.op /\ at' = "tx" /\ ret' = ret
        /\ tx_size' = CmdLength(c.op) /\ tx_fifo' = tx_fifo /\ rx_fifo' = rx_fifo
    BY <1>7 DEF Prepare
  <2>2. (IF op \in {"HST", "HBV"} THEN job.vb ELSE "ok") \in Voltages
    <3>1. op \in {"HST", "HBV"} => job.kind \in {"CONF", "TMP_VOLT"}
      <4>1. \A k \in DOMAIN HkCmds : HkCmds[k] \notin {"HST", "HBV"}
        BY DEF HkCmds
      <4>2. job.kind \in {"CONF", "TMP_VOLT", "ACTIVE", "SLEEP", "HK"}
        BY <1>2 DEF Jobs
      <4>. QED
        BY <4>1, <4>2 DEF Due, None
    <3>2. job.kind \in {"CONF", "TMP_VOLT"} => job.vb \in Voltages
      BY <1>2 DEF Jobs
    <3>. QED
      BY <3>1, <3>2 DEF Voltages
  <2>3. c \in Commands /\ tx_size' \in 1..4
    BY <1>5, <1>7, <2>1, <2>2, CommandFacts
  <2>4. HvpsTypeOK'
    BY <1>2, <2>1, <2>3 DEF HvpsTypeOK, MainTypeOK, RxTypeOK, LineTypeOK
  <2>5. Prepared'
    BY <1>2, <2>1, <2>3 DEF Prepared, Silence, NoReply
  <2>6. Stages'
    BY <1>2, <2>1, <2>3, <2>5 DEF Stages
  <2>7. Counted'
    <3>1. Awaited'
      BY <2>3 DEF Awaited
    <3>2. UInt16(cmds_sent + 0) = UInt16(cmds_acked + cmds_failed + garbled + 0)
      BY <1>2, <1>3 DEF Counted
    <3>3. UInt16(cmds_sent + 1) = UInt16(cmds_acked + cmds_failed + garbled + 1)
      BY <3>2, NextCount DEF HvpsTypeOK, RxTypeOK, Words
    <3>. QED
      BY <2>1, <3>1, <3>3 DEF Counted
  <2>. QED
    BY <2>1, <2>4, <2>6, <2>7 DEF ResultIsGenuine
<1>. QED
  BY <1>4, <1>6, <1>7

(* The module receives what the FIFO sends. *)
LEMMA ReceiveSymbolIInv == ASSUME HvpsIInv, ReceiveSymbol PROVE HvpsIInv'
<1> USE DEF ReceiveSymbol
<1>1. UNCHANGED <<client, at, ret, command, rxState, hvps_reply_ready, cmds_sent, inbox,
                  line, on, lastDone, lastFailed, tx_size, rx_fifo>>
  OBVIOUS
<1> USE <1>1 DEF client, command, rxState
<1>2. /\ tx_fifo \in Nat /\ tx_fifo > 0 /\ tx_fifo' = tx_fifo - 1 /\ received \in Nat
      /\ received' = received + 1 /\ tx_size \in Nat
  BY DEF HvpsTypeOK, LineTypeOK
<1>3. at # "idle" /\ Sending
  BY <1>2 DEF Stages, Prepared, Replying, Answered, Silence
<1>4. Sending'
  <2>1. tx_size + tx_fifo' + received' = tx_size + tx_fifo + received
    BY <1>2
  <2>. QED
    BY <1>3, <2>1 DEF Sending, NoReply
<1>5. Stages'
  BY <1>3, <1>4 DEF Stages
<1>6. HvpsTypeOK'
  BY <1>2 DEF HvpsTypeOK, MainTypeOK, RxTypeOK, LineTypeOK
<1>7. Counted' /\ ResultIsGenuine'
  BY DEF Counted, Awaited, ReplyLength, ResultIsGenuine
<1>. QED
  BY <1>5, <1>6, <1>7

(* What a reply looks like on the line: its end comes last, if it comes. *)
LEMMA TerminatedFacts ==
    ASSUME NEW body \in Seq(Symbols), Len(body) \in 1..2,
           \A k \in 1..Len(body) : body[k] # CR, NEW reply \in Terminated(body)
    PROVE  /\ reply \in Seq(Symbols) /\ Len(reply) \in 1..3 /\ Len(reply) >= Len(body)
           /\ \A k \in 1..Len(body) : reply[k] = body[k]
           /\ \A k \in 1..Len(reply) : reply[k] = CR => k = Len(reply)
<1>1. CR \in Symbols
  BY SymbolFacts DEF CR
<1>2. /\ Append(body, CR) \in Seq(Symbols) /\ Len(Append(body, CR)) = Len(body) + 1
      /\ \A k \in 1..Len(body) : Append(body, CR)[k] = body[k]
  BY <1>1, AppendProperties
<1>3. CASE reply = body
  BY <1>3
<1>4. CASE reply = Append(body, CR)
  <2>1. Len(reply) = Len(body) + 1
    BY <1>2, <1>4
  <2>2. ASSUME NEW k \in 1..Len(reply), reply[k] = CR PROVE k = Len(reply)
    <3>1. k \notin 1..Len(body)
      BY <1>2, <1>4, <2>2
    <3>. QED
      BY <2>1, <3>1
  <2>. QED
    BY <1>2, <1>4, <2>1, <2>2
<1>. QED
  BY <1>3, <1>4 DEF Terminated

LEMMA BodyFacts ==
    ASSUME NEW first \in Symbols, NEW second \in Symbols
    PROVE  /\ <<first>> \in Seq(Symbols) /\ Len(<<first>>) = 1 /\ <<first>>[1] = first
           /\ <<first, second>> \in Seq(Symbols) /\ Len(<<first, second>>) = 2
           /\ <<first, second>>[1] = first /\ <<first, second>>[2] = second
           /\ \A k \in 1..1 : <<first>>[k] = first
           /\ \A k \in 1..2 : <<first, second>>[k] \in {first, second}
           /\ <<first>> \o <<second>> = <<first, second>>
           /\ <<first>> \o << >> = <<first>>
<1>1. <<first>> \in Seq(Symbols) /\ Len(<<first>>) = 1 /\ <<first>>[1] = first
  OBVIOUS
<1>2. /\ <<first, second>> \in Seq(Symbols) /\ Len(<<first, second>>) = 2
      /\ <<first, second>>[1] = first /\ <<first, second>>[2] = second
  OBVIOUS
<1>5. /\ \A k \in 1..1 : <<first>>[k] = first
      /\ \A k \in 1..2 : <<first, second>>[k] \in {first, second}
  OBVIOUS
<1>3. <<first>> \o << >> = <<first>>
  BY <1>1, ConcatEmptySeq
<1>4. <<first>> \o <<second>> = <<first, second>>
  <2>1. <<second>> \in Seq(Symbols) /\ Len(<<second>>) = 1 /\ <<second>>[1] = second
    OBVIOUS
  <2>2. /\ <<first>> \o <<second>> \in Seq(Symbols) /\ Len(<<first>> \o <<second>>) = 2
        /\ (<<first>> \o <<second>>)[1] = first /\ (<<first>> \o <<second>>)[2] = second
    BY <1>1, <2>1, ConcatProperties
  <2>3. \A k \in 1..2 : (<<first>> \o <<second>>)[k] = <<first, second>>[k]
    BY <1>2, <2>2
  <2>. QED
    BY <1>2, <2>2, <2>3, SeqEqual
<1>. QED
  BY <1>1, <1>2, <1>3, <1>4, <1>5

(* The module answers a command it has received in full. *)
LEMMA RespondIInv == ASSUME HvpsIInv, Respond PROVE HvpsIInv'
<1> USE DEF Respond
<1>1. UNCHANGED <<client, at, ret, command, rxState, hvps_reply_ready, cmds_sent, uartVars>>
  OBVIOUS
<1> USE <1>1 DEF client, command, rxState, uartVars
<1>2. /\ inbox # NoCmd /\ received = CmdLength(inbox.op) /\ inbox' = NoCmd /\ received' = 0
      /\ on \in BOOLEAN /\ tx_size \in Nat /\ tx_fifo \in Nat /\ received \in Nat
  BY DEF HvpsTypeOK, LineTypeOK
<1>3. /\ at # "idle" /\ Sending /\ hvps_cmd \in Commands /\ last_cmd = hvps_cmd.op
      /\ job # NoJob
  BY <1>2 DEF Stages, Prepared, Replying, Answered, Silence
<1>4. /\ tx_size = 0 /\ tx_fifo = 0 /\ at # "tx" /\ NoReply /\ last_cmd_err = lastFailed
      /\ inbox.op = hvps_cmd.op
  BY <1>2, <1>3, CommandFacts DEF Sending
<1> DEFINE op == hvps_cmd.op
           good == Letters(op)
           answer == <<good>> \o IF op \in Queries THEN <<Value(on)>> ELSE << >>
<1>5. /\ good \in Symbols /\ good # CR /\ Value(on) \in Symbols /\ Value(on) # CR
      /\ Letters("hxx") \in Symbols /\ Letters("hxx") # CR /\ Letters("hxx") # good
      /\ Letters("garbage") \in Symbols /\ Letters("garbage") # CR
      /\ Letters("garbage") # good /\ Letters("garbage") # Letters("hxx")
      /\ Value(FALSE) \in Symbols /\ Value(FALSE) # CR
  BY <1>2, <1>3, SymbolFacts, CommandFacts DEF CR
<1>6. /\ answer \in Seq(Symbols) /\ Len(answer) \in 1..2 /\ answer[1] = good
      /\ op \in Queries => Len(answer) = 2 /\ answer[2] = Value(on)
      /\ \A k \in 1..Len(answer) : answer[k] # CR
  <2>1. CASE op \in Queries
    <3>1. answer = <<good, Value(on)>>
      BY <1>5, <2>1, BodyFacts
    <3>. QED
      BY <1>5, <3>1, BodyFacts
  <2>2. CASE op \notin Queries
    <3>1. answer = <<good>>
      BY <1>5, <2>2, BodyFacts
    <3>. QED
      BY <1>5, <2>2, <3>1, BodyFacts
  <2>. QED
    BY <2>1, <2>2
<1>7. /\ line' \in Seq(Symbols) /\ Len(line') \in 1..3 /\ on' \in BOOLEAN
      /\ \A k \in 1..Len(line') : line'[k] = CR => k = Len(line')
      /\ line'[1] \in {good, Letters("hxx"), Letters("garbage")}
      /\ line'[1] = good =>
           /\ lastDone' = op /\ lastFailed' = lastFailed
           /\ op = "HON" => on' = TRUE
           /\ op = "HOF" => on' = FALSE
           /\ op \in Queries => Len(line') >= 2 /\ line'[2] = Value(on')
      /\ line'[1] = Letters("hxx") => lastFailed' = op
      /\ line'[1] = Letters("garbage") => lastFailed' = lastFailed
  <2>1. CASE /\ on' = CASE inbox.op = "HON" -> TRUE
                         [] inbox.op = "HOF" -> FALSE
                         [] OTHER            -> on
             /\ lastDone' = inbox.op
             /\ line' \in Terminated(<<Letters(inbox.op)>>
                             \o IF inbox.op \in Queries THEN <<Value(on)>> ELSE << >>)
             /\ UNCHANGED lastFailed
    <3>1. /\ on' \in BOOLEAN
          /\ op = "HON" => on' = TRUE
          /\ op = "HOF" => on' = FALSE
          /\ op \in Queries => on' = on
      BY <1>2, <1>4, <2>1 DEF Queries
    <3>2. line' \in Terminated(answer)
      BY <1>4, <2>1
    <3> HIDE DEF answer
    <3>3. /\ line' \in Seq(Symbols) /\ Len(line') \in 1..3 /\ line'[1] = good
          /\ \A k \in 1..Len(line') : line'[k] = CR => k = Len(line')
          /\ op \in Queries => Len(line') >= 2 /\ line'[2] = Value(on)
      BY <1>6, <3>2, TerminatedFacts
    <3>. QED
      BY <1>4, <1>5, <2>1, <3>1, <3>3
  <2>2. CASE /\ lastFailed' = inbox.op
             /\ line' \in Terminated(<<Letters("hxx"), Value(FALSE)>>)
             /\ UNCHANGED <<on, lastDone>>
    <3>1. /\ line' \in Seq(Symbols) /\ Len(line') \in 1..3 /\ line'[1] = Letters("hxx")
          /\ \A k \in 1..Len(line') : line'[k] = CR => k = Len(line')
      <4> DEFINE no == Value(FALSE)
                 body == <<Letters("hxx"), no>>
      <4>0. no \in Symbols /\ no # CR
        BY <1>5
      <4> HIDE DEF no
      <4>1. /\ body \in Seq(Symbols) /\ Len(body) \in 1..2 /\ body[1] = Letters("hxx")
            /\ \A k \in 1..Len(body) : body[k] \in {Letters("hxx"), no}
        BY <1>5, <4>0, BodyFacts
      <4> HIDE DEF body
      <4>2. line' \in Terminated(body)
        BY <2>2 DEF body, no
      <4>3. \A k \in 1..Len(body) : body[k] # CR
        BY <1>5, <4>0, <4>1
      <4>4. /\ line' \in Seq(Symbols) /\ Len(line') \in 1..3
            /\ \A k \in 1..Len(body) : line'[k] = body[k]
            /\ \A k \in 1..Len(line') : line'[k] = CR => k = Len(line')
        BY <4>1, <4>2, <4>3, TerminatedFacts
      <4>. QED
        BY <4>1, <4>4
    <3>. QED
      BY <1>2, <1>4, <1>5, <2>2, <3>1
  <2>3. CASE /\ line' \in Terminated(<<Letters("garbage")>>)
             /\ UNCHANGED <<on, lastDone, lastFailed>>
    <3>1. /\ line' \in Seq(Symbols) /\ Len(line') \in 1..3 /\ line'[1] = Letters("garbage")
          /\ \A k \in 1..Len(line') : line'[k] = CR => k = Len(line')
      <4> DEFINE body == <<Letters("garbage")>>
      <4>1. /\ body \in Seq(Symbols) /\ Len(body) \in 1..2 /\ body[1] = Letters("garbage")
            /\ \A k \in 1..Len(body) : body[k] = Letters("garbage")
        BY <1>5, BodyFacts
      <4> HIDE DEF body
      <4>2. line' \in Terminated(body)
        BY <2>3 DEF body
      <4>3. \A k \in 1..Len(body) : body[k] # CR
        BY <1>5, <4>1
      <4>4. /\ line' \in Seq(Symbols) /\ Len(line') \in 1..3
            /\ \A k \in 1..Len(body) : line'[k] = body[k]
            /\ \A k \in 1..Len(line') : line'[k] = CR => k = Len(line')
        BY <4>1, <4>2, <4>3, TerminatedFacts
      <4>. QED
        BY <4>1, <4>4
    <3>. QED
      BY <1>2, <1>5, <2>3, <3>1
  <2>. QED
    BY <2>1, <2>2, <2>3
<1>8. ReplyLength' = Len(line') /\ \A k \in 1..3 : Symbol(k)' = line'[k]
  BY <1>4, <1>7, EmptySeq DEF NoReply, ReplyLength, Symbol
<1>9. Replying'
  BY <1>2, <1>3, <1>4, <1>7, <1>8, 1 \in 1..3, 2 \in 1..3
  DEF Replying, Silence, Truthful, Sending
<1>10. Stages'
  BY <1>3, <1>9 DEF Stages
<1>11. HvpsTypeOK'
  BY <1>2, <1>7 DEF HvpsTypeOK, MainTypeOK, RxTypeOK, LineTypeOK
<1>12. Counted'
  BY <1>2, <1>7, <1>8 DEF Counted, Awaited
<1>. QED
  BY <1>3, <1>10, <1>11, <1>12 DEF ResultIsGenuine

(* A reply that moves on keeps its symbols and their order. *)
LEMMA SameReply ==
    ASSUME Replying, Silence', at' = at, at # "idle", ReplyLength' = ReplyLength,
           \A k \in 1..ReplyLength : Symbol(k)' = Symbol(k),
           UNCHANGED <<tx_size, hvps_cmd, lastDone, lastFailed, on, last_cmd_err,
                       hvps_reply_ready>>
    PROVE  Replying'
<1>1. 1 \in 1..ReplyLength /\ (ReplyLength >= 2 => 2 \in 1..ReplyLength)
  BY DEF Replying
<1>2. Truthful(Symbol(1), Symbol(2))'
  BY <1>1 DEF Replying, Truthful
<1>. QED
  BY <1>1, <1>2 DEF Replying

(* A symbol goes from the line into the FIFO. *)
LEMMA SendSymbolIInv == ASSUME HvpsIInv, SendSymbol PROVE HvpsIInv'
<1> USE DEF SendSymbol
<1>1. UNCHANGED <<client, at, ret, command, rxState, hvps_reply_ready, cmds_sent, inbox,
                  received, on, lastDone, lastFailed, tx_size, tx_fifo>>
  OBVIOUS
<1> USE <1>1 DEF client, command, rxState
<1>2. /\ line \in Seq(Symbols) /\ line # << >> /\ rx_fifo \in Seq(Symbols) /\ rx_size \in Nat
      /\ rx_fifo' = Append(rx_fifo, Head(line)) /\ line' = Tail(line)
  BY DEF HvpsTypeOK, LineTypeOK, RxTypeOK
<1>3. at # "idle" /\ Replying
  BY <1>2 DEF Stages, Prepared, Sending, Answered, NoReply
<1>4. /\ Head(line) = line[1] /\ Head(line) \in Symbols /\ line' \in Seq(Symbols)
      /\ Len(line) \in Nat /\ Len(line) >= 1
      /\ Len(line') = Len(line) - 1 /\ \A k \in 1..Len(line') : line'[k] = line[k + 1]
  BY <1>2, HeadTailProperties, EmptySeq
<1>5. /\ rx_fifo' \in Seq(Symbols) /\ Len(rx_fifo) \in Nat /\ Len(rx_fifo') = Len(rx_fifo) + 1
      /\ \A k \in 1..Len(rx_fifo) : rx_fifo'[k] = rx_fifo[k]
      /\ rx_fifo'[Len(rx_fifo) + 1] = line[1]
  BY <1>2, <1>4, AppendProperties, LenProperties
<1>6. ReplyLength' = ReplyLength
  BY <1>2, <1>4, <1>5 DEF ReplyLength
<1>7. ASSUME NEW k \in 1..ReplyLength PROVE Symbol(k)' = Symbol(k)
  <2>0. k \in Nat
    BY <1>2, <1>4, <1>5 DEF ReplyLength
  <2>1. CASE k <= rx_size
    BY <2>1 DEF Symbol
  <2>2. CASE rx_size < k /\ k <= rx_size + Len(rx_fifo)
    BY <1>2, <1>5, <2>2 DEF Symbol
  <2>3. CASE k = rx_size + Len(rx_fifo) + 1
    BY <1>2, <1>5, <2>3 DEF Symbol
  <2>4. CASE k > rx_size + Len(rx_fifo) + 1
    <3>1. k - rx_size - Len(rx_fifo') \in 1..Len(line')
      BY <1>2, <1>4, <1>5, <2>4 DEF ReplyLength
    <3>2. line'[k - rx_size - Len(rx_fifo')] = line[k - rx_size - Len(rx_fifo)]
      BY <1>2, <1>4, <1>5, <3>1
    <3>3. /\ ~(k <= rx_size) /\ ~(k <= rx_size + Len(rx_fifo))
          /\ ~(k <= rx_size' + Len(rx_fifo'))
      BY <1>2, <1>5, <2>0, <2>4
    <3>. QED
      BY <3>2, <3>3 DEF Symbol
  <2>5. \/ k <= rx_size
        \/ rx_size < k /\ k <= rx_size + Len(rx_fifo)
        \/ k = rx_size + Len(rx_fifo) + 1
        \/ k > rx_size + Len(rx_fifo) + 1
    <3>1. k \in Int /\ rx_size \in Int /\ Len(rx_fifo) \in Int
      BY <1>2, <1>5, <2>0
    <3>. QED
      BY ONLY <3>1
  <2>. QED
    BY <2>1, <2>2, <2>3, <2>4, <2>5, Zenon
<1>8. Replying'
  BY <1>3, <1>6, <1>7, SameReply DEF Silence, Replying
<1>9. Stages'
  BY <1>3, <1>8 DEF Stages
<1>10. HvpsTypeOK'
  BY <1>4, <1>5 DEF HvpsTypeOK, MainTypeOK, RxTypeOK, LineTypeOK
<1>11. Counted' /\ ResultIsGenuine'
  BY <1>6 DEF Counted, Awaited, ResultIsGenuine
<1>. QED
  BY <1>9, <1>10, <1>11

(* What was received goes behind what was read before; with its end the      *)
(* reply is counted.                                                         *)
LEMMA RxHandlerIInv == ASSUME LongEnough, HvpsIInv, UART0_RXHandler PROVE HvpsIInv'
<1> USE DEF UART0_RXHandler, MSS_UART_isr
<1>1. UNCHANGED <<client, at, ret, command, cmds_sent, module, tx_size, tx_fifo>>
  OBVIOUS
<1> USE <1>1 DEF client, command, module
<1>2. /\ rx_fifo \in Seq(Symbols) /\ rx_fifo # << >> /\ line \in Seq(Symbols) /\ rx_size \in Nat
      /\ Len(rx_fifo) \in Nat /\ Len(rx_fifo) >= 1 /\ Len(line) \in Nat
      /\ \A k \in 1..Len(rx_fifo) : rx_fifo[k] \in Symbols
      /\ hvps_reply \in [1..HVPS_REPLY_SIZE -> Symbols]
  BY EmptySeq, LenProperties, ElementOfSeq DEF HvpsTypeOK, LineTypeOK, RxTypeOK
<1>3. at # "idle" /\ Replying /\ hvps_cmd \in Commands /\ last_cmd = hvps_cmd.op /\ job # NoJob
  BY <1>2 DEF Stages, Prepared, Sending, Answered, NoReply
<1>4. ReplyLength \in 1..3 /\ ReplyLength <= HVPS_REPLY_SIZE /\ Len(rx_fifo) <= HVPS_REPLY_SIZE
  BY <1>2, <1>3 DEF Replying, ReplyLength, LongEnough
<1>5. MSS_UART_get_rx(HVPS_REPLY_SIZE) = rx_fifo
  <2>1. (IF Len(rx_fifo) < HVPS_REPLY_SIZE THEN Len(rx_fifo) ELSE HVPS_REPLY_SIZE) = Len(rx_fifo)
    BY <1>2, <1>4 DEF LongEnough
  <2>. QED
    BY <1>2, <2>1, SubSeqFull DEF MSS_UART_get_rx
<1>6. /\ hvps_reply' = Put(rx_fifo)
      /\ rx_fifo' = SubSeq(rx_fifo, Len(rx_fifo) + 1, Len(rx_fifo))
      /\ \/ /\ rx_fifo[Len(rx_fifo)] = CR
            /\ Count(hvps_reply')
            /\ hvps_reply_ready' = TRUE
            /\ rx_size' = RxSizeAfter
         \/ /\ rx_fifo[Len(rx_fifo)] # CR
            /\ rx_size' = rx_size + Len(rx_fifo)
            /\ UNCHANGED <<cmds_acked, cmds_failed, garbled, last_cmd_err, hvps_reply_ready>>
  BY <1>5, Zenon DEF RxHandler
<1>7. rx_fifo' = << >>
  BY <1>2, <1>6, SubSeqEmpty
<1>8. /\ hvps_reply' \in [1..HVPS_REPLY_SIZE -> Symbols]
      /\ \A k \in 1..rx_size + Len(rx_fifo) : hvps_reply'[k] = Symbol(k)
  <2>1. \A k \in 1..HVPS_REPLY_SIZE :
          hvps_reply'[k] = IF rx_size < k /\ k <= rx_size + Len(rx_fifo)
                           THEN rx_fifo[k - rx_size] ELSE hvps_reply[k]
    BY <1>2, <1>6 DEF Put
  <2>2. DOMAIN hvps_reply' = 1..HVPS_REPLY_SIZE
    BY <1>2, <1>6 DEF Put
  <2>3. \A k \in 1..HVPS_REPLY_SIZE : hvps_reply'[k] \in Symbols
    BY <1>2, <2>1
  <2>4. hvps_reply' \in [1..HVPS_REPLY_SIZE -> Symbols]
    BY <1>2, <1>6, <2>3 DEF Put
  <2>5. \A k \in 1..rx_size + Len(rx_fifo) : hvps_reply'[k] = Symbol(k)
    BY <1>2, <1>4, <2>1 DEF Symbol, ReplyLength, LongEnough
  <2>. QED
    BY <2>4, <2>5
<1>9. CASE rx_fifo[Len(rx_fifo)] = CR
  <2>1. Count(hvps_reply') /\ hvps_reply_ready' = TRUE /\ rx_size' = 0
    BY <1>6, <1>9 DEF RxSizeAfter
  <2>2. line = << >> /\ rx_size + Len(rx_fifo) = ReplyLength
    <3>1. Symbol(rx_size + Len(rx_fifo)) = CR
      BY <1>2, <1>9 DEF Symbol
    <3>2. rx_size + Len(rx_fifo) = ReplyLength
      BY <1>2, <1>3, <1>4, <3>1 DEF Replying, ReplyLength
    <3>. QED
      BY <1>2, <3>2, EmptySeq DEF ReplyLength
  <2>3. /\ hvps_reply'[1] = Symbol(1)
        /\ ReplyLength >= 2 => hvps_reply'[2] = Symbol(2)
    BY <1>4, <1>8, <2>2
  <2>4. Truthful(hvps_reply[1], hvps_reply[2])'
    BY <1>3, <2>3 DEF Replying, Truthful
  <2>5. /\ Letters("hxx") # Letters(hvps_cmd.op) /\ Letters("garbage") # Letters(hvps_cmd.op)
        /\ Letters("hxx") # Letters("garbage")
    BY <1>3, CommandFacts, SymbolFacts
  <2>6. last_cmd_err' = lastFailed
    BY <1>3, <2>1, <2>3, <2>5 DEF Count, Acked, Refused, Replying, Truthful
  <2>7. Answered'
    BY <1>3, <1>7, <2>1, <2>2, <2>4, <2>6 DEF Answered, Replying, Silence, NoReply
  <2>8. /\ cmds_acked' \in Nat /\ cmds_failed' \in Nat /\ garbled' \in Nat
        /\ UInt16(cmds_acked' + cmds_failed' + garbled')
             = UInt16(cmds_acked + cmds_failed + garbled + 1)
    <3>1. cmds_acked \in Nat /\ cmds_failed \in Nat /\ garbled \in Nat
      BY DEF HvpsTypeOK, RxTypeOK
    <3>2. CASE Symbol(1) = Letters(hvps_cmd.op)
      <4>1. /\ cmds_acked' = UInt16(cmds_acked + 1) /\ cmds_failed' = cmds_failed
            /\ garbled' = garbled
        BY <2>1, <2>3, <2>5, <3>2 DEF Count, Acked, Refused
      <4>2. UInt16(UInt16(cmds_acked + 1) + (cmds_failed + garbled))
              = UInt16(cmds_acked + 1 + (cmds_failed + garbled))
        BY <3>1, UInt16Facts
      <4>3. cmds_acked' \in Nat
        BY <3>1, <4>1, UInt16Facts DEF Words
      <4>. QED
        BY <3>1, <4>1, <4>2, <4>3
    <3>3. CASE Symbol(1) = Letters("hxx")
      <4>1. /\ cmds_acked' = cmds_acked /\ cmds_failed' = UInt16(cmds_failed + 1)
            /\ garbled' = garbled
        BY <2>1, <2>3, <2>5, <3>3 DEF Count, Acked, Refused
      <4>2. UInt16(UInt16(cmds_failed + 1) + (cmds_acked + garbled))
              = UInt16(cmds_failed + 1 + (cmds_acked + garbled))
        BY <3>1, UInt16Facts
      <4>3. cmds_failed' \in Nat
        BY <3>1, <4>1, UInt16Facts DEF Words
      <4>. QED
        BY <3>1, <4>1, <4>2, <4>3
    <3>4. CASE Symbol(1) = Letters("garbage")
      <4>1. /\ cmds_acked' = cmds_acked /\ cmds_failed' = cmds_failed
            /\ garbled' = garbled + 1
        BY <2>1, <2>3, <2>5, <3>4 DEF Count, Acked, Refused
      <4>. QED
        BY <3>1, <4>1
    <3>. QED
      BY <1>3, <3>2, <3>3, <3>4 DEF Replying, Truthful
  <2>9. Counted'
    <3>1. Awaited /\ ~Awaited'
      BY <1>3, <1>4, <1>7, <2>1, <2>2, EmptySeq DEF Awaited, Replying, Silence, ReplyLength
    <3>2. UInt16(cmds_acked' + cmds_failed' + garbled' + 0)
            = UInt16(cmds_acked + cmds_failed + garbled + 1)
      BY <2>8
    <3>. QED
      BY <3>1, <3>2 DEF Counted
  <2>10. HvpsTypeOK'
    BY <1>2, <1>7, <1>8, <2>1, <2>2, <2>8, EmptySeq
    DEF HvpsTypeOK, MainTypeOK, RxTypeOK, LineTypeOK
  <2>. QED
    BY <1>3, <2>7, <2>9, <2>10 DEF Stages, ResultIsGenuine
<1>10. CASE rx_fifo[Len(rx_fifo)] # CR
  <2>1. /\ rx_size' = rx_size + Len(rx_fifo)
        /\ UNCHANGED <<cmds_acked, cmds_failed, garbled, last_cmd_err, hvps_reply_ready>>
    BY <1>6, <1>10
  <2>2. ReplyLength' = ReplyLength
    BY <1>2, <1>7, <2>1, EmptySeq DEF ReplyLength
  <2>3. ASSUME NEW k \in 1..ReplyLength PROVE Symbol(k)' = Symbol(k)
    BY <1>2, <1>7, <1>8, <2>1, EmptySeq DEF Symbol
  <2>4. Replying'
    BY <1>3, <2>1, <2>2, <2>3, SameReply DEF Silence, Replying
  <2>5. HvpsTypeOK'
    BY <1>2, <1>7, <1>8, <2>1, EmptySeq DEF HvpsTypeOK, MainTypeOK, RxTypeOK, LineTypeOK
  <2>6. Counted'
    BY <2>1, <2>2 DEF Counted, Awaited
  <2>. QED
    BY <1>3, <2>4, <2>5, <2>6 DEF Stages, ResultIsGenuine
<1>. QED
  BY <1>9, <1>10

(* Every step preserves the invariant. *)
LEMMA HvpsNextIInv == LongEnough /\ HvpsIInv /\ [HvpsNext]_hvpsVars => HvpsIInv'
<1> SUFFICES ASSUME LongEnough, HvpsIInv, [HvpsNext]_hvpsVars PROVE HvpsIInv'
  OBVIOUS
<1>1. CASE HvpsNext
  BY <1>1, TransmitIInv, CountSentIInv, ClearReadyIInv, CheckReplyIInv, JobIInv, SendNextIInv,
     ReceiveSymbolIInv, RespondIInv, SendSymbolIInv, RxHandlerIInv
  DEF HvpsNext, Main, Module
<1>2. CASE UNCHANGED hvpsVars
  <2>1. HvpsTypeOK'
    BY <1>2 DEF hvpsVars, client, command, rxState, module, uartVars, HvpsTypeOK, MainTypeOK,
                RxTypeOK, LineTypeOK
  <2>2. Stages'
    BY <1>2 DEF hvpsVars, client, command, rxState, module, uartVars, Stages, Prepared, Sending,
                Replying, Answered, Silence, NoReply, ReplyLength, Symbol, Truthful
  <2>3. Counted' /\ ResultIsGenuine'
    BY <1>2 DEF hvpsVars, client, command, rxState, module, uartVars, Counted, Awaited,
                ReplyLength, ResultIsGenuine
  <2>. QED
    BY <2>1, <2>2, <2>3
<1>. QED
  BY <1>1, <1>2

(* The invariant holds throughout. *)
THEOREM HvpsInvariant == ASSUME LongEnough PROVE HvpsSpec => []HvpsIInv
<1>1. HvpsInit => HvpsIInv
  BY HvpsInitIInv
<1>2. HvpsIInv /\ [HvpsNext]_hvpsVars => HvpsIInv'
  BY HvpsNextIInv
<1>. QED
  BY <1>1, <1>2, PTL DEF HvpsSpec

(* However a reply is split, it fits into hvps_reply. *)
THEOREM RepliesFit == ASSUME LongEnough PROVE HvpsSpec => []ReplyFits
<1>1. HvpsIInv => ReplyFits
  <2> SUFFICES ASSUME HvpsIInv PROVE ReplyFits
    OBVIOUS
  <2>1. rx_size \in Nat /\ Len(rx_fifo) \in Nat /\ Len(line) \in Nat
    BY LenProperties DEF HvpsTypeOK, RxTypeOK, LineTypeOK
  <2>2. NoReply \/ ReplyLength \in 1..3
    BY DEF Stages, Prepared, Sending, Replying, Answered
  <2>. QED
    BY <2>1, <2>2, EmptySeq DEF NoReply, ReplyLength, ReplyFits, LongEnough
<1>. QED
  BY <1>1, HvpsInvariant, PTL

(* Between commands, the three counters of what came back add up to the      *)
(* counter of what was sent, also when they have gone round.                 *)
THEOREM CountersAgree == ASSUME LongEnough PROVE HvpsSpec => []CountersAddUp
<1>1. HvpsIInv => CountersAddUp
  <2> SUFFICES ASSUME HvpsIInv, at = "idle" PROVE cmds_sent = UInt16(cmds_acked + cmds_failed + garbled)
    BY DEF CountersAddUp
  <2>1. ~Awaited
    BY EmptySeq DEF Stages, Silence, NoReply, Awaited, ReplyLength
  <2>2. UInt16(cmds_sent + 0) = UInt16(cmds_acked + cmds_failed + garbled + 0)
    BY <2>1 DEF Counted
  <2>3. /\ cmds_sent \in Words /\ cmds_sent \in Nat
        /\ cmds_acked \in Nat /\ cmds_failed \in Nat /\ garbled \in Nat
    BY DEF HvpsTypeOK, RxTypeOK, Words
  <2>. QED
    BY <2>2, <2>3, UInt16Facts
<1>. QED
  BY <1>1, HvpsInvariant, PTL

(* A return value of 0 speaks for the command just sent. *)
THEOREM ResultsAreGenuine == ASSUME LongEnough PROVE HvpsSpec => []ResultIsGenuine
<1>1. HvpsIInv => ResultIsGenuine
  OBVIOUS
<1>. QED
  BY <1>1, HvpsInvariant, PTL

(* The error word names the command that was refused last. *)
THEOREM ErrorsAreNamed == ASSUME LongEnough PROVE HvpsSpec => []ErrorNamesCommand
<1>1. HvpsIInv => ErrorNamesCommand
  BY DEF Stages, ErrorNamesCommand
<1>. QED
  BY <1>1, HvpsInvariant, PTL
-----------------------------------------------------------------------------
\* Where a job that is to switch the output is, as long as every reply was good.
Switching ==
    (job \in Jobs /\ job.kind \in {"CONF", "TMP_VOLT"} /\ ~job.reset /\ clean) =>
        /\ step = 1 => at = "idle"
        /\ step = 2 => IF at = "idle" THEN ret = 0 /\ hvps_reply[2] = Value(on)
                       ELSE hvps_cmd.op = "HGS"
        /\ step = 3 => IF at = "idle" THEN on = job.on
                       ELSE hvps_cmd.op = IF job.on THEN "HON" ELSE "HOF"
        /\ step > 3 => /\ on = job.on
                       /\ at # "idle" => hvps_cmd.op \notin {"HON", "HOF"}
        /\ step >= 1

SwitchingJob == job.kind \in {"CONF", "TMP_VOLT"} /\ ~job.reset /\ clean

SwitchIInv == HvpsIInv /\ Switching

(* Most steps leave alone what a job that switches relies on. *)
LEMMA QuietSwitching ==
    ASSUME SwitchIInv, UNCHANGED <<job, step, clean, ret, hvps_cmd, on>>,
           (at' = "idle") <=> (at = "idle"), at = "idle" => hvps_reply' = hvps_reply
    PROVE  Switching'
BY DEF SwitchIInv, Switching

LEMMA CheckReplySwitching == ASSUME SwitchIInv, CheckReply PROVE Switching'
<1>1. UNCHANGED <<job, step, hvps_cmd, hvps_reply, on>> /\ at' = "idle" /\ at = "wait"
  BY DEF CheckReply, command, rxState, module
<1>2. clean' => clean /\ ReplyGood /\ ret' = 0
  BY DEF CheckReply
<1>3. hvps_reply_ready
  BY DEF CheckReply
<1>4. Answered
  BY <1>1, <1>3 DEF SwitchIInv, Stages, Prepared, Sending, Replying
<1>5. ReplyGood => /\ hvps_cmd.op = "HON" => on = TRUE
                   /\ hvps_cmd.op = "HOF" => on = FALSE
                   /\ hvps_cmd.op = "HGS" => hvps_reply[2] = Value(on)
  BY <1>4 DEF Answered, Truthful, ReplyGood, Queries
<1>. SUFFICES ASSUME job \in Jobs, SwitchingJob, clean'
              PROVE  /\ step # 1
                     /\ step = 2 => ret' = 0 /\ hvps_reply[2] = Value(on)
                     /\ step = 3 => on = job.on
                     /\ step > 3 => on = job.on
                     /\ step >= 1
  BY <1>1, <1>2 DEF Switching, SwitchingJob
<1>6. /\ step # 1 /\ step >= 1
      /\ step = 2 => hvps_cmd.op = "HGS"
      /\ step = 3 => hvps_cmd.op = IF job.on THEN "HON" ELSE "HOF"
      /\ step > 3 => on = job.on
  BY <1>1 DEF SwitchIInv, Switching, SwitchingJob
<1>7. job.on \in BOOLEAN
  BY DEF Jobs, SwitchingJob
<1>. QED
  BY <1>2, <1>5, <1>6, <1>7

LEMMA SendNextSwitching ==
    ASSUME StrayDigits = FALSE, SwitchIInv, SendNext
    PROVE  Switching'
<1>1. /\ UNCHANGED <<job, clean, hvps_reply, on>> /\ at = "idle" /\ step' = step + 1
      /\ step \in Nat /\ on \in BOOLEAN
  BY DEF SendNext, rxState, module, SwitchIInv, HvpsTypeOK, MainTypeOK, LineTypeOK
<1>. SUFFICES ASSUME job \in Jobs, SwitchingJob
              PROVE  /\ step' # 1
                     /\ step = 1 => at' # "idle" /\ hvps_cmd'.op = "HGS"
                     /\ step = 2 => IF at' = "idle" THEN on = job.on
                                    ELSE hvps_cmd'.op = IF job.on THEN "HON" ELSE "HOF"
                     /\ step > 2 => /\ on = job.on
                                    /\ at' # "idle" => hvps_cmd'.op \notin {"HON", "HOF"}
                     /\ step' >= 1
  BY <1>1 DEF Switching, SwitchingJob
<1>2. /\ step >= 1
      /\ step = 2 => ret = 0 /\ hvps_reply[2] = Value(on)
      /\ step >= 3 => on = job.on
  BY <1>1 DEF SwitchIInv, Switching, SwitchingJob
<1>3. PICK stray \in BOOLEAN :
        \/ Due(step, stray) = None /\ at' = at
        \/ Due(step, stray) \in {"HST", "HBV"} /\ at' = at
        \/ /\ Due(step, stray) # None
           /\ at' = "tx" /\ hvps_cmd'.op = Due(step, stray)
  BY Zenon DEF SendNext, Prepare, Cmd
<1>4. Due(step, stray) = SwitchingDue(step, stray)
  BY DEF Due, SwitchingJob
<1>5. CASE step = 1
  BY <1>1, <1>3, <1>4, <1>5 DEF SwitchingDue, None
<1>6. CASE step = 2
  <2>1. IsOn(stray) <=> on = TRUE
    BY <1>1, <1>2, <1>6, SymbolFacts DEF IsOn
  <2>2. job.on \in BOOLEAN
    BY DEF Jobs, SwitchingJob
  <2>3. Due(step, stray) = SwitchTo(IsOn(stray))
    BY <1>4, <1>6 DEF SwitchingDue
  <2>4. Due(step, stray) = IF job.on /\ on # TRUE THEN "HON"
                           ELSE IF ~job.on /\ on = TRUE THEN "HOF" ELSE None
    BY <2>1, <2>3 DEF SwitchTo
  <2>5. Due(step, stray) = None => on = job.on
    <3>1. Due(step, stray) = None => ~(job.on /\ on # TRUE) /\ ~(~job.on /\ on = TRUE)
      BY <2>4 DEF None
    <3>. QED
      BY <1>1, <2>2, <3>1
  <2>6. Due(step, stray) # None => Due(step, stray) = IF job.on THEN "HON" ELSE "HOF"
    BY <2>4
  <2>7. Due(step, stray) \notin {"HST", "HBV"}
    BY <2>4 DEF None
  <2>8. at' = "idle" => Due(step, stray) = None
    BY <1>3, <2>7
  <2>9. at' # "idle" => Due(step, stray) # None /\ hvps_cmd'.op = Due(step, stray)
    BY <1>1, <1>3, <2>7
  <2>. QED
    BY <1>1, <1>6, <2>5, <2>6, <2>8, <2>9
<1>7. CASE step > 2
  <2>1. SwitchingDue(step, stray) \in {None, "HST", "HBV", "HCM1"}
    BY <1>1, <1>7 DEF SwitchingDue, SwitchingJob
  <2>. QED
    BY <1>1, <1>2, <1>3, <1>4, <1>7, <2>1
<1>. QED
  BY <1>1, <1>2, <1>5, <1>6, <1>7

LEMMA RespondSwitching == ASSUME SwitchIInv, Respond PROVE Switching'
<1>1. UNCHANGED <<job, step, clean, at, ret, hvps_cmd, hvps_reply>>
  BY DEF Respond, client, command, rxState
<1>2. at # "idle" /\ inbox = hvps_cmd
  BY DEF Respond, SwitchIInv, Stages, Prepared, Sending, Replying, Answered, Silence
<1>3. hvps_cmd.op \notin {"HON", "HOF"} => on' = on
  BY <1>2 DEF Respond
<1>. QED
  BY <1>1, <1>2, <1>3 DEF SwitchIInv, Switching

(* Every step preserves it, as long as what follows the digits of the status *)
(* on the stack is not a digit.                                              *)
LEMMA SwitchNext ==
    ASSUME LongEnough, StrayDigits = FALSE, SwitchIInv, [HvpsNext]_hvpsVars
    PROVE  SwitchIInv'
<1> USE DEF client, command, rxState, module, uartVars
<1>1. HvpsIInv'
  BY HvpsNextIInv DEF SwitchIInv
<1>2. CASE StartJob
  <2>1. at' = "idle" /\ step' = 1
    BY <1>2 DEF StartJob, SwitchIInv, Stages
  <2>. QED
    BY <1>1, <2>1 DEF SwitchIInv, Switching
<1>3. CASE EndJob
  <2>1. job'.kind = None
    BY <1>3 DEF EndJob, NoJob
  <2>. QED
    BY <1>1, <2>1 DEF SwitchIInv, Switching, None
<1>4. CASE Transmit
  BY <1>1, <1>4, QuietSwitching DEF Transmit, SwitchIInv
<1>5. CASE CountSent \/ ClearReady
  BY <1>1, <1>5, QuietSwitching DEF CountSent, ClearReady, SwitchIInv
<1>6. CASE CheckReply
  BY <1>1, <1>6, CheckReplySwitching DEF SwitchIInv
<1>7. CASE SendNext
  BY <1>1, <1>7, SendNextSwitching DEF SwitchIInv
<1>8. CASE ReceiveSymbol \/ SendSymbol
  BY <1>1, <1>8, QuietSwitching DEF ReceiveSymbol, SendSymbol, SwitchIInv
<1>9. CASE Respond
  BY <1>1, <1>9, RespondSwitching DEF SwitchIInv
<1>10. CASE UART0_RXHandler
  <2>1. at # "idle"
    BY <1>10 DEF UART0_RXHandler, MSS_UART_isr, SwitchIInv, Stages, NoReply
  <2>. QED
    BY <1>1, <1>10, <2>1, QuietSwitching DEF UART0_RXHandler, SwitchIInv
<1>11. CASE UNCHANGED hvpsVars
  BY <1>1, <1>11, QuietSwitching DEF hvpsVars, SwitchIInv
<1>. QED
  BY <1>2, <1>3, <1>4, <1>5, <1>6, <1>7, <1>8, <1>9, <1>10, <1>11 DEF HvpsNext, Main, Module

(* When every command was acknowledged, HVPS_CONF and HVPS_TMP_VOLT leave    *)
(* the output as the OBC asked, wherever the replies were split and whenever *)
(* they came.                                                                *)
THEOREM OutputIsAsAsked ==
    ASSUME LongEnough, StrayDigits = FALSE
    PROVE  HvpsSpec => SwitchedAsAsked
<1>1. HvpsInit => SwitchIInv
  <2> SUFFICES ASSUME HvpsInit PROVE SwitchIInv
    OBVIOUS
  <2>1. job.kind = None
    BY DEF HvpsInit, NoJob
  <2>. QED
    BY <2>1, HvpsInitIInv DEF SwitchIInv, Switching, None
<1>2. SwitchIInv /\ [HvpsNext]_hvpsVars => SwitchIInv'
  BY SwitchNext
<1>3. SwitchIInv /\ [HvpsNext]_hvpsVars
        => [(EndJob /\ clean /\ job.kind \in {"CONF", "TMP_VOLT"} /\ ~job.reset)
              => on = job.on]_hvpsVars
  <2> SUFFICES ASSUME SwitchIInv, EndJob, SwitchingJob PROVE on = job.on
    BY DEF SwitchingJob
  <2>1. job \in Jobs /\ step > 3 /\ at = "idle"
    BY DEF EndJob, LastStep, SwitchIInv, HvpsTypeOK, MainTypeOK
  <2>. QED
    BY <2>1 DEF SwitchIInv, Switching, SwitchingJob
<1>. QED
  BY <1>1, <1>2, <1>3, PTL DEF HvpsSpec, SwitchedAsAsked
=============================================================================
