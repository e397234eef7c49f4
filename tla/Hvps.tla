-------------------------------- MODULE Hvps --------------------------------
(***************************************************************************)
(* The bias-voltage module driver (hvps/hvps_c11204-02.c) and the commands *)
(* of main() that use it.                                                  *)
(*                                                                         *)
(* The loop of main() sends one command over the UART and waits for the    *)
(* reply, which the UART interrupt collects in pieces of any size.  The    *)
(* C11204-02 itself is not part of the repository; it is modelled from the *)
(* replies the driver distinguishes: the command in lower case, "hxx", or  *)
(* garbage.                                                                *)
(***************************************************************************)
EXTENDS MssUart

CONSTANTS MaxCmds,     \* bound: commands sent before the last job starts
          HVPS_REPLY_SIZE,   \* symbols hvps_reply has room for
          EarlyReply,  \* whether the loop may be held up by other interrupts
                       \* until the whole reply is there
          LostCR,      \* whether a reply may come without its carriage return
          StrayDigits  \* whether what follows valstr on the stack may be a digit

ASSUME MaxCmdsAssumption == MaxCmds \in Nat
ASSUME ReplySizeAssumption == HVPS_REPLY_SIZE \in Nat \ {0}
ASSUME LineAssumption == {EarlyReply, LostCR, StrayDigits} \subseteq BOOLEAN

VARIABLES
    job, step, clean,   \* what main() is doing; history: every reply was good
    at,                 \* where send_cmd_and_check_reply is
    ret,                \* what it returned last
    hvps_cmd, last_cmd, last_cmd_err,
    hvps_reply, hvps_reply_ready, rx_size,
    cmds_sent, cmds_acked, cmds_failed,
    garbled,            \* history: replies that were neither
    inbox, received,    \* the command on the line, and how much of it has come
    line,               \* the reply on the line
    on,                 \* the module: its output is switched on
    lastDone, lastFailed   \* history of the module: commands done and refused

client  == <<job, step, clean>>
command == <<hvps_cmd, last_cmd>>
rxState == <<hvps_reply, rx_size, cmds_acked, cmds_failed, garbled, last_cmd_err>>
module  == <<inbox, received, line, on, lastDone, lastFailed>>
hvpsVars == <<client, at, ret, command, rxState, hvps_reply_ready, cmds_sent, module,
              uartVars>>

None == "none"
NoJob == [kind |-> None]
Voltages == {"ok", "high"}      \* at most HVPS_MAX_VB, or more
Cmd(op, vb) == [op |-> op, vb |-> vb]
NoCmd == Cmd(None, "ok")

\* Symbols of a reply: the letters, the value, the carriage return.
Letters(op) == [letters |-> op]
Value(isOn) == [value |-> isOn]
CR == Letters("CR")

\* A command is as long as its parameters are; the reply to a query has a value.
CmdLength(op) == CASE op = "HST" -> 4 [] op \in {"HBV", "HCM1"} -> 2 [] OTHER -> 1
Queries == {"HGV", "HGC", "HGT", "HGS", "HRT"}
UInt16(n) == n % 65536

\* CONF and TMP_VOLT switch the output, and set a voltage; HK only reads.
Jobs == [kind : {"CONF", "TMP_VOLT"}, on : BOOLEAN, reset : BOOLEAN, vb : Voltages]
        \cup [kind : {"ACTIVE", "SLEEP", "HK"}]
HkCmds == <<"HGV", "HGC", "HGT", "HGS", "HRT">>
-----------------------------------------------------------------------------
(* Seeded faults. *)

Prepare_NoIndex(c) ==
    /\ hvps_cmd' = c
    /\ at' = "tx"
    /\ tx_size' = CmdLength(c.op)
    /\ UNCHANGED <<last_cmd, tx_fifo, rx_fifo>>

ReplyGood_NotRefused == hvps_reply[1] # Letters("hxx")

SwitchTo_Swapped(isOn) == IF job.on /\ isOn THEN "HON"
                          ELSE IF ~job.on /\ ~isOn THEN "HOF" ELSE None

Acked_NotRefused(reply) == reply[1] # Letters("hxx")

RxSizeAfter_Kept == rx_size
-----------------------------------------------------------------------------
HvpsInit ==
    /\ job = NoJob /\ step = 0 /\ clean = TRUE
    /\ at = "idle" /\ ret = 0
    /\ hvps_cmd = NoCmd /\ last_cmd = None /\ last_cmd_err = None
    /\ hvps_reply = [k \in 1..HVPS_REPLY_SIZE |-> Letters(None)]
    /\ hvps_reply_ready = FALSE /\ rx_size = 0
    /\ cmds_sent = 0 /\ cmds_acked = 0 /\ cmds_failed = 0 /\ garbled = 0
    /\ MSS_UART_init
    /\ inbox = NoCmd /\ received = 0 /\ line = << >>
    /\ on \in BOOLEAN
    /\ lastDone = None /\ lastFailed = None
-----------------------------------------------------------------------------
(* send_cmd_and_check_reply *)

\* voltage_less_than looks at the command sent last, not at the one to send, and
\* reads 0 V from all but an HST (of an HBV it takes the digits from the V on).
\* From an HST it takes four digits, one place too early, into an array without
\* a terminator: any verdict may come out.
VoltageLess(verdict) == hvps_cmd.op # "HST" => verdict

Prepare(c) ==
    /\ hvps_cmd' = c
    /\ last_cmd' = c.op
    /\ at' = "tx"
    /\ tx_size' = CmdLength(c.op)
    /\ UNCHANGED <<tx_fifo, rx_fifo>>

Transmit ==
    /\ at = "tx"
    /\ MSS_UART_polled_tx
    /\ at' = IF tx_size' = 0 THEN "count" ELSE "tx"
    /\ inbox' = hvps_cmd
    /\ UNCHANGED <<client, ret, command, rxState, hvps_reply_ready, cmds_sent,
                   rx_fifo, received, line, on, lastDone, lastFailed>>

CountSent ==
    /\ at = "count"
    /\ at' = "clear"
    /\ cmds_sent' = UInt16(cmds_sent + 1)
    /\ UNCHANGED <<client, ret, command, rxState, hvps_reply_ready, module, uartVars>>

ClearReady ==
    /\ at = "clear"
    /\ at' = "wait"
    /\ hvps_reply_ready' = FALSE
    /\ UNCHANGED <<client, ret, command, rxState, cmds_sent, module, uartVars>>

\* The reply is good when it is the command in lower case.
ReplyGood == hvps_reply[1] = Letters(hvps_cmd.op)

CheckReply ==
    /\ at = "wait" /\ hvps_reply_ready
    /\ at' = "idle"
    /\ ret' = IF ReplyGood THEN 0 ELSE 1
    /\ clean' = (clean /\ ReplyGood)
    /\ UNCHANGED <<job, step, command, rxState, hvps_reply_ready, cmds_sent, module, uartVars>>
-----------------------------------------------------------------------------
(* The callers in main(). *)

StartJob ==
    /\ job = NoJob
    /\ cmds_sent < MaxCmds
    /\ job' \in Jobs
    /\ step' = 1
    /\ clean' = TRUE
    /\ UNCHANGED <<at, ret, command, rxState, hvps_reply_ready, cmds_sent, module, uartVars>>

\* hvps_is_on: a status that could not be read counts as on.  The four digits are
\* copied without a terminator, and a digit that happens to follow counts.
IsOn(stray) ==
    \/ ret # 0
    \/ IF StrayDigits THEN stray ELSE hvps_reply[2] = Value(TRUE)

SwitchTo(isOn) == IF job.on /\ ~isOn THEN "HON"
                  ELSE IF ~job.on /\ isOn THEN "HOF" ELSE None

\* HVPS_CONF and HVPS_TMP_VOLT: the command of their step n.
SwitchingDue(n, stray) ==
    CASE n = 1 -> "HGS"
      [] n = 2 -> SwitchTo(IsOn(stray))
      [] n = 3 /\ job.reset -> "HGS"
      [] n = 4 /\ job.reset /\ IsOn(stray) -> "HRE"
      [] n = 5 /\ job.on /\ ~job.reset -> IF job.kind = "CONF" THEN "HST" ELSE "HBV"
      [] n = 6 /\ job.on /\ ~job.reset /\ job.kind = "CONF" -> "HCM1"
      [] OTHER -> None

\* The command a job sends in its step n, None when it sends none there.
Due(n, stray) ==
    CASE job.kind = "HK"     -> IF n \in DOMAIN HkCmds THEN HkCmds[n] ELSE None
      [] job.kind = "ACTIVE" -> IF n = 1 THEN "HON" ELSE None
      [] job.kind = "SLEEP"  -> IF n = 1 THEN "HOF" ELSE None
      [] OTHER               -> SwitchingDue(n, stray)

LastStep == 6

SendNext ==
    /\ job # NoJob /\ at = "idle" /\ step <= LastStep
    /\ step' = step + 1
    /\ \E stray \in BOOLEAN :
       LET op == Due(step, stray)
           c == Cmd(op, IF op \in {"HST", "HBV"} THEN job.vb ELSE "ok") IN
        \/ op = None /\ UNCHANGED <<at, ret, command, uartVars>>
        \/ op \in {"HST", "HBV"} /\ ~VoltageLess(FALSE) /\ ret' = -1
             /\ UNCHANGED <<at, command, uartVars>>
        \/ op # None /\ (op \in {"HST", "HBV"} => VoltageLess(TRUE)) /\ Prepare(c)
             /\ UNCHANGED ret
    /\ UNCHANGED <<job, clean, rxState, hvps_reply_ready, cmds_sent, module>>

EndJob ==
    /\ job # NoJob /\ at = "idle" /\ step > LastStep
    /\ job' = NoJob
    /\ step' = 0
    /\ UNCHANGED <<clean, at, ret, command, rxState, hvps_reply_ready, cmds_sent, module, uartVars>>
-----------------------------------------------------------------------------
(* The module: it answers every command.  The line carries both ways. *)

ReceiveSymbol ==
    /\ tx_fifo > 0
    /\ tx_fifo' = tx_fifo - 1
    /\ received' = received + 1
    /\ UNCHANGED <<client, at, ret, command, rxState, hvps_reply_ready, cmds_sent, inbox,
                   line, on, lastDone, lastFailed, tx_size, rx_fifo>>

Terminated(reply) == IF LostCR THEN {reply, Append(reply, CR)} ELSE {Append(reply, CR)}

Respond ==
    /\ inbox # NoCmd /\ received = CmdLength(inbox.op)
    /\ inbox' = NoCmd
    /\ received' = 0
    /\ \/ /\ on' = CASE inbox.op = "HON" -> TRUE
                     [] inbox.op = "HOF" -> FALSE
                     [] OTHER            -> on
          /\ lastDone' = inbox.op
          /\ line' \in Terminated(<<Letters(inbox.op)>>
                          \o IF inbox.op \in Queries THEN <<Value(on)>> ELSE << >>)
          /\ UNCHANGED lastFailed
       \/ /\ lastFailed' = inbox.op
          /\ line' \in Terminated(<<Letters("hxx"), Value(FALSE)>>)
          /\ UNCHANGED <<on, lastDone>>
       \/ /\ line' \in Terminated(<<Letters("garbage")>>)
          /\ UNCHANGED <<on, lastDone, lastFailed>>
    /\ UNCHANGED <<client, at, ret, command, rxState, hvps_reply_ready, cmds_sent, uartVars>>

\* The end of the reply does not come before the loop has cleared the ready flag.
SendSymbol ==
    /\ line # << >>
    /\ (Len(line) = 1 /\ at \in {"tx", "count", "clear"}) => EarlyReply
    /\ rx_fifo' = Append(rx_fifo, Head(line))
    /\ line' = Tail(line)
    /\ UNCHANGED <<client, at, ret, command, rxState, hvps_reply_ready, cmds_sent, inbox,
                   received, on, lastDone, lastFailed, tx_size, tx_fifo>>
-----------------------------------------------------------------------------
(* The receive interrupt. *)

\* What is read goes behind what was read before, as far as there is room.
Put(bytes) ==
    [k \in DOMAIN hvps_reply |->
        IF rx_size < k /\ k <= rx_size + Len(bytes) THEN bytes[k - rx_size]
        ELSE hvps_reply[k]]

Acked(reply) == reply[1] = Letters(hvps_cmd.op)
Refused(reply) == reply[1] = Letters("hxx")

RxSizeAfter == 0

Count(reply) ==
    /\ cmds_acked' = IF Acked(reply) THEN UInt16(cmds_acked + 1) ELSE cmds_acked
    /\ cmds_failed' = IF ~Acked(reply) /\ Refused(reply) THEN UInt16(cmds_failed + 1)
                      ELSE cmds_failed
    /\ last_cmd_err' = IF ~Acked(reply) /\ Refused(reply) THEN last_cmd ELSE last_cmd_err
    /\ garbled' = IF reply[1] = Letters("garbage") THEN garbled + 1 ELSE garbled

\* The reply is complete when the symbol read last is a carriage return.
RxHandler ==
    LET bytes == MSS_UART_get_rx(HVPS_REPLY_SIZE) IN
    /\ hvps_reply' = Put(bytes)
    /\ rx_fifo' = SubSeq(rx_fifo, Len(bytes) + 1, Len(rx_fifo))
    /\ \/ /\ bytes[Len(bytes)] = CR
          /\ Count(hvps_reply')
          /\ hvps_reply_ready' = TRUE
          /\ rx_size' = RxSizeAfter
       \/ /\ bytes[Len(bytes)] # CR
          /\ rx_size' = rx_size + Len(bytes)
          /\ UNCHANGED <<cmds_acked, cmds_failed, garbled, last_cmd_err, hvps_reply_ready>>

UART0_RXHandler ==
    /\ MSS_UART_isr(RxHandler)
    /\ UNCHANGED <<client, at, ret, command, cmds_sent, module, tx_size, tx_fifo>>
-----------------------------------------------------------------------------
Main == Transmit \/ CountSent \/ ClearReady \/ CheckReply \/ SendNext \/ EndJob
Module == ReceiveSymbol \/ Respond \/ SendSymbol
HvpsNext == StartJob \/ Main \/ Module \/ UART0_RXHandler

\* main() keeps running, and the module answers every command.
HvpsSpec ==
    /\ HvpsInit
    /\ [][HvpsNext]_hvpsVars
    /\ WF_hvpsVars(Main) /\ WF_hvpsVars(Module) /\ WF_hvpsVars(UART0_RXHandler)
-----------------------------------------------------------------------------
\* However a reply is split, what is read of it fits behind what was read before: the
\* size MSS_UART_get_rx is told, that of the whole of hvps_reply, does no harm.
ReplyFits == rx_size + Len(rx_fifo) <= HVPS_REPLY_SIZE

\* The counters in the HK add up: between commands every command sent has been
\* counted as acknowledged or as failed, or its reply was garbage.
CountersAddUp ==
    at = "idle" => cmds_sent = UInt16(cmds_acked + cmds_failed + garbled)

\* A return value of 0 speaks for the command just sent: the module carried it
\* out.  No reply to an earlier command is taken for it.
ResultIsGenuine ==
    (at = "idle" /\ ret = 0 /\ hvps_cmd # NoCmd) => lastDone = hvps_cmd.op

\* The error word in the HK names the command the module refused last.
ErrorNamesCommand ==
    at = "idle" => last_cmd_err = lastFailed

\* When every command was acknowledged and no reset was asked for, HVPS_CONF and
\* HVPS_TMP_VOLT leave the output as the OBC asked.
SwitchedAsAsked ==
    [][(EndJob /\ clean /\ job.kind \in {"CONF", "TMP_VOLT"} /\ ~job.reset)
          => on = job.on]_hvpsVars

\* main() never waits for ever.
EveryJobEnds == job # NoJob ~> job = NoJob

\* hvps_set_temp_corr_factor: "-1 if the bias voltage to be applied is greater
\* than HVPS_MAX_VB".  No such voltage is ever sent to the module.
NoOvervoltage == inbox.vb = "ok"
=============================================================================
