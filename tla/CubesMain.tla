----------------------------- MODULE CubesMain -----------------------------
(***************************************************************************)
(* The hand-over of MSP commands from the I2C1 interrupt to the infinite   *)
(* loop of main().                                                         *)
(*                                                                         *)
(* The msp_exprecv_xxx and msp_expsend_xxx callbacks run in the interrupt. *)
(* Each leaves its opcode in one of three one-place mailboxes, and the     *)
(* bytes received in one buffer that all commands share.  The loop polls   *)
(* the mailboxes, acts, and clears the mailbox it served.  No interrupt is *)
(* ever masked: the loop can be interrupted between any two of its steps.  *)
(*                                                                         *)
(* The callbacks come as MspHandler promises.  That the library calls them *)
(* in pairs of a receive and a send callback is left out: the loop may     *)
(* also run between the two.                                               *)
(***************************************************************************)
EXTENDS MspHandler, FiniteSets

CONSTANTS RECV_MAXLEN,   \* size of recv_data
          MaxCommands,   \* bound: OBC Sends and system commands carried out
          Disciplines    \* what an OBC may wait for before the next command

ASSUME RecvAssumption == RECV_MAXLEN \in Nat \ {0}
ASSUME CommandsAssumption == MaxCommands \in Nat
\* "none": nothing; "mailbox": its mailbox is free; "idle": both are free.
ASSUME DisciplineAssumption == Disciplines \subseteq {"none", "mailbox", "idle"}

VARIABLES
    discipline,    \* what this OBC waits for
    has_send, has_recv, has_syscommand,   \* opcode, or Empty
    recv_data,     \* the bytes received; a byte is the number of its command
    at,            \* where the loop is
    op,            \* the opcode the loop switches on
    got,           \* the bytes of recv_data the loop has read for it
    completed,     \* history: the commands acknowledged to the OBC, in order
    executed       \* history: the commands the loop acted upon, in order

mailboxes == <<has_send, has_recv, has_syscommand>>
mainVars == <<discipline, tr, calls, mailboxes, recv_data, at, op, got, completed, executed>>

Empty == "0"

\* An opcode has one type, and none of them is that of MSP_OP_NULL.
ASSUME TypesAssumption ==
    /\ SendOps \cap SysOps = {} /\ SendOps \cap ReqOps = {} /\ ReqOps \cap SysOps = {}
    /\ Empty \notin SendOps \cup SysOps \cup ReqOps
ASSUME FramesAssumption == Lengths \subseteq Nat /\ MTU \in Nat \ {0}

Index == 0..(RECV_MAXLEN - 1)
Zeros == [i \in Index |-> 0]
Command(o, data) == [op |-> o, data |-> data]
-----------------------------------------------------------------------------
(* Seeded faults. *)

Cleared_Not == recv_data

Written_OffByOne(off, len) ==
    [i \in Index |-> IF off <= i /\ i <= off + len
                     THEN Len(completed) + 1 ELSE recv_data[i]]

Clear_Never ==
    /\ at = "clear"
    /\ at' = "has_send"
    /\ UNCHANGED <<discipline, tr, calls, mailboxes, recv_data, op, got, completed, executed>>

Clear_All ==
    /\ at = "clear"
    /\ at' = "has_send"
    /\ has_send' = Empty
    /\ has_recv' = Empty
    /\ has_syscommand' = Empty
    /\ UNCHANGED <<discipline, tr, calls, recv_data, op, got, completed, executed>>
-----------------------------------------------------------------------------
MainInit ==
    /\ Init
    /\ discipline \in Disciplines
    /\ has_send = Empty
    /\ has_recv = Empty
    /\ has_syscommand = Empty
    /\ recv_data = Zeros
    /\ at = "has_send"
    /\ op = Empty
    /\ got = << >>
    /\ completed = << >>
    /\ executed = << >>
-----------------------------------------------------------------------------
(* The callbacks, in the interrupt. *)

Made(fn) == \E i \in DOMAIN calls' : calls'[i].fn = fn
Last == calls'[Len(calls')]

\* msp_exprecv_start clears the whole buffer; msp_exprecv_data drops the bytes
\* that do not fit.
Cleared == Zeros
Written(off, len) ==
    [i \in Index |-> IF off <= i /\ i < off + len
                     THEN Len(completed) + 1 ELSE recv_data[i]]

\* The bytes the OBC sent in the transaction that is open, and zeros.
Sent == [i \in Index |-> IF i < tr.len THEN Len(completed) + 1 ELSE 0]

msp_exprecv_callbacks ==
    /\ recv_data' = CASE Made("exprecv_start") -> Cleared
                      [] Made("exprecv_data")  -> Written(Last.off, Last.len)
                      [] OTHER                 -> recv_data
    /\ has_recv' = IF Made("exprecv_complete") THEN Last.op ELSE has_recv
    /\ has_syscommand' = IF Made("exprecv_syscommand") THEN Last.op
                         ELSE has_syscommand
    /\ completed' = IF Made("exprecv_complete") \/ Made("exprecv_syscommand")
                    THEN Append(completed, Command(Last.op,
                             IF Made("exprecv_complete") THEN Sent ELSE Zeros))
                    ELSE completed

msp_expsend_start ==
    has_send' = IF Made("expsend_start") THEN Last.op ELSE has_send

\* What the OBC waits for before it sends another command.
MayOpen ==
    /\ Len(completed) < MaxCommands
    /\ discipline = "mailbox" =>
        /\ Made("exprecv_start") => has_recv = Empty
        /\ Made("exprecv_syscommand") => has_syscommand = Empty
    /\ discipline = "idle" => has_recv = Empty /\ has_syscommand = Empty

I2C1_SlaveWriteHandler ==
    /\ Next
    /\ (Made("exprecv_start") \/ Made("exprecv_syscommand")) => MayOpen
    /\ msp_exprecv_callbacks
    /\ msp_expsend_start
    /\ UNCHANGED <<discipline, at, op, got, executed>>
-----------------------------------------------------------------------------
(* The loop: if (has_send) ... else if (has_recv) ... else if (has_syscommand). *)
(* Each test is a step of its own: a mailbox found empty may be full by the    *)
(* time the next one is tested.                                                *)

TakeSend ==
    /\ at = "has_send"
    /\ has_send # Empty
    /\ at' = "send"
    /\ op' = has_send
    /\ UNCHANGED <<discipline, tr, calls, mailboxes, recv_data, got, completed, executed>>

TakeRecv ==
    /\ at = "has_recv"
    /\ has_recv # Empty
    /\ at' = "recv"
    /\ op' = has_recv
    /\ got' = << >>
    /\ UNCHANGED <<discipline, tr, calls, mailboxes, recv_data, completed, executed>>

TakeSyscommand ==
    /\ at = "has_syscommand"
    /\ has_syscommand # Empty
    /\ at' = "sys"
    /\ op' = has_syscommand
    /\ UNCHANGED <<discipline, tr, calls, mailboxes, recv_data, got, completed, executed>>

Skip(mailbox, from, to) ==
    /\ at = from
    /\ mailbox = Empty
    /\ at' = to
    /\ UNCHANGED <<discipline, tr, calls, mailboxes, recv_data, op, got, completed, executed>>

SkipSend == Skip(has_send, "has_send", "has_recv")
SkipRecv == Skip(has_recv, "has_recv", "has_syscommand")
SkipSyscommand == Skip(has_syscommand, "has_syscommand", "has_send")

\* A command reads the bytes of recv_data one after the other.
ReadByte ==
    /\ at = "recv"
    /\ Len(got) < RECV_MAXLEN
    /\ got' = Append(got, recv_data[Len(got)])
    /\ UNCHANGED <<discipline, tr, calls, mailboxes, recv_data, at, op, completed, executed>>

ActOnRecv ==
    /\ at = "recv"
    /\ Len(got) = RECV_MAXLEN
    /\ executed' = Append(executed, Command(op, [i \in Index |-> got[i + 1]]))
    /\ at' = "clear"
    /\ UNCHANGED <<discipline, tr, calls, mailboxes, recv_data, op, got, completed>>

ActOnSyscommand ==
    /\ at = "sys"
    /\ executed' = Append(executed, Command(op, Zeros))
    /\ at' = "clear"
    /\ UNCHANGED <<discipline, tr, calls, mailboxes, recv_data, op, got, completed>>

\* The reply buffer is prepared (CubesData).
ActOnSend ==
    /\ at = "send"
    /\ at' = "clear"
    /\ UNCHANGED <<discipline, tr, calls, mailboxes, recv_data, op, got, completed, executed>>

\* The mailbox that was served is cleared, whatever it holds by now.
Clear ==
    /\ at = "clear"
    /\ at' = "has_send"
    /\ has_send' = IF op \in ReqOps THEN Empty ELSE has_send
    /\ has_recv' = IF op \in SendOps THEN Empty ELSE has_recv
    /\ has_syscommand' = IF op \in SysOps THEN Empty ELSE has_syscommand
    /\ UNCHANGED <<discipline, tr, calls, recv_data, op, got, completed, executed>>

Loop == \/ TakeSend \/ TakeRecv \/ TakeSyscommand
        \/ SkipSend \/ SkipRecv \/ SkipSyscommand
        \/ ReadByte \/ ActOnRecv \/ ActOnSyscommand \/ ActOnSend \/ Clear
-----------------------------------------------------------------------------
MainNext == I2C1_SlaveWriteHandler \/ Loop

\* The loop keeps running, and does not find a new request of the OBC each time
\* it comes round.
MainSpec ==
    /\ MainInit
    /\ [][MainNext]_mainVars
    /\ WF_mainVars(Loop)
    /\ SF_mainVars(SkipSend)
-----------------------------------------------------------------------------
HowMany(log, ops) == Cardinality({i \in DOMAIN log : log[i].op \in ops})

\* Whatever the OBC does, no command is acted upon more often than it was
\* completed: clearing the mailbox after the command never brings one back.
AtMostOnce ==
    \A o \in SysOps \cup SendOps : HowMany(executed, {o}) <= HowMany(completed, {o})

\* README.md: "msp_exprecv_complete informs the main loop the data is ready to
\* be processed".  They are if the OBC waits: what the loop acts upon is a command
\* as it was completed.
ProcessesWhatCompleted ==
    discipline # "none" =>
    \A i \in DOMAIN executed : \E j \in DOMAIN completed : executed[i] = completed[j]

Pending(mailbox, stage) == IF mailbox # Empty /\ ~(at = "clear" /\ op \in stage)
                           THEN 1 ELSE 0

\* No command is lost if the OBC waits: those completed and not yet acted upon are the ones in
\* the mailboxes.
NoneLost ==
    discipline # "none" =>
    /\ HowMany(completed, SendOps) = HowMany(executed, SendOps) + Pending(has_recv, SendOps)
    /\ HowMany(completed, SysOps) = HowMany(executed, SysOps) + Pending(has_syscommand, SysOps)

\* If the OBC waits for both, the loop acts upon the commands in the order in which the OBC gave them,
\* each with the bytes that came with it.
InOrder ==
    discipline = "idle" =>
    /\ Len(executed) <= Len(completed)
    /\ \A i \in DOMAIN executed : executed[i] = completed[i]

\* And every command that was completed is acted upon in the end.
EveryCommandExecuted ==
    \A n \in 1..MaxCommands :
        (discipline = "idle" /\ Len(completed) >= n) ~> Len(executed) >= n
=============================================================================
