-------------------------- MODULE CubesMain_proofs --------------------------
(***************************************************************************)
(* Proofs about the hand-over of commands to the loop of main(), for any   *)
(* opcodes, lengths and size of the buffer, any number of commands, and    *)
(* the loop interrupted anywhere.                                          *)
(***************************************************************************)
EXTENDS CubesMain, FiniteSetTheorems, SequenceTheorems, TLAPS

USE RecvAssumption, TypesAssumption, FramesAssumption, DisciplineAssumption

AllOps == SendOps \cup SysOps \cup ReqOps
Commands == [op : SendOps \cup SysOps, data : [Index -> Nat]]

Receiving == [dir : {"recv"}, op : SendOps, len : Lengths, off : Nat]
Sending == [dir : {"send"}, op : ReqOps, len : Lengths, off : Int]

MainTypeOK ==
    /\ tr \in {NoTransaction} \cup Receiving \cup Sending
    /\ discipline \in Disciplines
    /\ has_send \in ReqOps \cup {Empty}
    /\ has_recv \in SendOps \cup {Empty}
    /\ has_syscommand \in SysOps \cup {Empty}
    /\ recv_data \in [Index -> Nat]
    /\ at \in {"has_send", "has_recv", "has_syscommand", "send", "recv", "sys", "clear"}
    /\ got \in Seq(Nat)
    /\ completed \in Seq(Commands)
    /\ executed \in Seq(Commands)
    /\ at = "send" => op \in ReqOps
    /\ at = "recv" => op \in SendOps
    /\ at = "sys" => op \in SysOps
    /\ at = "clear" => op \in AllOps

\* What has come of the transaction that is open is in the buffer, and nothing else.
Arriving ==
    tr.dir = "recv" =>
        recv_data = [i \in Index |-> IF i < tr.off THEN Len(completed) + 1 ELSE 0]

\* A command that is to be carried out yet.
Due(o, mailbox, stage, ops) ==
    IF at = stage THEN op = o ELSE IF at = "clear" /\ op \in ops THEN FALSE ELSE mailbox = o

DueRecv(o) == Due(o, has_recv, "recv", SendOps)
DueSys(o) == Due(o, has_syscommand, "sys", SysOps)

OwedRecv(o) == IF DueRecv(o) THEN 1 ELSE 0
OwedSys(o) == IF DueSys(o) THEN 1 ELSE 0

NoneTwice ==
    /\ \A o \in SendOps : HowMany(executed, {o}) + OwedRecv(o) <= HowMany(completed, {o})
    /\ \A o \in SysOps : HowMany(executed, {o}) + OwedSys(o) <= HowMany(completed, {o})

AnyIInv == MainTypeOK /\ Arriving /\ NoneTwice
-----------------------------------------------------------------------------
\* A mailbox that an OBC waits for is not filled again before it is cleared, and the
\* buffer does not change while there is a command in it.
Kept ==
    /\ tr.dir = "recv" => has_recv = Empty
    /\ at = "recv" \/ (at = "clear" /\ op \in SendOps) => has_recv = op
    /\ at = "sys" \/ (at = "clear" /\ op \in SysOps) => has_syscommand = op

Intact ==
    /\ has_recv # Empty => \E j \in DOMAIN completed : completed[j] = Command(has_recv, recv_data)
    /\ has_syscommand # Empty => \E j \in DOMAIN completed : completed[j] = Command(has_syscommand, Zeros)
    /\ at = "recv" => Len(got) <= RECV_MAXLEN /\ \A k \in DOMAIN got : got[k] = recv_data[k - 1]

PatientIInv == AnyIInv /\ (discipline # "none" => Kept /\ Intact /\ NoneLost /\ ProcessesWhatCompleted)
-----------------------------------------------------------------------------
\* There is one command in the two mailboxes at most: the last one.
Open(mailbox, stage) == mailbox # Empty /\ ~(at = "clear" /\ op \in stage)

InTurn ==
    LET recvOpen == Open(has_recv, SendOps)
        sysOpen == Open(has_syscommand, SysOps) IN
    /\ has_recv = Empty \/ has_syscommand = Empty
    /\ tr.dir = "recv" => has_recv = Empty /\ has_syscommand = Empty
    /\ Len(completed) = Len(executed) + IF recvOpen \/ sysOpen THEN 1 ELSE 0
    /\ recvOpen => completed[Len(completed)] = Command(has_recv, recv_data)
    /\ sysOpen => completed[Len(completed)] = Command(has_syscommand, Zeros)

IdleIInv == PatientIInv /\ (discipline = "idle" => InTurn /\ InOrder)
-----------------------------------------------------------------------------
(* One entry more in a log is counted if its opcode is one of those meant. *)
LEMMA HowManyAppend ==
    ASSUME NEW log \in Seq(Commands), NEW entry \in Commands, NEW ops
    PROVE  /\ HowMany(log, ops) \in Nat
           /\ HowMany(Append(log, entry), ops)
                = HowMany(log, ops) + IF entry.op \in ops THEN 1 ELSE 0
<1> DEFINE A == {i \in DOMAIN log : log[i].op \in ops}
           n == Len(log)
           longer == Append(log, entry)
           B == {i \in DOMAIN longer : longer[i].op \in ops}
<1>1. /\ n \in Nat /\ DOMAIN log = 1..n /\ DOMAIN longer = 1..n + 1
      /\ \A i \in 1..n : longer[i] = log[i]
      /\ longer[n + 1] = entry
  BY AppendProperties, LenProperties
<1>2. IsFiniteSet(A) /\ Cardinality(A) \in Nat
  <2>1. IsFiniteSet(1..n)
    BY <1>1, FS_Interval
  <2>2. A \in SUBSET (1..n)
    BY <1>1
  <2>. QED
    BY <2>1, <2>2, FS_Subset, FS_CardinalityType
<1>3. B = IF entry.op \in ops THEN A \cup {n + 1} ELSE A
  BY <1>1
<1>4. n + 1 \notin A
  BY <1>1
<1>5. Cardinality(B) = Cardinality(A) + IF entry.op \in ops THEN 1 ELSE 0
  <2>1. CASE entry.op \in ops
    <3>1. B = A \cup {n + 1}
      BY <1>3, <2>1
    <3>2. Cardinality(A \cup {n + 1}) = Cardinality(A) + 1
      BY <1>2, <1>4, FS_AddElement
    <3>. QED
      BY <2>1, <3>1, <3>2
  <2>2. CASE entry.op \notin ops
    <3>1. B = A
      BY <1>3, <2>2
    <3>2. Cardinality(A) + 0 = Cardinality(A)
      BY <1>2
    <3>. QED
      BY <2>2, <3>1, <3>2
  <2>. QED
    BY <2>1, <2>2
<1>. QED
  BY <1>2, <1>5 DEF HowMany

LEMMA HowManyEmpty == \A ops : HowMany(<< >>, ops) = 0
<1>1. ASSUME NEW ops PROVE {i \in DOMAIN << >> : << >>[i].op \in ops} = {}
  OBVIOUS
<1>. QED
  BY <1>1, FS_EmptySet DEF HowMany

LEMMA CommandFields ==
    ASSUME NEW o \in SendOps \cup SysOps, NEW data \in [Index -> Nat]
    PROVE  Command(o, data) \in Commands /\ Command(o, data).op = o
BY DEF Command, Commands

LEMMA CallFields ==
    ASSUME NEW fn, NEW o, NEW off, NEW len
    PROVE  /\ Call(fn, o, off, len).fn = fn /\ Call(fn, o, off, len).op = o
           /\ Call(fn, o, off, len).off = off /\ Call(fn, o, off, len).len = len
BY DEF Call
-----------------------------------------------------------------------------
(* What the application sees of a step of the library. *)

\* One callback, or none.
LEMMA OneCall ==
    ASSUME NEW call, calls' = <<call>>
    PROVE  Last = call /\ \A fn : Made(fn) <=> fn = call.fn
<1>1. Len(calls') = 1 /\ DOMAIN calls' = {1} /\ calls'[1] = call
  OBVIOUS
<1>. QED
  BY <1>1 DEF Last, Made

LEMMA NoCall == ASSUME calls' = << >> PROVE \A fn : ~Made(fn)
<1>1. DOMAIN calls' = {}
  OBVIOUS
<1>. QED
  BY <1>1 DEF Made

\* The callback that closes the transaction is that of an error.
LEMMA ClosingCall ==
    \/ ErrorCalls = << >>
    \/ \E fn \in {"exprecv_error", "expsend_error"} : ErrorCalls = <<Call(fn, tr.op, 0, 0)>>
BY DEF ErrorCalls

LEMMA AfterError ==
    ASSUME NEW call, calls' = Append(ErrorCalls, call)
    PROVE  /\ Last = call
           /\ \A fn : Made(fn) /\ fn # call.fn => fn \in {"exprecv_error", "expsend_error"}
           /\ Made(call.fn)
<1>1. CASE ErrorCalls = << >>
  <2>1. calls' = <<call>>
    BY <1>1
  <2>. QED
    BY <2>1, OneCall
<1>2. ASSUME NEW fn \in {"exprecv_error", "expsend_error"},
             ErrorCalls = <<Call(fn, tr.op, 0, 0)>>
      PROVE  /\ Last = call
             /\ \A f : Made(f) /\ f # call.fn => f \in {"exprecv_error", "expsend_error"}
             /\ Made(call.fn)
  <2>. DEFINE error == Call(fn, tr.op, 0, 0)
  <2>. HIDE DEF error
  <2>1. /\ <<error>> \in Seq({error, call})
        /\ calls' = Append(<<error>>, call)
    BY <1>2 DEF error
  <2>2. /\ Len(calls') = 2 /\ DOMAIN calls' = {1, 2}
        /\ calls'[1] = error /\ calls'[2] = call
    BY <2>1
  <2>3. error.fn = fn
    BY CallFields DEF error
  <2>. QED
    BY <1>2, <2>2, <2>3 DEF Last, Made
<1>. QED
  BY <1>1, <1>2, ClosingCall
-----------------------------------------------------------------------------
(* What a step of the library comes to in the loop's state. *)

Unmoved == UNCHANGED <<discipline, at, op, got, executed>>

Starts(o, len) ==
    /\ o \in SendOps /\ len \in Lengths
    /\ discipline = "mailbox" => has_recv = Empty
    /\ discipline = "idle" => has_recv = Empty /\ has_syscommand = Empty
    /\ tr' = Transaction("recv", o, len, 0)
    /\ recv_data' = Zeros
    /\ UNCHANGED <<mailboxes, completed>>

Arrives(n) ==
    /\ tr.dir = "recv" /\ n \in Nat /\ tr.off + n <= tr.len
    /\ tr' = [tr EXCEPT !.off = @ + n]
    /\ recv_data' = Written(tr.off, n)
    /\ UNCHANGED <<mailboxes, completed>>

Completes ==
    /\ tr.dir = "recv" /\ tr.off = tr.len
    /\ tr' = NoTransaction
    /\ has_recv' = tr.op
    /\ completed' = Append(completed, Command(tr.op, Sent))
    /\ UNCHANGED <<recv_data, has_send, has_syscommand>>

Commanded(o) ==
    /\ o \in SysOps
    /\ discipline = "mailbox" => has_syscommand = Empty
    /\ discipline = "idle" => has_recv = Empty /\ has_syscommand = Empty
    /\ tr.dir = "none" /\ tr' = tr
    /\ has_syscommand' = o
    /\ completed' = Append(completed, Command(o, Zeros))
    /\ UNCHANGED <<recv_data, has_send, has_recv>>

Other ==
    /\ tr' = tr \/ tr' = NoTransaction \/ tr' \in Sending
    /\ has_send' \in ReqOps \cup {has_send}
    /\ UNCHANGED <<recv_data, has_recv, has_syscommand, completed>>
LEMMA LibrarySteps ==
    ASSUME MainTypeOK, I2C1_SlaveWriteHandler
    PROVE  /\ Unmoved
           /\ \/ \E o \in SendOps, len \in Lengths : Starts(o, len)
              \/ \E n \in Nat : Arrives(n)
              \/ Completes
              \/ \E o \in SysOps : Commanded(o)
              \/ Other
<1> DEFINE Effect(fn) ==
             /\ recv_data' = IF fn = "exprecv_start" THEN Zeros
                             ELSE IF fn = "exprecv_data" THEN Written(Last.off, Last.len) ELSE recv_data
             /\ has_recv' = IF fn = "exprecv_complete" THEN Last.op ELSE has_recv
             /\ has_syscommand' = IF fn = "exprecv_syscommand" THEN Last.op ELSE has_syscommand
             /\ has_send' = IF fn = "expsend_start" THEN Last.op ELSE has_send
             /\ completed' = IF fn \in {"exprecv_complete", "exprecv_syscommand"}
                             THEN Append(completed, Command(Last.op,
                                    IF fn = "exprecv_complete" THEN Sent ELSE Zeros))
                             ELSE completed
             /\ fn \in {"exprecv_start", "exprecv_syscommand"} => MayOpen
           fns == {"exprecv_start", "exprecv_data", "exprecv_complete", "exprecv_syscommand", "expsend_start"}
<1>1. Unmoved
  BY DEF I2C1_SlaveWriteHandler, Unmoved
\* What a step does that makes one of the callbacks, or none of them.
<1>2. ASSUME NEW fn, \A f \in fns : Made(f) <=> f = fn
      PROVE  Effect(fn)
  BY <1>2 DEF I2C1_SlaveWriteHandler, msp_exprecv_callbacks, msp_expsend_start, Cleared
<1>. HIDE DEF Effect, fns
<1>3. ASSUME Abort \/ SendData \/ Advance \/ CompleteSend \/ Silent
      PROVE  Other
  <2>1. tr' = tr \/ tr' = NoTransaction \/ tr' \in Sending
    <3>1. CASE Advance
      <4>1. tr \in Sending
        BY <3>1 DEF Advance, MainTypeOK, NoTransaction, Receiving
      <4>2. tr.len \in Int /\ tr.off \in Int
        <5>1. tr.len \in Lengths /\ tr.off \in Int
          BY ONLY <4>1 DEF Sending
        <5>2. Lengths \subseteq Nat
          OBVIOUS
        <5>3. tr.len \in Nat
          BY ONLY <5>1, <5>2
        <5>. QED
          BY ONLY <5>1, <5>3
      <4>3. ChunkAt(tr.len, tr.off) \in Int
        BY <4>2 DEF ChunkAt
      <4>. QED
        BY <3>1, <4>1, <4>2, <4>3 DEF Advance, Sending
    <3>. QED
      BY <1>3, <3>1 DEF Abort, SendData, CompleteSend, Silent
  <2>2. \E fn : fn \notin fns /\ (\A f \in fns : Made(f) <=> f = fn)
    <3>1. CASE calls' = << >>
      <4>1. "none" \notin fns
        BY DEF fns
      <4>. QED
        BY <3>1, <4>1, NoCall
    <3>2. ASSUME NEW fn \in {"exprecv_error", "expsend_error", "expsend_data", "expsend_complete"},
                 NEW o, NEW off, NEW len, calls' = <<Call(fn, o, off, len)>>
          PROVE  fn \notin fns /\ (\A f \in fns : Made(f) <=> f = fn)
      BY <3>2, OneCall, CallFields DEF fns
    <3>. QED
      BY <1>3, <3>1, <3>2, ClosingCall DEF Abort, SendData, Advance, CompleteSend, Silent
  <2>3. PICK fn : fn \notin fns /\ Effect(fn)
    BY <1>2, <2>2
  <2>. QED
    BY <2>1, <2>3 DEF Effect, fns, Other, mailboxes
<1>4. ASSUME NEW o \in SendOps, StartRecv(o)
      PROVE  \E len \in Lengths : Starts(o, len)
  <2>1. PICK len \in Lengths : /\ tr' = Transaction("recv", o, len, 0)
                               /\ calls' = Append(ErrorCalls, Call("exprecv_start", o, 0, len))
    BY <1>4 DEF StartRecv
  <2>2. \A f \in fns : Made(f) <=> f = "exprecv_start"
    BY <2>1, AfterError, CallFields DEF fns
  <2>3. Effect("exprecv_start")
    BY <1>2, <2>2
  <2>. QED
    BY <2>1, <2>2, <2>3 DEF Effect, Starts, MayOpen, mailboxes, fns
<1>5. ASSUME NEW o \in ReqOps, StartSend(o)
      PROVE  Other
  <2>1. PICK len \in Lengths : /\ tr' = Transaction("send", o, len, 0)
                               /\ calls' = Append(ErrorCalls, Call("expsend_start", o, 0, len))
    BY <1>5 DEF StartSend
  <2>2. Last.op = o /\ \A f \in fns : Made(f) <=> f = "expsend_start"
    BY <2>1, AfterError, CallFields DEF fns
  <2>3. Effect("expsend_start")
    BY <1>2, <2>2
  <2>4. tr' \in Sending
    BY <2>1 DEF Transaction, Sending
  <2>. QED
    BY <2>2, <2>3, <2>4 DEF Effect, Other
<1>6. ASSUME RecvData
      PROVE  \E n \in Nat : Arrives(n)
  <2>1. PICK n \in 1..MTU : /\ tr.off + n <= tr.len
                            /\ tr' = [tr EXCEPT !.off = @ + n]
                            /\ calls' = <<Call("exprecv_data", tr.op, tr.off, n)>>
    BY <1>6 DEF RecvData
  <2>2. Last.off = tr.off /\ Last.len = n /\ \A f \in fns : Made(f) <=> f = "exprecv_data"
    BY <2>1, OneCall, CallFields
  <2>3. Effect("exprecv_data")
    BY <1>2, <2>2
  <2>. QED
    BY <1>6, <2>1, <2>2, <2>3 DEF Effect, Arrives, RecvData, mailboxes
<1>7. ASSUME CompleteRecv
      PROVE  Completes
  <2>1. Last.op = tr.op /\ \A f \in fns : Made(f) <=> f = "exprecv_complete"
    BY <1>7, OneCall, CallFields DEF CompleteRecv
  <2>2. Effect("exprecv_complete")
    BY <1>2, <2>1
  <2>. QED
    BY <1>7, <2>1, <2>2 DEF Effect, Completes, CompleteRecv
<1>8. ASSUME NEW o \in SysOps, Syscommand(o)
      PROVE  Commanded(o)
  <2>1. Last.op = o /\ \A f \in fns : Made(f) <=> f = "exprecv_syscommand"
    BY <1>8, OneCall, CallFields DEF Syscommand
  <2>2. Effect("exprecv_syscommand")
    BY <1>2, <2>1
  <2>. QED
    BY <1>8, <2>1, <2>2 DEF Effect, Commanded, Syscommand, MayOpen, fns
<1>. QED
  <2>1. Next
    BY DEF I2C1_SlaveWriteHandler
  <2>. QED
    BY <1>1, <1>3, <1>4, <1>5, <1>6, <1>7, <1>8, <2>1 DEF Next
-----------------------------------------------------------------------------
(* The type invariant holds to begin with, and after every step. *)
LEMMA TypeInit == MainInit => MainTypeOK
<1> SUFFICES ASSUME MainInit PROVE MainTypeOK
  OBVIOUS
<1>1. recv_data \in [Index -> Nat]
  BY DEF MainInit, Zeros
<1>. QED
  BY <1>1 DEF MainInit, Init, MainTypeOK

LEMMA ZerosType == Zeros \in [Index -> Nat]
BY DEF Zeros

\* The loop has read the whole buffer.
LEMMA GotType ==
    ASSUME MainTypeOK, Len(got) = RECV_MAXLEN
    PROVE  [i \in Index |-> got[i + 1]] \in [Index -> Nat]
<1>1. ASSUME NEW i \in Index PROVE got[i + 1] \in Nat
  <2>1. got \in Seq(Nat) /\ Len(got) = RECV_MAXLEN
    BY DEF MainTypeOK
  <2>2. i + 1 \in 1..Len(got)
    BY <2>1 DEF Index
  <2>. QED
    BY <2>1, <2>2, ElementOfSeq
<1>. QED
  BY <1>1

LEMMA TypeStep ==
    ASSUME MainTypeOK, [MainNext]_mainVars
    PROVE  MainTypeOK'
<1>1. ASSUME NEW o, NEW len, Unmoved, Starts(o, len)
      PROVE  MainTypeOK'
  <2>1. tr' \in Receiving
    BY <1>1 DEF Starts, Transaction, Receiving
  <2>2. recv_data' \in [Index -> Nat]
    BY <1>1, ZerosType DEF Starts
  <2>. QED
    BY <1>1, <2>1, <2>2 DEF Starts, Unmoved, mailboxes, MainTypeOK
<1>2. ASSUME NEW n, Unmoved, Arrives(n)
      PROVE  MainTypeOK'
  <2>1. tr \in Receiving
    BY <1>2 DEF Arrives, MainTypeOK, NoTransaction, Sending
  <2>2. tr' \in Receiving
    BY <1>2, <2>1 DEF Arrives, Receiving
  <2>3. Len(completed) + 1 \in Nat
    BY DEF MainTypeOK
  <2>4. recv_data' \in [Index -> Nat]
    BY <1>2, <2>3 DEF Arrives, Written, MainTypeOK
  <2>. QED
    BY <1>2, <2>2, <2>4 DEF Arrives, Unmoved, mailboxes, MainTypeOK
<1>3. ASSUME Unmoved, Completes
      PROVE  MainTypeOK'
  <2>1. tr \in Receiving
    BY <1>3 DEF Completes, MainTypeOK, NoTransaction, Sending
  <2>2. tr.op \in SendOps
    BY <2>1 DEF Receiving
  <2>3. Len(completed) + 1 \in Nat
    BY DEF MainTypeOK
  <2>4. Sent \in [Index -> Nat]
    BY <2>3 DEF Sent
  <2>5. completed' \in Seq(Commands)
    BY <1>3, <2>2, <2>4, CommandFields, AppendProperties DEF Completes, MainTypeOK
  <2>. QED
    BY <1>3, <2>2, <2>5 DEF Completes, Unmoved, MainTypeOK
<1>4. ASSUME NEW o, Unmoved, Commanded(o)
      PROVE  MainTypeOK'
  <2>1. completed' \in Seq(Commands)
    BY <1>4, ZerosType, CommandFields, AppendProperties DEF Commanded, MainTypeOK
  <2>. QED
    BY <1>4, <2>1 DEF Commanded, Unmoved, MainTypeOK
<1>5. ASSUME Unmoved, Other
      PROVE  MainTypeOK'
  BY <1>5 DEF Other, Unmoved, MainTypeOK
<1>6. CASE ReadByte
  <2>1. recv_data[Len(got)] \in Nat
    BY <1>6 DEF ReadByte, MainTypeOK, Index
  <2>2. got' \in Seq(Nat)
    BY <1>6, <2>1, AppendProperties DEF ReadByte, MainTypeOK
  <2>. QED
    BY <1>6, <2>2 DEF ReadByte, mailboxes, MainTypeOK
<1>7. CASE ActOnRecv
  <2>1. [i \in Index |-> got[i + 1]] \in [Index -> Nat]
    BY <1>7, GotType DEF ActOnRecv
  <2>2. op \in SendOps
    BY <1>7 DEF ActOnRecv, MainTypeOK
  <2>3. executed' \in Seq(Commands)
    BY <1>7, <2>1, <2>2, CommandFields, AppendProperties DEF ActOnRecv, MainTypeOK
  <2>. QED
    BY <1>7, <2>2, <2>3 DEF ActOnRecv, mailboxes, MainTypeOK, AllOps
<1>8. CASE ActOnSyscommand
  <2>2. op \in SysOps
    BY <1>8 DEF ActOnSyscommand, MainTypeOK
  <2>3. executed' \in Seq(Commands)
    BY <1>8, <2>2, ZerosType, CommandFields, AppendProperties DEF ActOnSyscommand, MainTypeOK
  <2>. QED
    BY <1>8, <2>2, <2>3 DEF ActOnSyscommand, mailboxes, MainTypeOK, AllOps
<1>9. CASE TakeSend \/ TakeRecv \/ TakeSyscommand
  <2>1. CASE TakeSend
    BY <2>1 DEF TakeSend, mailboxes, MainTypeOK
  <2>2. CASE TakeRecv
    <3>1. got' \in Seq(Nat)
      BY <2>2 DEF TakeRecv
    <3>. QED
      BY <2>2, <3>1 DEF TakeRecv, mailboxes, MainTypeOK
  <2>3. CASE TakeSyscommand
    BY <2>3 DEF TakeSyscommand, mailboxes, MainTypeOK
  <2>. QED
    BY <1>9, <2>1, <2>2, <2>3
<1>10. CASE SkipSend \/ SkipRecv \/ SkipSyscommand
  BY <1>10 DEF SkipSend, SkipRecv, SkipSyscommand, Skip, mailboxes, MainTypeOK
<1>11. CASE ActOnSend \/ Clear
  BY <1>11 DEF ActOnSend, Clear, mailboxes, MainTypeOK, AllOps
<1>12. CASE UNCHANGED mainVars
  BY <1>12 DEF mainVars, mailboxes, MainTypeOK
<1>. QED
  BY <1>1, <1>2, <1>3, <1>4, <1>5, <1>6, <1>7, <1>8, <1>9, <1>10, <1>11, <1>12, LibrarySteps
  DEF MainNext, Loop

LEMMA ArrivingStep ==
    ASSUME MainTypeOK, Arriving, [MainNext]_mainVars
    PROVE  Arriving'
<1>1. ASSUME NEW o, NEW len, Starts(o, len)
      PROVE  Arriving'
  <2>1. tr'.off = 0
    BY <1>1 DEF Starts, Transaction
  <2>2. Zeros = [i \in Index |-> IF i < 0 THEN Len(completed)' + 1 ELSE 0]
    BY DEF Zeros, Index
  <2>. QED
    BY <1>1, <2>1, <2>2 DEF Starts, Arriving
<1>2. ASSUME NEW n \in Nat, Arrives(n)
      PROVE  Arriving'
  <2>1. tr \in Receiving
    BY <1>2 DEF Arrives, MainTypeOK, NoTransaction, Sending
  <2>2. tr.off \in Nat /\ tr'.off = tr.off + n
    BY <1>2, <2>1 DEF Arrives, Receiving
  <2>3. recv_data = [i \in Index |-> IF i < tr.off THEN Len(completed) + 1 ELSE 0]
    BY <1>2 DEF Arrives, Arriving
  <2>4. recv_data' = [i \in Index |-> IF i < tr.off + n THEN Len(completed) + 1 ELSE 0]
    <3>1. \A i \in Index : i \in Int /\ recv_data[i] = IF i < tr.off THEN Len(completed) + 1 ELSE 0
      BY <2>3 DEF Index
    <3>2. recv_data' = Written(tr.off, n)
      BY <1>2 DEF Arrives
    <3>3. ASSUME NEW i \in Index
          PROVE  (IF tr.off <= i /\ i < tr.off + n THEN Len(completed) + 1 ELSE recv_data[i])
                   = IF i < tr.off + n THEN Len(completed) + 1 ELSE 0
      BY <2>2, <3>1
    <3>. QED
      BY <3>2, <3>3 DEF Written
  <2>. QED
    BY <1>2, <2>2, <2>4 DEF Arrives, Arriving
<1>3. ASSUME Completes \/ \E o \in SysOps : Commanded(o)
      PROVE  Arriving'
  BY <1>3 DEF Completes, Commanded, Arriving, NoTransaction
<1>4. ASSUME Other
      PROVE  Arriving'
  BY <1>4 DEF Other, Arriving, NoTransaction, Sending
<1>5. CASE Loop \/ UNCHANGED mainVars
  <2>1. UNCHANGED <<tr, recv_data, completed>>
    BY <1>5 DEF Loop, mainVars, TakeSend, TakeRecv, TakeSyscommand, SkipSend, SkipRecv,
                SkipSyscommand, Skip, ReadByte, ActOnRecv, ActOnSyscommand, ActOnSend, Clear
  <2>. QED
    BY <2>1 DEF Arriving
<1>. QED
  BY <1>1, <1>2, <1>3, <1>4, <1>5, LibrarySteps DEF MainNext
-----------------------------------------------------------------------------
\* One more of the command that was logged; no more of any other.
LEMMA LogGrows ==
    ASSUME NEW log \in Seq(Commands), NEW o \in SendOps \cup SysOps, NEW data \in [Index -> Nat],
           NEW ops
    PROVE  /\ o \in ops => HowMany(Append(log, Command(o, data)), ops) = HowMany(log, ops) + 1
           /\ o \notin ops => HowMany(Append(log, Command(o, data)), ops) = HowMany(log, ops)
<1>. DEFINE entry == Command(o, data)
<1>1. entry \in Commands /\ entry.op = o
  BY CommandFields
<1>. HIDE DEF entry
<1>2. /\ HowMany(log, ops) \in Nat
      /\ HowMany(Append(log, entry), ops) = HowMany(log, ops) + IF entry.op \in ops THEN 1 ELSE 0
  BY <1>1, HowManyAppend
<1>3. CASE o \in ops
  BY <1>1, <1>2, <1>3 DEF entry
<1>4. CASE o \notin ops
  BY <1>1, <1>2, <1>4 DEF entry
<1>. QED
  BY <1>3, <1>4

LEMMA HowManyType ==
    ASSUME MainTypeOK
    PROVE  \A ops : HowMany(completed, ops) \in Nat /\ HowMany(executed, ops) \in Nat
<1>1. CASE Commands = {}
  <2>1. completed = << >> /\ executed = << >>
    BY <1>1, EmptySeq DEF MainTypeOK
  <2>. QED
    BY <2>1, HowManyEmpty
<1>2. CASE Commands # {}
  BY <1>2, HowManyAppend DEF MainTypeOK
<1>. QED
  BY <1>1, <1>2

\* What a step may do to the counts of some commands.
Same(ops) ==
    /\ HowMany(completed', ops) = HowMany(completed, ops)
    /\ HowMany(executed', ops) = HowMany(executed, ops)
OneCompleted(ops) ==
    /\ HowMany(completed', ops) = HowMany(completed, ops) + 1
    /\ HowMany(executed', ops) = HowMany(executed, ops)
OneExecuted(ops) ==
    /\ HowMany(completed', ops) = HowMany(completed, ops)
    /\ HowMany(executed', ops) = HowMany(executed, ops) + 1

LEMMA Counts ==
    ASSUME MainTypeOK, NEW c \in SendOps \cup SysOps, NEW data \in [Index -> Nat], NEW ops
    PROVE  /\ completed' = Append(completed, Command(c, data)) /\ executed' = executed
                => (c \in ops => OneCompleted(ops)) /\ (c \notin ops => Same(ops))
           /\ executed' = Append(executed, Command(c, data)) /\ completed' = completed
                => (c \in ops => OneExecuted(ops)) /\ (c \notin ops => Same(ops))
<1>1. completed \in Seq(Commands) /\ executed \in Seq(Commands)
  BY DEF MainTypeOK
<1>. DEFINE longer(log) == Append(log, Command(c, data))
<1>2. \A log \in Seq(Commands) :
        /\ c \in ops => HowMany(longer(log), ops) = HowMany(log, ops) + 1
        /\ c \notin ops => HowMany(longer(log), ops) = HowMany(log, ops)
  BY LogGrows
<1>. HIDE DEF longer
<1>3. /\ c \in ops => HowMany(longer(completed), ops) = HowMany(completed, ops) + 1
      /\ c \notin ops => HowMany(longer(completed), ops) = HowMany(completed, ops)
  BY <1>1, <1>2
<1>4. /\ c \in ops => HowMany(longer(executed), ops) = HowMany(executed, ops) + 1
      /\ c \notin ops => HowMany(longer(executed), ops) = HowMany(executed, ops)
  BY <1>1, <1>2
<1>5. completed' = longer(completed) /\ executed' = executed
        => (c \in ops => OneCompleted(ops)) /\ (c \notin ops => Same(ops))
  BY <1>3 DEF OneCompleted, Same
<1>6. executed' = longer(executed) /\ completed' = completed
        => (c \in ops => OneExecuted(ops)) /\ (c \notin ops => Same(ops))
  BY <1>4 DEF OneExecuted, Same
<1>. QED
  BY <1>5, <1>6 DEF longer

RecvMove(o) ==
    \/ Same({o}) /\ (DueRecv(o)' => DueRecv(o))
    \/ OneCompleted({o})
    \/ OneExecuted({o}) /\ DueRecv(o) /\ ~DueRecv(o)'
SysMove(o) ==
    \/ Same({o}) /\ (DueSys(o)' => DueSys(o))
    \/ OneCompleted({o})
    \/ OneExecuted({o}) /\ DueSys(o) /\ ~DueSys(o)'

LEMMA MovesOnce ==
    ASSUME MainTypeOK, NoneTwice, \A o \in SendOps : RecvMove(o), \A o \in SysOps : SysMove(o)
    PROVE  NoneTwice'
<1>1. ASSUME NEW e \in Nat, NEW c \in Nat, NEW d \in {0, 1}, NEW d1 \in {0, 1}, NEW e1, NEW c1,
             e + d <= c,
             \/ c1 = c /\ e1 = e /\ d1 <= d
             \/ c1 = c + 1 /\ e1 = e
             \/ c1 = c /\ e1 = e + 1 /\ d = 1 /\ d1 = 0
      PROVE  e1 + d1 <= c1
  BY ONLY <1>1
<1>2. ASSUME NEW o \in SendOps
      PROVE  HowMany(executed', {o}) + OwedRecv(o)' <= HowMany(completed', {o})
  <2>1. OwedRecv(o) \in {0, 1} /\ OwedRecv(o)' \in {0, 1}
    BY DEF OwedRecv
  <2>2. /\ (DueRecv(o)' => DueRecv(o)) => OwedRecv(o)' <= OwedRecv(o)
        /\ DueRecv(o) => OwedRecv(o) = 1
        /\ ~DueRecv(o)' => OwedRecv(o)' = 0
    BY DEF OwedRecv
  <2>3. RecvMove(o) /\ HowMany(executed, {o}) + OwedRecv(o) <= HowMany(completed, {o})
    BY DEF NoneTwice
  <2>. QED
    BY <1>1, <2>1, <2>2, <2>3, HowManyType DEF RecvMove, Same, OneCompleted, OneExecuted
<1>3. ASSUME NEW o \in SysOps
      PROVE  HowMany(executed', {o}) + OwedSys(o)' <= HowMany(completed', {o})
  <2>1. OwedSys(o) \in {0, 1} /\ OwedSys(o)' \in {0, 1}
    BY DEF OwedSys
  <2>2. /\ (DueSys(o)' => DueSys(o)) => OwedSys(o)' <= OwedSys(o)
        /\ DueSys(o) => OwedSys(o) = 1
        /\ ~DueSys(o)' => OwedSys(o)' = 0
    BY DEF OwedSys
  <2>3. SysMove(o) /\ HowMany(executed, {o}) + OwedSys(o) <= HowMany(completed, {o})
    BY DEF NoneTwice
  <2>. QED
    BY <1>1, <2>1, <2>2, <2>3, HowManyType DEF SysMove, Same, OneCompleted, OneExecuted
<1>4. \A ops : /\ HowMany(completed, ops)' = HowMany(completed', ops)
               /\ HowMany(executed, ops)' = HowMany(executed', ops)
  BY DEF HowMany
<1>. QED
  BY <1>2, <1>3, <1>4 DEF NoneTwice

\* The steps that neither complete nor carry out a command, and make none due.
LEMMA QuietSteps ==
    ASSUME MainTypeOK,
           \/ \E o, len : Unmoved /\ Starts(o, len)
           \/ \E n : Unmoved /\ Arrives(n)
           \/ Unmoved /\ Other
           \/ TakeSend \/ TakeRecv \/ TakeSyscommand
           \/ SkipSend \/ SkipRecv \/ SkipSyscommand
           \/ ReadByte \/ ActOnSend \/ Clear
           \/ UNCHANGED mainVars
    PROVE  /\ UNCHANGED <<completed, executed>>
           /\ \A o \in SendOps : DueRecv(o)' => DueRecv(o)
           /\ \A o \in SysOps : DueSys(o)' => DueSys(o)
<1>. USE DEF DueRecv, DueSys, Due, mailboxes
<1>1. CASE \/ \E o, len : Unmoved /\ Starts(o, len)
           \/ \E n : Unmoved /\ Arrives(n)
           \/ Unmoved /\ Other
           \/ UNCHANGED mainVars
  BY <1>1 DEF Unmoved, Starts, Arrives, Other, mainVars
<1>2. CASE TakeSend
  BY <1>2 DEF TakeSend
<1>3. CASE TakeRecv
  BY <1>3 DEF TakeRecv
<1>4. CASE TakeSyscommand
  BY <1>4 DEF TakeSyscommand
<1>5. CASE SkipSend \/ SkipRecv \/ SkipSyscommand
  BY <1>5 DEF SkipSend, SkipRecv, SkipSyscommand, Skip
<1>6. CASE ReadByte
  BY <1>6 DEF ReadByte
<1>7. CASE ActOnSend
  BY <1>7 DEF ActOnSend, MainTypeOK
<1>8. CASE Clear
  BY <1>8 DEF Clear
<1>. QED
  BY <1>1, <1>2, <1>3, <1>4, <1>5, <1>6, <1>7, <1>8

LEMMA OnceStep ==
    ASSUME MainTypeOK, NoneTwice, [MainNext]_mainVars
    PROVE  NoneTwice'
<1>1. ASSUME Unmoved, Completes
      PROVE  NoneTwice'
  <2>1. tr.op \in SendOps
    BY <1>1 DEF Completes, MainTypeOK, NoTransaction, Sending, Receiving
  <2>2. Sent \in [Index -> Nat]
    BY DEF Sent, MainTypeOK
  <2>3. \A o : /\ tr.op = o => OneCompleted({o})
               /\ tr.op # o => Same({o})
    BY <1>1, <2>1, <2>2, Counts DEF Completes, Unmoved
  <2>4. \A o \in SendOps : DueRecv(o)' => DueRecv(o) \/ tr.op = o
    BY <1>1 DEF Completes, Unmoved, DueRecv, Due
  <2>5. \A o \in SysOps : (DueSys(o)' => DueSys(o)) /\ tr.op # o
    BY <1>1, <2>1 DEF Completes, Unmoved, DueSys, Due
  <2>. QED
    BY <2>3, <2>4, <2>5, MovesOnce DEF RecvMove, SysMove
<1>2. ASSUME NEW c \in SysOps, Unmoved, Commanded(c)
      PROVE  NoneTwice'
  <2>3. \A o : /\ c = o => OneCompleted({o})
               /\ c # o => Same({o})
    BY <1>2, ZerosType, Counts DEF Commanded, Unmoved
  <2>4. \A o \in SysOps : DueSys(o)' => DueSys(o) \/ c = o
    BY <1>2 DEF Commanded, Unmoved, DueSys, Due
  <2>5. \A o \in SendOps : (DueRecv(o)' => DueRecv(o)) /\ c # o
    BY <1>2 DEF Commanded, Unmoved, DueRecv, Due
  <2>. QED
    BY <2>3, <2>4, <2>5, MovesOnce DEF RecvMove, SysMove
<1>3. CASE ActOnRecv
  <2>1. op \in SendOps /\ op \notin SysOps
    BY <1>3 DEF ActOnRecv, MainTypeOK
  <2>2. [i \in Index |-> got[i + 1]] \in [Index -> Nat]
    BY <1>3, GotType DEF ActOnRecv
  <2>3. \A o : /\ op = o => OneExecuted({o})
               /\ op # o => Same({o})
    BY <1>3, <2>1, <2>2, Counts DEF ActOnRecv
  <2>4. \A o \in SendOps : ~DueRecv(o)' /\ (op = o => DueRecv(o))
    BY <1>3, <2>1 DEF ActOnRecv, DueRecv, Due
  <2>5. \A o \in SysOps : (DueSys(o)' => DueSys(o)) /\ op # o
    BY <1>3, <2>1 DEF ActOnRecv, DueSys, Due, mailboxes
  <2>. QED
    BY <2>3, <2>4, <2>5, MovesOnce DEF RecvMove, SysMove
<1>4. CASE ActOnSyscommand
  <2>1. op \in SysOps /\ op \notin SendOps
    BY <1>4 DEF ActOnSyscommand, MainTypeOK
  <2>3. \A o : /\ op = o => OneExecuted({o})
               /\ op # o => Same({o})
    BY <1>4, <2>1, ZerosType, Counts DEF ActOnSyscommand
  <2>4. \A o \in SysOps : ~DueSys(o)' /\ (op = o => DueSys(o))
    BY <1>4, <2>1 DEF ActOnSyscommand, DueSys, Due
  <2>5. \A o \in SendOps : (DueRecv(o)' => DueRecv(o)) /\ op # o
    BY <1>4, <2>1 DEF ActOnSyscommand, DueRecv, Due, mailboxes
  <2>. QED
    BY <2>3, <2>4, <2>5, MovesOnce DEF RecvMove, SysMove
<1>5. ASSUME /\ UNCHANGED <<completed, executed>>
             /\ \A o \in SendOps : DueRecv(o)' => DueRecv(o)
             /\ \A o \in SysOps : DueSys(o)' => DueSys(o)
      PROVE  NoneTwice'
  BY <1>5, MovesOnce DEF RecvMove, SysMove, Same
<1>. QED
  BY <1>1, <1>2, <1>3, <1>4, <1>5, LibrarySteps, QuietSteps DEF MainNext, Loop

LEMMA AnyInit == MainInit => AnyIInv
<1> SUFFICES ASSUME MainInit PROVE AnyIInv
  OBVIOUS
<1>1. Arriving
  BY DEF MainInit, Init, Arriving, NoTransaction
<1>2. NoneTwice
  <2>1. /\ executed = << >> /\ completed = << >> /\ at = "has_send"
        /\ has_recv = Empty /\ has_syscommand = Empty
    BY DEF MainInit
  <2>2. /\ \A o \in SendOps : OwedRecv(o) = 0
        /\ \A o \in SysOps : OwedSys(o) = 0
    BY <2>1 DEF OwedRecv, OwedSys, DueRecv, DueSys, Due
  <2>3. \A o : HowMany(executed, {o}) = 0 /\ HowMany(completed, {o}) = 0
    BY <2>1, HowManyEmpty
  <2>. QED
    BY <2>2, <2>3 DEF NoneTwice
<1>. QED
  BY <1>1, <1>2, TypeInit DEF AnyIInv

(* The inductive invariant for an OBC that may wait for nothing. *)
LEMMA AnyInvariant == MainSpec => []AnyIInv
<1>1. AnyIInv /\ [MainNext]_mainVars => AnyIInv'
  BY TypeStep, ArrivingStep, OnceStep DEF AnyIInv
<1>. QED
  BY AnyInit, <1>1, PTL DEF MainSpec

(* Whatever the OBC does, no command is acted upon more often than it was completed: *)
(* the loop takes a mailbox, acts, and clears it after, with the interrupt free to   *)
(* come in between.                                                                  *)
THEOREM NoCommandTwice == MainSpec => []AtMostOnce
<1>1. AnyIInv => AtMostOnce
  <2> SUFFICES ASSUME AnyIInv, NEW o \in SysOps \cup SendOps
               PROVE  HowMany(executed, {o}) <= HowMany(completed, {o})
    BY DEF AtMostOnce
  <2>1. HowMany(executed, {o}) \in Nat /\ HowMany(completed, {o}) \in Nat
    BY HowManyType DEF AnyIInv
  <2>2. OwedRecv(o) \in {0, 1} /\ OwedSys(o) \in {0, 1}
    BY DEF OwedRecv, OwedSys
  <2>. QED
    BY <2>1, <2>2 DEF AnyIInv, NoneTwice
<1>. QED
  BY <1>1, AnyInvariant, PTL
-----------------------------------------------------------------------------
(* An OBC that waits. *)

LEMMA DisciplineStays ==
    ASSUME MainTypeOK, [MainNext]_mainVars
    PROVE  discipline' = discipline
BY LibrarySteps
DEF MainNext, Loop, Unmoved, mainVars, TakeSend, TakeRecv, TakeSyscommand, SkipSend, SkipRecv,
    SkipSyscommand, Skip, ReadByte, ActOnRecv, ActOnSyscommand, ActOnSend, Clear

LEMMA KeptStep ==
    ASSUME MainTypeOK, discipline # "none", Kept, [MainNext]_mainVars
    PROVE  Kept'
<1>1. ASSUME NEW o, NEW len, Unmoved, Starts(o, len)
      PROVE  Kept'
  BY <1>1 DEF Starts, Unmoved, mailboxes, Kept, MainTypeOK
<1>2. ASSUME NEW n, Unmoved, Arrives(n)
      PROVE  Kept'
  BY <1>2 DEF Arrives, Unmoved, mailboxes, Kept
<1>3. ASSUME Unmoved, Completes
      PROVE  Kept'
  BY <1>3 DEF Completes, Unmoved, Kept, NoTransaction, MainTypeOK
<1>4. ASSUME NEW o, Unmoved, Commanded(o)
      PROVE  Kept'
  BY <1>4 DEF Commanded, Unmoved, Kept, MainTypeOK
<1>5. ASSUME Unmoved, Other
      PROVE  Kept'
  BY <1>5 DEF Other, Unmoved, Kept, NoTransaction, Sending
<1>6. CASE \/ TakeSend \/ TakeRecv \/ TakeSyscommand
           \/ SkipSend \/ SkipRecv \/ SkipSyscommand
  BY <1>6 DEF TakeSend, TakeRecv, TakeSyscommand, SkipSend, SkipRecv, SkipSyscommand, Skip,
              mailboxes, Kept
<1>7. CASE ReadByte \/ ActOnRecv \/ ActOnSyscommand \/ ActOnSend
  BY <1>7 DEF ReadByte, ActOnRecv, ActOnSyscommand, ActOnSend, mailboxes, Kept, MainTypeOK
<1>8. CASE Clear
  BY <1>8 DEF Clear, Kept
<1>9. CASE UNCHANGED mainVars
  BY <1>9 DEF mainVars, mailboxes, Kept
<1>. QED
  BY <1>1, <1>2, <1>3, <1>4, <1>5, <1>6, <1>7, <1>8, <1>9, LibrarySteps DEF MainNext, Loop

\* What was sent has all arrived.
LEMMA AllArrived ==
    ASSUME Arriving, Completes
    PROVE  Sent = recv_data
BY DEF Arriving, Completes, Sent

\* A command that was logged stays in the log.
LEMMA StaysLogged ==
    ASSUME MainTypeOK, NEW c \in SendOps \cup SysOps, NEW data \in [Index -> Nat],
           completed' = Append(completed, Command(c, data))
    PROVE  /\ Len(completed)' = Len(completed) + 1
           /\ Len(completed)' \in DOMAIN completed' /\ completed'[Len(completed)'] = Command(c, data)
           /\ \A j \in DOMAIN completed : j \in DOMAIN completed' /\ completed'[j] = completed[j]
<1>. DEFINE entry == Command(c, data)
<1>1. entry \in Commands /\ completed \in Seq(Commands) /\ completed' = Append(completed, entry)
  BY CommandFields DEF MainTypeOK
<1>. HIDE DEF entry
<1>2. /\ Len(completed') = Len(completed) + 1
      /\ Len(completed') \in DOMAIN completed' /\ completed'[Len(completed')] = entry
      /\ \A j \in DOMAIN completed : j \in DOMAIN completed' /\ completed'[j] = completed[j]
  BY <1>1, AppendProperties
<1>. QED
  BY <1>2 DEF entry

LEMMA IntactStep ==
    ASSUME MainTypeOK, Arriving, discipline # "none", Kept, Intact, [MainNext]_mainVars
    PROVE  Intact'
<1>1. ASSUME NEW o, NEW len, Unmoved, Starts(o, len)
      PROVE  Intact'
  <2>1. has_recv' = Empty /\ at' # "recv"
    BY <1>1 DEF Starts, Unmoved, mailboxes, Kept, MainTypeOK
  <2>. QED
    BY <1>1, <2>1 DEF Starts, Unmoved, mailboxes, Intact
<1>2. ASSUME NEW n, Unmoved, Arrives(n)
      PROVE  Intact'
  <2>1. has_recv' = Empty /\ at' # "recv"
    BY <1>2 DEF Arrives, Unmoved, mailboxes, Kept, MainTypeOK
  <2>. QED
    BY <1>2, <2>1 DEF Arrives, Unmoved, mailboxes, Intact
<1>3. ASSUME Unmoved, Completes
      PROVE  Intact'
  <2>1. at' # "recv"
    BY <1>3 DEF Completes, Unmoved, Kept, MainTypeOK
  <2>2. tr.op \in SendOps
    BY <1>3 DEF Completes, MainTypeOK, NoTransaction, Sending, Receiving
  <2>3. completed' = Append(completed, Command(tr.op, recv_data)) /\ recv_data \in [Index -> Nat]
    BY <1>3, AllArrived DEF Completes, MainTypeOK
  <2>. QED
    BY <1>3, <2>1, <2>2, <2>3, StaysLogged DEF Completes, Intact
<1>4. ASSUME NEW o, Unmoved, Commanded(o)
      PROVE  Intact'
  <2>1. completed' = Append(completed, Command(o, Zeros))
    BY <1>4 DEF Commanded
  <2>. QED
    BY <1>4, <2>1, ZerosType, StaysLogged DEF Commanded, Unmoved, Intact
<1>5. ASSUME Unmoved, Other
      PROVE  Intact'
  BY <1>5 DEF Other, Unmoved, Intact
<1>6. CASE TakeRecv
  BY <1>6 DEF TakeRecv, mailboxes, Intact
<1>7. CASE ReadByte
  <2>1. recv_data[Len(got)] \in Nat
    BY <1>7 DEF ReadByte, MainTypeOK, Index
  <2>2. /\ got \in Seq(Nat) /\ Len(got) \in Nat /\ Len(got) < RECV_MAXLEN
        /\ got' = Append(got, recv_data[Len(got)])
        /\ \A k \in DOMAIN got : got[k] = recv_data[k - 1]
    BY <1>7, LenProperties DEF ReadByte, MainTypeOK, Intact
  <2>3. Len(got') <= RECV_MAXLEN /\ \A k \in DOMAIN got' : got'[k] = recv_data[k - 1]
    BY <2>1, <2>2
  <2>. QED
    BY <1>7, <2>3 DEF ReadByte, mailboxes, Intact
<1>8. CASE \/ TakeSend \/ TakeSyscommand
           \/ SkipSend \/ SkipRecv \/ SkipSyscommand
           \/ ActOnRecv \/ ActOnSyscommand \/ ActOnSend
  BY <1>8 DEF TakeSend, TakeSyscommand, SkipSend, SkipRecv, SkipSyscommand, Skip,
              ActOnRecv, ActOnSyscommand, ActOnSend, mailboxes, Intact
<1>9. CASE Clear
  BY <1>9 DEF Clear, Intact
<1>10. CASE UNCHANGED mainVars
  BY <1>10 DEF mainVars, mailboxes, Intact
<1>. QED
  BY <1>1, <1>2, <1>3, <1>4, <1>5, <1>6, <1>7, <1>8, <1>9, <1>10, LibrarySteps DEF MainNext, Loop

\* An OBC Send, and a system command, that was completed and not acted upon.
OpenRecv == Open(has_recv, SendOps)
OpenSys == Open(has_syscommand, SysOps)

RecvLogged ==
    \/ Same(SendOps) /\ OpenRecv' = OpenRecv
    \/ OneCompleted(SendOps) /\ ~OpenRecv /\ OpenRecv'
    \/ OneExecuted(SendOps) /\ OpenRecv /\ ~OpenRecv'
SysLogged ==
    \/ Same(SysOps) /\ OpenSys' = OpenSys
    \/ OneCompleted(SysOps) /\ ~OpenSys /\ OpenSys'
    \/ OneExecuted(SysOps) /\ OpenSys /\ ~OpenSys'

\* No step completes a command while another is open, or acts upon one that is not.
LEMMA LoggedSteps ==
    ASSUME MainTypeOK, discipline # "none", Kept, [MainNext]_mainVars
    PROVE  RecvLogged /\ SysLogged
<1>. USE DEF OpenRecv, OpenSys, Open
<1>1. ASSUME \/ \E o, len : Unmoved /\ Starts(o, len)
             \/ \E n : Unmoved /\ Arrives(n)
             \/ Unmoved /\ Other
             \/ TakeSend \/ TakeRecv \/ TakeSyscommand
             \/ SkipSend \/ SkipRecv \/ SkipSyscommand
             \/ ReadByte \/ ActOnSend \/ Clear
             \/ UNCHANGED mainVars
      PROVE  RecvLogged /\ SysLogged
  <2>1. Same(SendOps) /\ Same(SysOps)
    BY <1>1, QuietSteps DEF Same
  <2>2. OpenRecv' = OpenRecv /\ OpenSys' = OpenSys
    <3>1. CASE \/ \E o, len : Unmoved /\ Starts(o, len)
               \/ \E n : Unmoved /\ Arrives(n)
               \/ Unmoved /\ Other
               \/ UNCHANGED mainVars
      BY <3>1 DEF Unmoved, Starts, Arrives, Other, mainVars, mailboxes
    <3>2. CASE TakeSend \/ TakeRecv \/ TakeSyscommand
      BY <3>2 DEF TakeSend, TakeRecv, TakeSyscommand, mailboxes
    <3>3. CASE SkipSend \/ SkipRecv \/ SkipSyscommand
      BY <3>3 DEF SkipSend, SkipRecv, SkipSyscommand, Skip, mailboxes
    <3>4. CASE ReadByte \/ ActOnSend
      BY <3>4 DEF ReadByte, ActOnSend, MainTypeOK, mailboxes
    <3>5. CASE Clear
      BY <3>5 DEF Clear
    <3>. QED
      BY <1>1, <3>1, <3>2, <3>3, <3>4, <3>5
  <2>. QED
    BY <2>1, <2>2 DEF RecvLogged, SysLogged
<1>2. ASSUME Unmoved, Completes
      PROVE  RecvLogged /\ SysLogged
  <2>1. tr.op \in SendOps
    BY <1>2 DEF Completes, MainTypeOK, NoTransaction, Sending, Receiving
  <2>2. Sent \in [Index -> Nat]
    BY DEF Sent, MainTypeOK
  <2>3. OneCompleted(SendOps)
    BY <1>2, <2>1, <2>2, Counts DEF Completes, Unmoved
  <2>4. tr.op \notin SysOps
    BY <2>1
  <2>5. Same(SysOps)
    BY <1>2, <2>1, <2>2, <2>4, Counts DEF Completes, Unmoved
  <2>6. ~OpenRecv /\ OpenRecv'
    BY <1>2, <2>1 DEF Completes, Unmoved, Kept
  <2>7. OpenSys' = OpenSys
    BY <1>2 DEF Completes, Unmoved
  <2>. QED
    BY <2>3, <2>5, <2>6, <2>7 DEF RecvLogged, SysLogged
<1>3. ASSUME NEW c \in SysOps, Unmoved, Commanded(c)
      PROVE  RecvLogged /\ SysLogged
  <2>1. c \notin SendOps
    OBVIOUS
  <2>2. OneCompleted(SysOps) /\ Same(SendOps)
    BY <1>3, <2>1, ZerosType, Counts DEF Commanded, Unmoved
  <2>3. ~OpenSys /\ OpenSys'
    BY <1>3 DEF Commanded, Unmoved, Kept, MainTypeOK
  <2>4. OpenRecv' = OpenRecv
    BY <1>3 DEF Commanded, Unmoved
  <2>. QED
    BY <2>2, <2>3, <2>4 DEF RecvLogged, SysLogged
<1>4. CASE ActOnRecv
  <2>1. op \in SendOps /\ op \notin SysOps
    BY <1>4 DEF ActOnRecv, MainTypeOK
  <2>2. [i \in Index |-> got[i + 1]] \in [Index -> Nat]
    BY <1>4, GotType DEF ActOnRecv
  <2>3. OneExecuted(SendOps) /\ Same(SysOps)
    BY <1>4, <2>1, <2>2, Counts DEF ActOnRecv
  <2>4. OpenRecv /\ ~OpenRecv'
    BY <1>4, <2>1 DEF ActOnRecv, Kept
  <2>5. OpenSys' = OpenSys
    BY <1>4, <2>1 DEF ActOnRecv, mailboxes
  <2>. QED
    BY <2>3, <2>4, <2>5 DEF RecvLogged, SysLogged
<1>5. CASE ActOnSyscommand
  <2>1. op \in SysOps /\ op \notin SendOps
    BY <1>5 DEF ActOnSyscommand, MainTypeOK
  <2>2. OneExecuted(SysOps) /\ Same(SendOps)
    BY <1>5, <2>1, ZerosType, Counts DEF ActOnSyscommand
  <2>3. OpenSys /\ ~OpenSys'
    BY <1>5, <2>1 DEF ActOnSyscommand, Kept
  <2>4. OpenRecv' = OpenRecv
    BY <1>5, <2>1 DEF ActOnSyscommand, mailboxes
  <2>. QED
    BY <2>2, <2>3, <2>4 DEF RecvLogged, SysLogged
<1>. QED
  BY <1>1, <1>2, <1>3, <1>4, <1>5, LibrarySteps DEF MainNext, Loop

LEMMA LostStep ==
    ASSUME MainTypeOK, discipline # "none", Kept, NoneLost, [MainNext]_mainVars
    PROVE  NoneLost'
<1>. DEFINE owed == Pending(has_recv, SendOps)
            owedSys == Pending(has_syscommand, SysOps)
<1>1. /\ owed = IF OpenRecv THEN 1 ELSE 0
      /\ owedSys = IF OpenSys THEN 1 ELSE 0
      /\ owed' = IF OpenRecv' THEN 1 ELSE 0
      /\ owedSys' = IF OpenSys' THEN 1 ELSE 0
  BY DEF Pending, OpenRecv, OpenSys, Open
<1>2. /\ HowMany(completed, SendOps) = HowMany(executed, SendOps) + owed
      /\ HowMany(completed, SysOps) = HowMany(executed, SysOps) + owedSys
  BY DEF NoneLost
<1>. HIDE DEF owed, owedSys
<1>3. \A ops : HowMany(completed, ops) \in Nat /\ HowMany(executed, ops) \in Nat
  BY HowManyType
<1>4. RecvLogged /\ SysLogged
  BY LoggedSteps
<1>5. HowMany(completed', SendOps) = HowMany(executed', SendOps) + owed'
  BY <1>1, <1>2, <1>3, <1>4 DEF RecvLogged, Same, OneCompleted, OneExecuted
<1>6. HowMany(completed', SysOps) = HowMany(executed', SysOps) + owedSys'
  BY <1>1, <1>2, <1>3, <1>4 DEF SysLogged, Same, OneCompleted, OneExecuted
<1>7. \A ops : /\ HowMany(completed, ops)' = HowMany(completed', ops)
               /\ HowMany(executed, ops)' = HowMany(executed', ops)
  BY DEF HowMany
<1>. QED
  BY <1>5, <1>6, <1>7 DEF NoneLost, owed, owedSys

\* The bytes the loop has read are those of the buffer.
LEMMA GotAll ==
    ASSUME MainTypeOK, Intact, at = "recv", Len(got) = RECV_MAXLEN
    PROVE  [i \in Index |-> got[i + 1]] = recv_data
<1>1. ASSUME NEW i \in Index PROVE got[i + 1] = recv_data[i]
  <2>1. i + 1 \in DOMAIN got /\ (i + 1) - 1 = i
    BY DEF MainTypeOK, Index
  <2>2. got[i + 1] = recv_data[(i + 1) - 1]
    BY <2>1 DEF Intact
  <2>. QED
    BY <2>1, <2>2
<1>. QED
  BY <1>1 DEF MainTypeOK

\* The command that was acted upon is the last of the log.
LEMMA ActedUpon ==
    ASSUME MainTypeOK, NEW c \in SendOps \cup SysOps, NEW data \in [Index -> Nat],
           executed' = Append(executed, Command(c, data))
    PROVE  /\ Len(executed') = Len(executed) + 1
           /\ \A i \in DOMAIN executed' :
                 \/ i \in DOMAIN executed /\ executed'[i] = executed[i]
                 \/ i = Len(executed) + 1 /\ executed'[i] = Command(c, data)
<1>. DEFINE entry == Command(c, data)
<1>1. entry \in Commands /\ executed \in Seq(Commands) /\ executed' = Append(executed, entry)
  BY CommandFields DEF MainTypeOK
<1>. HIDE DEF entry
<1>2. /\ Len(executed') = Len(executed) + 1
      /\ \A i \in DOMAIN executed' :
            \/ i \in DOMAIN executed /\ executed'[i] = executed[i]
            \/ i = Len(executed) + 1 /\ executed'[i] = entry
  BY <1>1, AppendProperties
<1>. QED
  BY <1>2 DEF entry

\* What a step acts upon is in the mailbox it serves.
LEMMA ActSteps ==
    ASSUME MainTypeOK, discipline # "none", Kept, Intact, [MainNext]_mainVars
    PROVE  \/ executed' = executed
           \/ /\ OpenRecv /\ ~OpenRecv' /\ OpenSys' = OpenSys
              /\ UNCHANGED <<tr, mailboxes, recv_data, completed>>
              /\ has_recv \in SendOps
              /\ executed' = Append(executed, Command(has_recv, recv_data))
           \/ /\ OpenSys /\ ~OpenSys' /\ OpenRecv' = OpenRecv
              /\ UNCHANGED <<tr, mailboxes, recv_data, completed>>
              /\ has_syscommand \in SysOps
              /\ executed' = Append(executed, Command(has_syscommand, Zeros))
<1>. USE DEF OpenRecv, OpenSys, Open
<1>1. CASE ActOnRecv
  <2>1. op \in SendOps /\ op \notin SysOps /\ has_recv = op
    BY <1>1 DEF ActOnRecv, MainTypeOK, Kept
  <2>2. executed' = Append(executed, Command(op, recv_data))
    BY <1>1, GotAll DEF ActOnRecv
  <2>. QED
    BY <1>1, <2>1, <2>2 DEF ActOnRecv, mailboxes
<1>2. CASE ActOnSyscommand
  <2>1. op \in SysOps /\ op \notin SendOps /\ has_syscommand = op
    BY <1>2 DEF ActOnSyscommand, MainTypeOK, Kept
  <2>. QED
    BY <1>2, <2>1 DEF ActOnSyscommand, mailboxes
<1>3. ASSUME Unmoved PROVE executed' = executed
  BY <1>3 DEF Unmoved
<1>4. CASE \/ TakeSend \/ TakeRecv \/ TakeSyscommand
           \/ SkipSend \/ SkipRecv \/ SkipSyscommand
           \/ ReadByte \/ ActOnSend \/ Clear
           \/ UNCHANGED mainVars
  BY <1>4, QuietSteps
<1>. QED
  BY <1>1, <1>2, <1>3, <1>4, LibrarySteps DEF MainNext, Loop

\* No step takes a command out of the log of those completed.
LEMMA LogOnlyGrows ==
    ASSUME MainTypeOK, [MainNext]_mainVars
    PROVE  \A j \in DOMAIN completed : j \in DOMAIN completed' /\ completed'[j] = completed[j]
<1>1. ASSUME Completes
      PROVE  \A j \in DOMAIN completed : j \in DOMAIN completed' /\ completed'[j] = completed[j]
  <2>1. tr.op \in SendOps
    BY <1>1 DEF Completes, MainTypeOK, NoTransaction, Sending, Receiving
  <2>2. Sent \in [Index -> Nat]
    BY DEF Sent, MainTypeOK
  <2>. QED
    BY <1>1, <2>1, <2>2, StaysLogged DEF Completes
<1>2. ASSUME NEW c \in SysOps, Commanded(c)
      PROVE  \A j \in DOMAIN completed : j \in DOMAIN completed' /\ completed'[j] = completed[j]
  BY <1>2, ZerosType, StaysLogged DEF Commanded
<1>3. CASE ActOnRecv \/ ActOnSyscommand
  BY <1>3 DEF ActOnRecv, ActOnSyscommand
<1>4. ASSUME completed' = completed
      PROVE  \A j \in DOMAIN completed : j \in DOMAIN completed' /\ completed'[j] = completed[j]
  BY <1>4
<1>. QED
  BY <1>1, <1>2, <1>3, <1>4, LibrarySteps, QuietSteps DEF MainNext, Loop

LEMMA ProcessStep ==
    ASSUME MainTypeOK, discipline # "none", Kept, Intact, ProcessesWhatCompleted,
           [MainNext]_mainVars
    PROVE  ProcessesWhatCompleted'
<1>1. \A i \in DOMAIN executed : \E j \in DOMAIN completed' : executed[i] = completed'[j]
  BY LogOnlyGrows DEF ProcessesWhatCompleted
<1>2. ASSUME NEW c \in SendOps \cup SysOps, NEW data \in [Index -> Nat],
             executed' = Append(executed, Command(c, data)), completed' = completed,
             \E j \in DOMAIN completed : completed[j] = Command(c, data)
      PROVE  ProcessesWhatCompleted'
  <2>1. \A i \in DOMAIN executed' :
            \/ i \in DOMAIN executed /\ executed'[i] = executed[i]
            \/ i = Len(executed) + 1 /\ executed'[i] = Command(c, data)
    BY <1>2, ActedUpon
  <2>. QED
    BY <1>1, <1>2, <2>1 DEF ProcessesWhatCompleted
<1>3. CASE executed' = executed
  BY <1>1, <1>3 DEF ProcessesWhatCompleted
<1>4. CASE /\ OpenRecv /\ completed' = completed /\ has_recv \in SendOps
           /\ executed' = Append(executed, Command(has_recv, recv_data))
  BY <1>2, <1>4 DEF OpenRecv, Open, Intact, MainTypeOK
<1>5. CASE /\ OpenSys /\ completed' = completed /\ has_syscommand \in SysOps
           /\ executed' = Append(executed, Command(has_syscommand, Zeros))
  BY <1>2, <1>5, ZerosType DEF OpenSys, Open, Intact
<1>. QED
  BY <1>3, <1>4, <1>5, ActSteps

(* The inductive invariant for an OBC that waits at least for the mailbox it fills. *)
LEMMA PatientInvariant == MainSpec => []PatientIInv
<1>1. MainInit => PatientIInv
  <2> SUFFICES ASSUME MainInit, AnyIInv PROVE PatientIInv
    BY AnyInit
  <2>1. Kept /\ Intact
    BY DEF MainInit, Init, NoTransaction, Kept, Intact
  <2>2. NoneLost
    <3>1. executed = << >> /\ completed = << >> /\ has_recv = Empty /\ has_syscommand = Empty
      BY DEF MainInit
    <3>2. \A o : HowMany(executed, o) = 0 /\ HowMany(completed, o) = 0
      BY <3>1, HowManyEmpty
    <3>3. Pending(has_recv, SendOps) = 0 /\ Pending(has_syscommand, SysOps) = 0
      BY <3>1 DEF Pending
    <3>. QED
      BY <3>2, <3>3 DEF NoneLost
  <2>3. ProcessesWhatCompleted
    BY DEF MainInit, ProcessesWhatCompleted
  <2>. QED
    BY <2>1, <2>2, <2>3 DEF PatientIInv
<1>2. PatientIInv /\ [MainNext]_mainVars => PatientIInv'
  <2> SUFFICES ASSUME PatientIInv, [MainNext]_mainVars PROVE PatientIInv'
    OBVIOUS
  <2>1. discipline' = discipline
    BY DisciplineStays DEF PatientIInv, AnyIInv
  <2>. QED
    BY <2>1, TypeStep, ArrivingStep, OnceStep, KeptStep, IntactStep, LostStep, ProcessStep
    DEF PatientIInv, AnyIInv
<1>. QED
  BY <1>1, <1>2, PTL DEF MainSpec

(* To an OBC that waits for the mailbox it fills, what the loop acts upon is a command   *)
(* as it was completed: the bytes are not those of another transfer, nor a mix of two.   *)
THEOREM ActsOnWhatWasSent == MainSpec => []ProcessesWhatCompleted
<1>1. PatientIInv => ProcessesWhatCompleted
  BY DEF PatientIInv, ProcessesWhatCompleted
<1>. QED
  BY <1>1, PatientInvariant, PTL

(* To such an OBC no command is lost: those completed and not acted upon are in the mailboxes. *)
THEOREM NoCommandLost == MainSpec => []NoneLost
<1>1. PatientIInv => NoneLost
  BY DEF PatientIInv, NoneLost
<1>. QED
  BY <1>1, PatientInvariant, PTL
-----------------------------------------------------------------------------
(* An OBC that waits for both mailboxes. *)

\* How the one open command comes and goes.
LEMMA TurnSteps ==
    ASSUME MainTypeOK, discipline = "idle", Kept, Intact, InTurn, [MainNext]_mainVars
    PROVE  /\ has_recv' = Empty \/ has_syscommand' = Empty
           /\ tr'.dir = "recv" => has_recv' = Empty /\ has_syscommand' = Empty
<1>1. ASSUME Unmoved,
             \/ \E o, len : Starts(o, len)
             \/ \E n : Arrives(n)
             \/ Completes
             \/ \E o : Commanded(o)
             \/ Other
      PROVE  /\ has_recv' = Empty \/ has_syscommand' = Empty
             /\ tr'.dir = "recv" => has_recv' = Empty /\ has_syscommand' = Empty
  BY <1>1 DEF Starts, Arrives, Completes, Commanded, Other, mailboxes, InTurn, NoTransaction, Sending
<1>2. CASE Clear
  BY <1>2 DEF Clear, InTurn
<1>3. CASE \/ TakeSend \/ TakeRecv \/ TakeSyscommand
           \/ SkipSend \/ SkipRecv \/ SkipSyscommand
           \/ ReadByte \/ ActOnRecv \/ ActOnSyscommand \/ ActOnSend
           \/ UNCHANGED mainVars
  <2>1. UNCHANGED <<tr, has_recv, has_syscommand>>
    BY <1>3 DEF TakeSend, TakeRecv, TakeSyscommand, SkipSend, SkipRecv, SkipSyscommand, Skip,
                ReadByte, ActOnRecv, ActOnSyscommand, ActOnSend, mainVars, mailboxes
  <2>. QED
    BY <2>1 DEF InTurn
<1>. QED
  BY <1>1, <1>2, <1>3, LibrarySteps DEF MainNext, Loop

\* The log of what was completed grows with the command that is then open.
LEMMA OpenSteps ==
    ASSUME MainTypeOK, Arriving, discipline = "idle", Kept, Intact, InTurn, [MainNext]_mainVars
    PROVE  \/ /\ OpenRecv' = OpenRecv /\ OpenSys' = OpenSys
              /\ completed' = completed /\ executed' = executed
              /\ OpenRecv => UNCHANGED <<has_recv, recv_data>>
              /\ OpenSys => has_syscommand' = has_syscommand
           \/ /\ ~OpenRecv /\ ~OpenSys /\ OpenRecv' /\ ~OpenSys' /\ executed' = executed
              /\ Len(completed') = Len(completed) + 1
              /\ completed'[Len(completed')] = Command(has_recv', recv_data')
           \/ /\ ~OpenRecv /\ ~OpenSys /\ ~OpenRecv' /\ OpenSys' /\ executed' = executed
              /\ Len(completed') = Len(completed) + 1
              /\ completed'[Len(completed')] = Command(has_syscommand', Zeros)
           \/ /\ OpenRecv /\ ~OpenRecv' /\ ~OpenSys' /\ completed' = completed
              /\ Len(executed') = Len(executed) + 1
           \/ /\ OpenSys /\ ~OpenRecv' /\ ~OpenSys' /\ completed' = completed
              /\ Len(executed') = Len(executed) + 1
<1>. USE DEF OpenRecv, OpenSys, Open
<1>1. ASSUME Unmoved, Completes
      PROVE  /\ ~OpenRecv /\ ~OpenSys /\ OpenRecv' /\ ~OpenSys' /\ executed' = executed
             /\ Len(completed') = Len(completed) + 1
             /\ completed'[Len(completed')] = Command(has_recv', recv_data')
  <2>1. tr.op \in SendOps
    BY <1>1 DEF Completes, MainTypeOK, NoTransaction, Sending, Receiving
  <2>2. completed' = Append(completed, Command(tr.op, recv_data)) /\ recv_data \in [Index -> Nat]
    BY <1>1, AllArrived DEF Completes, MainTypeOK
  <2>3. /\ Len(completed') = Len(completed) + 1
        /\ completed'[Len(completed')] = Command(tr.op, recv_data)
    BY <2>1, <2>2, StaysLogged
  <2>4. has_recv = Empty /\ has_syscommand = Empty
    BY <1>1 DEF Completes, InTurn
  <2>. QED
    BY <1>1, <2>1, <2>3, <2>4 DEF Completes, Unmoved, Kept
<1>2. ASSUME NEW c \in SysOps, Unmoved, Commanded(c)
      PROVE  /\ ~OpenRecv /\ ~OpenSys /\ ~OpenRecv' /\ OpenSys' /\ executed' = executed
             /\ Len(completed') = Len(completed) + 1
             /\ completed'[Len(completed')] = Command(has_syscommand', Zeros)
  <2>1. /\ Len(completed') = Len(completed) + 1
        /\ completed'[Len(completed')] = Command(c, Zeros)
    BY <1>2, ZerosType, StaysLogged DEF Commanded
  <2>. QED
    BY <1>2, <2>1 DEF Commanded, Unmoved, Kept, MainTypeOK
<1>3. ASSUME \/ \E o, len : Unmoved /\ Starts(o, len)
             \/ \E n : Unmoved /\ Arrives(n)
             \/ Unmoved /\ Other
             \/ TakeSend \/ TakeRecv \/ TakeSyscommand
             \/ SkipSend \/ SkipRecv \/ SkipSyscommand
             \/ ReadByte \/ ActOnSend \/ Clear
             \/ UNCHANGED mainVars
      PROVE  /\ OpenRecv' = OpenRecv /\ OpenSys' = OpenSys
             /\ completed' = completed /\ executed' = executed
             /\ OpenRecv => UNCHANGED <<has_recv, recv_data>>
             /\ OpenSys => has_syscommand' = has_syscommand
  <2>1. completed' = completed /\ executed' = executed
    BY <1>3, QuietSteps
  <2>2. CASE \/ \E o, len : Unmoved /\ Starts(o, len)
             \/ \E n : Unmoved /\ Arrives(n)
             \/ Unmoved /\ Other
             \/ UNCHANGED mainVars
    BY <2>1, <2>2 DEF Unmoved, Starts, Arrives, Other, mainVars, mailboxes, InTurn
  <2>3. CASE TakeSend \/ TakeRecv \/ TakeSyscommand
    BY <2>1, <2>3 DEF TakeSend, TakeRecv, TakeSyscommand, mailboxes
  <2>4. CASE SkipSend \/ SkipRecv \/ SkipSyscommand
    BY <2>1, <2>4 DEF SkipSend, SkipRecv, SkipSyscommand, Skip, mailboxes
  <2>5. CASE ReadByte \/ ActOnSend
    BY <2>1, <2>5 DEF ReadByte, ActOnSend, MainTypeOK, mailboxes
  <2>6. CASE Clear
    BY <2>1, <2>6 DEF Clear
  <2>. QED
    BY <1>3, <2>2, <2>3, <2>4, <2>5, <2>6
<1>4. CASE ActOnRecv \/ ActOnSyscommand
  <2>1. Len(executed') = Len(executed) + 1
    BY <1>4, ActSteps, ActedUpon, ZerosType DEF ActOnRecv, ActOnSyscommand, MainTypeOK
  <2>2. CASE ActOnRecv
    BY <2>1, <2>2 DEF ActOnRecv, MainTypeOK, Kept, InTurn, mailboxes
  <2>3. CASE ActOnSyscommand
    BY <2>1, <2>3 DEF ActOnSyscommand, MainTypeOK, Kept, InTurn, mailboxes
  <2>. QED
    BY <1>4, <2>2, <2>3
<1>. QED
  BY <1>1, <1>2, <1>3, <1>4, LibrarySteps DEF MainNext, Loop

LEMMA TurnStep ==
    ASSUME MainTypeOK, Arriving, discipline = "idle", Kept, Intact, InTurn, [MainNext]_mainVars
    PROVE  InTurn'
<1>. DEFINE last == completed[Len(completed)]
<1>1. /\ Len(completed) = Len(executed) + IF OpenRecv \/ OpenSys THEN 1 ELSE 0
      /\ OpenRecv => last = Command(has_recv, recv_data)
      /\ OpenSys => last = Command(has_syscommand, Zeros)
  BY DEF InTurn, OpenRecv, OpenSys
<1>2. Len(completed) \in Nat /\ Len(executed) \in Nat
  BY DEF MainTypeOK
<1>3. /\ Len(completed') = Len(executed') + IF OpenRecv' \/ OpenSys' THEN 1 ELSE 0
      /\ OpenRecv' => last' = Command(has_recv', recv_data')
      /\ OpenSys' => last' = Command(has_syscommand', Zeros)
  <2>1. ~(OpenRecv /\ OpenSys)
    BY DEF InTurn, OpenRecv, OpenSys, Open
  <2>. QED
    BY <1>1, <1>2, <2>1, OpenSteps
<1>4. /\ has_recv' = Empty \/ has_syscommand' = Empty
      /\ tr'.dir = "recv" => has_recv' = Empty /\ has_syscommand' = Empty
  BY TurnSteps
<1>. QED
  BY <1>3, <1>4 DEF InTurn, OpenRecv, OpenSys

LEMMA OrderStep ==
    ASSUME MainTypeOK, Arriving, discipline = "idle", Kept, Intact, InTurn, InTurn', InOrder,
           [MainNext]_mainVars
    PROVE  InOrder'
<1>1. /\ Len(completed) \in Nat /\ Len(executed) \in Nat
      /\ DOMAIN executed = 1..Len(executed) /\ DOMAIN completed = 1..Len(completed)
  BY DEF MainTypeOK
<1>2. /\ Len(executed) <= Len(completed)
      /\ \A i \in DOMAIN executed : executed[i] = completed[i]
  BY DEF InOrder
<1>3. \A i \in DOMAIN executed : executed[i] = completed'[i]
  BY <1>1, <1>2, LogOnlyGrows
<1>4. Len(executed') <= Len(completed')
  <2>1. Len(completed') = Len(executed') + IF OpenRecv' \/ OpenSys' THEN 1 ELSE 0
    BY DEF InTurn, OpenRecv, OpenSys
  <2>2. Len(executed') \in Nat
    BY TypeStep DEF MainTypeOK
  <2>. QED
    BY <2>1, <2>2
<1>5. ASSUME NEW c \in SendOps \cup SysOps, NEW data \in [Index -> Nat],
             executed' = Append(executed, Command(c, data)), completed' = completed,
             Len(completed) = Len(executed) + 1,
             completed[Len(completed)] = Command(c, data)
      PROVE  \A i \in DOMAIN executed' : executed'[i] = completed'[i]
  BY <1>3, <1>5, ActedUpon
<1>6. \A i \in DOMAIN executed' : executed'[i] = completed'[i]
  <2>1. CASE executed' = executed
    BY <1>3, <2>1
  <2>2. CASE /\ OpenRecv /\ completed' = completed /\ has_recv \in SendOps
             /\ executed' = Append(executed, Command(has_recv, recv_data))
    <3>1. /\ Len(completed) = Len(executed) + 1
          /\ completed[Len(completed)] = Command(has_recv, recv_data)
      BY <2>2 DEF InTurn, OpenRecv, OpenSys
    <3>2. recv_data \in [Index -> Nat]
      BY DEF MainTypeOK
    <3>. QED
      BY <1>5, <2>2, <3>1, <3>2
  <2>3. CASE /\ OpenSys /\ completed' = completed /\ has_syscommand \in SysOps
             /\ executed' = Append(executed, Command(has_syscommand, Zeros))
    <3>1. /\ Len(completed) = Len(executed) + 1
          /\ completed[Len(completed)] = Command(has_syscommand, Zeros)
      BY <2>3 DEF InTurn, OpenRecv, OpenSys
    <3>. QED
      BY <1>5, <2>3, <3>1, ZerosType
  <2>. QED
    BY <2>1, <2>2, <2>3, ActSteps
<1>. QED
  BY <1>4, <1>6 DEF InOrder

(* The inductive invariant for an OBC that waits for both mailboxes. *)
LEMMA IdleInvariant == MainSpec => []IdleIInv
<1>1. MainInit => InTurn /\ InOrder
  BY DEF MainInit, Init, NoTransaction, InTurn, InOrder, Open
<1>2. IdleIInv /\ PatientIInv' /\ [MainNext]_mainVars => IdleIInv'
  <2> SUFFICES ASSUME IdleIInv, PatientIInv', [MainNext]_mainVars PROVE IdleIInv'
    OBVIOUS
  <2>1. discipline' = discipline
    BY DisciplineStays DEF IdleIInv, PatientIInv, AnyIInv
  <2>2. CASE discipline = "idle"
    <3>1. MainTypeOK /\ Arriving /\ Kept /\ Intact /\ InTurn /\ InOrder
      BY <2>2 DEF IdleIInv, PatientIInv, AnyIInv
    <3>2. InTurn'
      BY <2>2, <3>1, TurnStep
    <3>3. InOrder'
      BY <2>2, <3>1, <3>2, OrderStep
    <3>. QED
      BY <3>2, <3>3 DEF IdleIInv
  <2>3. CASE discipline # "idle"
    BY <2>1, <2>3 DEF IdleIInv
  <2>. QED
    BY <2>2, <2>3
<1>3. PatientIInv /\ InTurn /\ InOrder => IdleIInv
  BY DEF IdleIInv
<1>. QED
  BY PatientInvariant, <1>1, <1>2, <1>3, PTL DEF MainSpec

(* An OBC that waits for both mailboxes has its commands acted upon in the order in which *)
(* it gave them, each with the bytes that came with it, whatever their kinds.             *)
THEOREM CommandsInOrder == MainSpec => []InOrder
<1>1. IdleIInv => InOrder
  BY DEF IdleIInv, InOrder
<1>. QED
  BY <1>1, IdleInvariant, PTL
=============================================================================
