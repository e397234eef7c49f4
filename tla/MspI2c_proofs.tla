--------------------------- MODULE MspI2c_proofs ---------------------------
(***************************************************************************)
(* Proofs about the bus between the OBC and the payload, for any bytes,    *)
(* any size of the buffers, and any number of writes and disturbances.     *)
(*                                                                         *)
(* The invariant says, for each state of the bus and each status the core  *)
(* may report, what the driver has kept of the transfer so far.            *)
(***************************************************************************)
EXTENDS MspI2c, SequenceTheorems, TLAPS

USE SizeAssumption

Cells == [of : Nat, n : Bytes \cup Nat]

Registers ==
    [AA : BOOLEAN, SI : BOOLEAN, DATA : Cells,
     STATUS : {"IDLE", "SLA_NACK", "SLAVE_SLAW", "RDATA", "RSTOP", "SLAVE_SLAR_ACK",
               "RACK", "RNACK", "FINAL", "BUS_ERROR"}]

I2cTypeOK ==
    /\ transaction \in {"none", "write_slave", "read_slave"}
    /\ rx \in Seq(Cells)
    /\ tx_idx \in Nat
    /\ reply \in Nat
    /\ reg \in Registers
    /\ bus \in {"idle", "write", "read", "released"}
    /\ frame \in Seq(Bytes)
    /\ read \in Seq(Cells)
    /\ written \in [number : Nat, bytes : Seq(Bytes)]
    /\ handled \in [number : Nat, bytes : Seq(Cells)]
    /\ deaf \in BOOLEAN

\* The driver is done with what was reported, and waits for the OBC.
Waiting ==
    Ready =>
        /\ transaction = CASE bus = "write" -> "write_slave"
                           [] bus = "read"  -> "read_slave"
                           [] OTHER         -> "none"
        /\ bus # "read" => tx_idx = 0
        /\ bus = "write" => rx = Data(frame) /\ (reg.AA <=> Room)
        /\ bus = "read" => /\ reg.DATA = [of |-> reply, n |-> Len(read) + 1]
                           /\ reg.AA => tx_idx = Len(read) + 1
        /\ bus = "released" => reg.AA
        /\ bus = "idle" /\ ~deaf => reg.AA

\* What was reported, and the driver has not served yet.
Serving ==
    ~Ready =>
        \/ /\ reg.STATUS = "SLAVE_SLAW"
           /\ bus = "write" /\ frame = << >> /\ reg.AA /\ tx_idx = 0
        \/ /\ reg.STATUS = "RDATA"
           /\ bus = "write" /\ transaction = "write_slave" /\ reg.AA /\ tx_idx = 0
           /\ Room /\ Append(rx, reg.DATA) = Data(frame)
        \/ reg.STATUS = "SLA_NACK" /\ bus = "released" /\ tx_idx = 0
        \/ /\ reg.STATUS = "SLAVE_SLAR_ACK"
           /\ bus = "read" /\ read = << >> /\ tx_idx = 0
        \/ /\ reg.STATUS = "RACK"
           /\ bus = "read" /\ transaction = "read_slave" /\ reg.AA /\ tx_idx = Len(read)
        \/ reg.STATUS \in {"RNACK", "FINAL"} /\ bus = "released"
        \/ reg.STATUS = "BUS_ERROR" /\ bus = "idle" /\ (~deaf => reg.AA)
        \/ /\ reg.STATUS = "RSTOP"
           /\ bus = "idle"
           /\ transaction = "write_slave" => rx = Data(written.bytes) /\ tx_idx = 0

\* A write that ended and was not handed over yet.
Outstanding == ~Ready /\ reg.STATUS = "RSTOP" /\ transaction = "write_slave"

\* The handler is behind the OBC by that write, and by no other.
Handled ==
    /\ reply = handled.number
    /\ written.number = IF Outstanding THEN handled.number + 1 ELSE handled.number
    /\ ~Outstanding => handled.bytes = Data(written.bytes)

\* The OBC has read the reply from its first byte on.
InStep == bus = "read" => \A k \in DOMAIN read : read[k] = [of |-> reply, n |-> k]

I2cIInv == I2cTypeOK /\ Waiting /\ Serving /\ Handled /\ InStep
-----------------------------------------------------------------------------
USE DEF I2cIInv

(* A byte more of a frame is a byte more of its data. *)
LEMMA DataAppend ==
    ASSUME NEW bytes \in Seq(Bytes), NEW byte \in Bytes
    PROVE  /\ Append(bytes, byte) \in Seq(Bytes)
           /\ Data(bytes) \in Seq(Cells)
           /\ Data(Append(bytes, byte)) = Append(Data(bytes), [of |-> 0, n |-> byte])
<1> DEFINE cell == [of |-> 0, n |-> byte]
<1>1. /\ Append(bytes, byte) \in Seq(Bytes)
      /\ Len(Append(bytes, byte)) = Len(bytes) + 1
      /\ \A k \in 1..Len(bytes) : Append(bytes, byte)[k] = bytes[k]
      /\ Append(bytes, byte)[Len(bytes) + 1] = byte
  BY AppendProperties
<1>2. Data(bytes) \in Seq(Cells) /\ Len(Data(bytes)) = Len(bytes)
  <2>1. /\ Len(bytes) \in Nat /\ DOMAIN bytes = 1..Len(bytes)
        /\ \A k \in 1..Len(bytes) : bytes[k] \in Bytes
    BY LenProperties, ElementOfSeq
  <2>2. Data(bytes) \in [1..Len(bytes) -> Cells]
    BY <2>1 DEF Data, Cells
  <2>3. Data(bytes) \in Seq(Cells)
    BY <2>1, <2>2, SeqDef
  <2>. QED
    BY <2>1, <2>2, <2>3, LenProperties
<1>. QED
  BY <1>1, <1>2 DEF Data

LEMMA DataEmpty == Data(<< >>) = << >>
BY DEF Data

(* The first state satisfies the invariant. *)
LEMMA I2cInitIInv == MspI2cInit => I2cIInv
<1> SUFFICES ASSUME MspI2cInit PROVE I2cIInv
  OBVIOUS
<1> USE DEF MspI2cInit, MSS_I2C_enable_slave
<1>1. I2cTypeOK
  <2>1. NoData \in Cells
    BY DEF Cells, NoData
  <2>2. reg \in Registers
    BY <2>1 DEF Registers
  <2>3. << >> \in Seq(Cells) /\ << >> \in Seq(Bytes)
    BY EmptySeq
  <2>. QED
    BY <2>2, <2>3 DEF I2cTypeOK
<1>. QED
  BY <1>1, DataEmpty DEF Waiting, Serving, Handled, InStep, Outstanding, Ready

(* Serving an interrupt leaves the registers their types. *)
LEMMA ServedType ==
    ASSUME reg \in Registers, NEW aa \in BOOLEAN, Served(aa)
    PROVE  reg' \in Registers /\ Ready' /\ reg'.AA = aa
BY DEF Registers, Served, Ready

(* The handler takes over exactly the write that ended. *)
LEMMA WriteHandlerIInv ==
    ASSUME I2cIInv, ST_RSTOP_Write(I2C1_SlaveWriteHandler), UNCHANGED obcVars
    PROVE  I2cIInv'
<1> USE DEF ST_RSTOP_Write, I2C1_SlaveWriteHandler, obcVars, Interrupted
<1>1. I2cTypeOK'
  <2>1. handled' \in [number : Nat, bytes : Seq(Cells)] /\ reply' \in Nat
    BY DEF I2cTypeOK
  <2>2. UNCHANGED <<rx, bus, frame, read, written, deaf>> /\ tx_idx' \in Nat
    BY DEF I2cTypeOK
  <2>. QED
    BY <2>1, <2>2, ServedType DEF I2cTypeOK
<1>2. Outstanding /\ bus = "idle" /\ rx = Data(written.bytes) /\ tx_idx = 0
  BY DEF Serving, Outstanding, Ready
<1>3. Ready' /\ reg'.AA = TRUE
  BY ServedType DEF I2cTypeOK
<1>4. Waiting'
  BY <1>2, <1>3 DEF Waiting
<1>5. Serving' /\ InStep'
  BY <1>2, <1>3 DEF Serving, InStep
<1>6. Handled'
  BY <1>2, <1>3 DEF Handled, Outstanding, I2cTypeOK
<1>. QED
  BY <1>1, <1>4, <1>5, <1>6

(* The other interrupts leave the driver waiting, with what was reported     *)
(* taken into account, and nothing handed over.                              *)
LEMMA IsrIInv ==
    ASSUME I2cIInv, mss_i2c_isr, UNCHANGED handled, UNCHANGED obcVars
    PROVE  I2cIInv'
<1> USE DEF mss_i2c_isr, obcVars, Interrupted
<1>1. ~Ready /\ ~Outstanding /\ reply' = reply
  BY DEF ST_SLA_NACK, ST_SLAVE_SLAW, ST_RDATA, ST_RSTOP_Other, ST_SLAVE_TX,
         ST_SLAVE_RNACK, ST_BUS_ERROR, Outstanding, Ready
<1>2. reg \in Registers /\ reg.AA \in BOOLEAN
  BY DEF I2cTypeOK, Registers
<1>3. CASE ST_SLA_NACK
  <2>1. reg' \in Registers /\ Ready' /\ reg'.AA = TRUE
    BY <1>2, <1>3, ServedType DEF ST_SLA_NACK
  <2>2. I2cTypeOK'
    BY <1>3, <2>1 DEF ST_SLA_NACK, I2cTypeOK
  <2>3. Waiting'
    BY <1>1, <1>3, <2>1 DEF ST_SLA_NACK, Serving, Waiting
  <2>. QED
    BY <1>1, <1>3, <2>1, <2>2, <2>3 DEF ST_SLA_NACK, Serving, Handled, InStep, Outstanding
<1>4. CASE ST_SLAVE_SLAW
  <2>1. reg' \in Registers /\ Ready' /\ reg'.AA = reg.AA
    BY <1>2, <1>4, ServedType DEF ST_SLAVE_SLAW
  <2>2. I2cTypeOK'
    BY <1>4, <2>1, EmptySeq DEF ST_SLAVE_SLAW, StartWrite, I2cTypeOK
  <2>3. bus = "write" /\ frame = << >> /\ reg.AA = TRUE /\ tx_idx = 0
    BY <1>1, <1>2, <1>4 DEF ST_SLAVE_SLAW, Serving
  <2>4. rx' = Data(frame') /\ Room'
    BY <1>4, <2>3, DataEmpty, EmptySeq DEF ST_SLAVE_SLAW, StartWrite, Room
  <2>5. Waiting'
    BY <1>4, <2>1, <2>3, <2>4 DEF ST_SLAVE_SLAW, Waiting
  <2>. QED
    BY <1>1, <1>4, <2>1, <2>2, <2>5 DEF ST_SLAVE_SLAW, Serving, Handled, InStep, Outstanding
<1>5. CASE ST_RDATA
  <2>1. /\ bus = "write" /\ transaction = "write_slave" /\ reg.AA = TRUE /\ tx_idx = 0
        /\ Room /\ Append(rx, reg.DATA) = Data(frame)
    BY <1>1, <1>2, <1>5 DEF ST_RDATA, Serving
  <2>2. rx' = Data(frame) /\ rx' \in Seq(Cells) /\ Len(rx') \in Nat
    BY <1>2, <1>5, <2>1, AppendProperties, LenProperties
    DEF ST_RDATA, I2cTypeOK, Registers
  <2>3. reg' \in Registers /\ Ready' /\ (reg'.AA <=> Room')
    <3>1. CASE Len(rx') >= Size
      <4>1. (IF Len(rx') >= Size THEN FALSE ELSE reg.AA) = FALSE
        BY <3>1
      <4>2. Served(FALSE)
        BY <1>5, <4>1, Zenon DEF ST_RDATA
      <4>3. ~Room'
        BY <2>2, <3>1 DEF Room
      <4>. QED
        BY <1>2, <4>2, <4>3, ServedType
    <3>2. CASE ~(Len(rx') >= Size)
      <4>1. (IF Len(rx') >= Size THEN FALSE ELSE reg.AA) = TRUE
        BY <2>1, <3>2
      <4>2. Served(TRUE)
        BY <1>5, <4>1, Zenon DEF ST_RDATA
      <4>3. Room'
        BY <2>2, <3>2 DEF Room
      <4>. QED
        BY <1>2, <4>2, <4>3, ServedType
    <3>. QED
      BY <3>1, <3>2
  <2>4. I2cTypeOK'
    BY <1>5, <2>2, <2>3 DEF ST_RDATA, I2cTypeOK
  <2>5. Waiting'
    BY <1>5, <2>1, <2>2, <2>3 DEF ST_RDATA, Waiting
  <2>. QED
    BY <1>1, <1>5, <2>3, <2>4, <2>5 DEF ST_RDATA, Serving, Handled, InStep, Outstanding
<1>6. CASE ST_RSTOP_Other
  <2>1. reg' \in Registers /\ Ready' /\ reg'.AA = TRUE
    BY <1>2, <1>6, ServedType DEF ST_RSTOP_Other
  <2>2. I2cTypeOK'
    BY <1>6, <2>1 DEF ST_RSTOP_Other, EndRead, I2cTypeOK
  <2>3. Waiting'
    BY <1>1, <1>6, <2>1 DEF ST_RSTOP_Other, EndRead, Serving, Waiting
  <2>. QED
    BY <1>1, <1>6, <2>1, <2>2, <2>3 DEF ST_RSTOP_Other, Serving, Handled, InStep, Outstanding
<1>7. CASE ST_SLAVE_TX
  <2>1. /\ bus = "read" /\ tx_idx = Len(read)
        /\ transaction' = "read_slave"
    BY <1>1, <1>7, EmptySeq DEF ST_SLAVE_TX, Serving
  <2>2. /\ reg' \in Registers /\ Ready'
        /\ reg'.DATA = [of |-> reply, n |-> tx_idx + 1]
        /\ reg'.AA => ~LastByte
    <3>1. [of |-> reply, n |-> tx_idx + 1] \in Cells
      BY DEF I2cTypeOK, Cells
    <3>2. (IF LastByte THEN FALSE ELSE reg.AA) \in BOOLEAN
      BY <1>2
    <3>. QED
      BY <1>2, <1>7, <3>1, <3>2 DEF ST_SLAVE_TX, Registers, Ready
  <2>3. tx_idx' \in Nat /\ (reg'.AA => tx_idx' = tx_idx + 1)
    BY <1>7, <2>2 DEF ST_SLAVE_TX, I2cTypeOK
  <2>4. I2cTypeOK'
    BY <1>7, <2>1, <2>2, <2>3 DEF ST_SLAVE_TX, I2cTypeOK
  <2>5. Waiting'
    BY <1>7, <2>1, <2>2, <2>3 DEF ST_SLAVE_TX, Waiting
  <2>. QED
    BY <1>1, <1>7, <2>2, <2>4, <2>5 DEF ST_SLAVE_TX, Serving, Handled, InStep, Outstanding
<1>8. CASE ST_SLAVE_RNACK
  <2>1. reg' \in Registers /\ Ready' /\ reg'.AA = TRUE
    BY <1>2, <1>8, ServedType DEF ST_SLAVE_RNACK
  <2>2. I2cTypeOK'
    BY <1>8, <2>1 DEF ST_SLAVE_RNACK, EndRead, I2cTypeOK
  <2>3. Waiting'
    BY <1>1, <1>8, <2>1 DEF ST_SLAVE_RNACK, EndRead, Serving, Waiting
  <2>. QED
    BY <1>1, <1>8, <2>1, <2>2, <2>3 DEF ST_SLAVE_RNACK, Serving, Handled, InStep, Outstanding
<1>9. CASE ST_BUS_ERROR
  <2>1. reg' \in Registers /\ Ready' /\ reg'.AA = reg.AA
    BY <1>2, <1>9, ServedType DEF ST_BUS_ERROR
  <2>2. I2cTypeOK'
    BY <1>9, <2>1 DEF ST_BUS_ERROR, I2cTypeOK
  <2>3. Waiting'
    BY <1>1, <1>9, <2>1 DEF ST_BUS_ERROR, Serving, Waiting
  <2>. QED
    BY <1>1, <1>9, <2>1, <2>2, <2>3 DEF ST_BUS_ERROR, Serving, Handled, InStep, Outstanding
<1>. QED
  BY <1>3, <1>4, <1>5, <1>6, <1>7, <1>8, <1>9

(* A report of the core leaves the registers their types. *)
LEMMA ReportType ==
    ASSUME reg \in Registers,
           NEW status \in {"SLAVE_SLAW", "RSTOP", "SLAVE_SLAR_ACK", "RACK", "RNACK",
                           "FINAL", "BUS_ERROR"},
           Report(status)
    PROVE  /\ reg' \in Registers /\ ~Ready' /\ reg'.STATUS = status
           /\ reg'.AA = reg.AA /\ reg'.DATA = reg.DATA
BY DEF Registers, Report, Ready

(* The OBC starts a transfer. *)
LEMMA StartIInv ==
    ASSUME I2cIInv, StartOfWrite \/ StartOfRead
    PROVE  I2cIInv'
<1>1. Ready /\ bus = "idle" /\ reg.AA /\ ~Outstanding /\ tx_idx = 0 /\ reg \in Registers
  BY DEF StartOfWrite, StartOfRead, Waiting, Outstanding, I2cTypeOK
<1>2. UNCHANGED <<transaction, rx, tx_idx, reply, handled, written, deaf>>
  BY DEF StartOfWrite, StartOfRead, Driver
<1>3. CASE StartOfWrite
  <2>1. /\ reg' \in Registers /\ ~Ready' /\ reg'.STATUS = "SLAVE_SLAW"
        /\ reg'.AA = reg.AA /\ bus' = "write" /\ frame' = << >> /\ read' = read
    BY <1>1, <1>3, ReportType DEF StartOfWrite
  <2>2. I2cTypeOK'
    BY <1>2, <2>1, EmptySeq DEF I2cTypeOK
  <2>. QED
    BY <1>1, <1>2, <2>1, <2>2 DEF Waiting, Serving, Handled, InStep, Outstanding
<1>4. CASE StartOfRead
  <2>1. /\ reg' \in Registers /\ ~Ready' /\ reg'.STATUS = "SLAVE_SLAR_ACK"
        /\ bus' = "read" /\ read' = << >> /\ frame' = frame
    BY <1>1, <1>4, ReportType DEF StartOfRead
  <2>2. I2cTypeOK'
    BY <1>2, <2>1, EmptySeq DEF I2cTypeOK
  <2>. QED
    BY <1>1, <1>2, <2>1, <2>2 DEF Waiting, Serving, Handled, InStep, Outstanding
<1>. QED
  BY <1>3, <1>4

(* A byte that is sent is acknowledged only when there is room for it. *)
LEMMA SendIInv ==
    ASSUME I2cIInv, Send
    PROVE  I2cIInv'
<1>1. /\ Ready /\ bus = "write" /\ transaction = "write_slave" /\ tx_idx = 0
      /\ rx = Data(frame) /\ (reg.AA <=> Room) /\ ~Outstanding /\ reg \in Registers
  BY DEF Send, Waiting, Outstanding, I2cTypeOK
<1>2. UNCHANGED <<transaction, rx, tx_idx, reply, handled, written, read, deaf>>
  BY DEF Send, Driver
<1>3. PICK byte \in Bytes :
        /\ frame' = Append(frame, byte)
        /\ reg' = [reg EXCEPT !.SI = TRUE, !.DATA = [of |-> 0, n |-> byte],
                              !.STATUS = IF reg.AA THEN "RDATA" ELSE "SLA_NACK"]
  BY DEF Send
<1>4. frame' \in Seq(Bytes) /\ Data(frame') = Append(rx, [of |-> 0, n |-> byte])
  BY <1>1, <1>3, DataAppend DEF I2cTypeOK
<1>5. [of |-> 0, n |-> byte] \in Cells
  BY DEF Cells
<1>6. CASE reg.AA
  <2>1. /\ reg' \in Registers /\ ~Ready' /\ reg'.STATUS = "RDATA" /\ reg'.AA
        /\ reg'.DATA = [of |-> 0, n |-> byte] /\ bus' = "write"
    BY <1>1, <1>3, <1>5, <1>6 DEF Send, Registers, Ready
  <2>2. I2cTypeOK'
    BY <1>2, <1>4, <2>1 DEF I2cTypeOK
  <2>3. Room'
    BY <1>1, <1>2, <1>6 DEF Room
  <2>. QED
    BY <1>1, <1>2, <1>4, <2>1, <2>2, <2>3
    DEF Waiting, Serving, Handled, InStep, Outstanding
<1>7. CASE ~reg.AA
  <2>1. /\ reg' \in Registers /\ ~Ready' /\ reg'.STATUS = "SLA_NACK"
        /\ bus' = "released"
    BY <1>1, <1>3, <1>5, <1>7 DEF Send, Registers, Ready
  <2>2. I2cTypeOK'
    BY <1>2, <1>4, <2>1 DEF I2cTypeOK
  <2>. QED
    BY <1>1, <1>2, <2>1, <2>2 DEF Waiting, Serving, Handled, InStep, Outstanding
<1>. QED
  BY <1>6, <1>7

(* A byte that is read is the next one of the reply. *)
LEMMA ReceiveIInv ==
    ASSUME I2cIInv, Receive
    PROVE  I2cIInv'
<1>1. /\ Ready /\ bus = "read" /\ transaction = "read_slave" /\ ~Outstanding
      /\ reg.DATA = [of |-> reply, n |-> Len(read) + 1]
      /\ reg.AA => tx_idx = Len(read) + 1
      /\ reg \in Registers /\ reg.DATA \in Cells /\ read \in Seq(Cells)
  BY DEF Receive, Waiting, Outstanding, I2cTypeOK, Registers
<1>2. UNCHANGED <<transaction, rx, tx_idx, reply, handled, written, frame, deaf>>
  BY DEF Receive, Driver
<1>3. /\ read' \in Seq(Cells) /\ Len(read') = Len(read) + 1
      /\ DOMAIN read' = 1..Len(read) + 1 /\ DOMAIN read = 1..Len(read)
      /\ \A k \in 1..Len(read) : read'[k] = read[k]
      /\ read'[Len(read) + 1] = reg.DATA /\ Len(read) \in Nat
  BY <1>1, AppendProperties, LenProperties DEF Receive
<1>4. PICK status \in {"RACK", "FINAL", "RNACK"} :
        /\ Report(status)
        /\ bus' = IF status = "RACK" THEN "read" ELSE "released"
        /\ status = "RACK" => reg.AA
  BY DEF Receive
<1>5. reg' \in Registers /\ ~Ready' /\ reg'.STATUS = status /\ reg'.AA = reg.AA
  BY <1>1, <1>4, ReportType
<1>6. I2cTypeOK'
  BY <1>2, <1>3, <1>4, <1>5 DEF I2cTypeOK
<1>7. InStep'
  BY <1>1, <1>2, <1>3 DEF InStep
<1>8. Serving'
  BY <1>1, <1>2, <1>3, <1>4, <1>5 DEF Serving
<1>. QED
  BY <1>1, <1>2, <1>5, <1>4, <1>6, <1>7, <1>8 DEF Waiting, Handled, Outstanding

(* A stop ends a write with the bytes that were sent. *)
LEMMA StopIInv ==
    ASSUME I2cIInv, Stop
    PROVE  I2cIInv'
<1>1. Ready /\ bus # "idle" /\ bus' = "idle" /\ ~Outstanding /\ reg \in Registers
  BY DEF Stop, Outstanding, I2cTypeOK
<1>2. UNCHANGED <<transaction, rx, tx_idx, reply, handled, read, frame, deaf>>
  BY DEF Stop, Driver
<1>3. written' \in [number : Nat, bytes : Seq(Bytes)]
  BY DEF Stop, I2cTypeOK
<1>4. InStep'
  BY <1>1 DEF InStep
<1>5. CASE Report("RSTOP")
  <2>1. reg' \in Registers /\ ~Ready' /\ reg'.STATUS = "RSTOP"
    BY <1>1, <1>5, ReportType
  <2>2. I2cTypeOK'
    BY <1>1, <1>2, <1>3, <2>1 DEF I2cTypeOK
  <2>3. Serving' /\ Waiting'
    BY <1>1, <1>2, <2>1 DEF Stop, Serving, Waiting
  <2>4. Outstanding' <=> bus = "write"
    BY <1>1, <1>2, <2>1 DEF Outstanding, Waiting, I2cTypeOK
  <2>5. Handled'
    BY <1>1, <1>2, <2>4 DEF Stop, Handled
  <2>. QED
    BY <1>4, <2>2, <2>3, <2>5
<1>6. CASE bus = "released" /\ UNCHANGED reg
  <2>1. I2cTypeOK'
    BY <1>1, <1>2, <1>3, <1>6 DEF I2cTypeOK
  <2>. QED
    BY <1>1, <1>2, <1>4, <1>6, <2>1
    DEF Stop, Serving, Waiting, Handled, Outstanding, Ready
<1>. QED
  BY <1>5, <1>6 DEF Stop

(* A bus error cuts a transfer off; nothing is handed over. *)
LEMMA BusErrorIInv ==
    ASSUME I2cIInv, BusError
    PROVE  I2cIInv'
<1>1. Ready /\ bus' = "idle" /\ ~Outstanding /\ reg \in Registers /\ deaf' = ~reg.AA
  BY DEF BusError, Outstanding, I2cTypeOK
<1>2. UNCHANGED <<transaction, rx, tx_idx, reply, handled, read, frame, written>>
  BY DEF BusError, Driver
<1>3. reg' \in Registers /\ ~Ready' /\ reg'.STATUS = "BUS_ERROR" /\ reg'.AA = reg.AA
  BY <1>1, ReportType DEF BusError
<1>4. I2cTypeOK'
  BY <1>1, <1>2, <1>3 DEF I2cTypeOK
<1>. QED
  BY <1>1, <1>2, <1>3, <1>4 DEF Waiting, Serving, Handled, InStep, Outstanding

(* Every step preserves the invariant. *)
LEMMA I2cNextIInv == I2cIInv /\ [MspI2cNext]_mspI2cVars => I2cIInv'
<1> SUFFICES ASSUME I2cIInv, [MspI2cNext]_mspI2cVars PROVE I2cIInv'
  OBVIOUS
<1>1. CASE I2C1_IRQHandler
  BY <1>1, WriteHandlerIInv, IsrIInv DEF I2C1_IRQHandler
<1>2. CASE UNCHANGED mspI2cVars \/ NotAddressed
  BY <1>2
  DEF NotAddressed, mspI2cVars, slaveVars, obcVars, I2cTypeOK, Waiting, Serving, Handled,
      InStep, Outstanding, Ready, Room
<1>3. CASE StartOfWrite \/ StartOfRead
  BY <1>3, StartIInv
<1>4. CASE Send
  BY <1>4, SendIInv
<1>5. CASE Receive
  BY <1>5, ReceiveIInv
<1>6. CASE Stop
  BY <1>6, StopIInv
<1>7. CASE BusError
  BY <1>7, BusErrorIInv
<1>. QED
  BY <1>1, <1>2, <1>3, <1>4, <1>5, <1>6, <1>7 DEF MspI2cNext, Obc

(* The invariant holds throughout. *)
THEOREM I2cInvariant == MspI2cSpec => []I2cIInv
BY I2cInitIInv, I2cNextIInv, PTL DEF MspI2cSpec

(* Whenever the OBC can go on, the write handler was called once for every   *)
(* write that ended, with exactly its bytes: for a buffer of any size, also  *)
(* around writes that do not fit, and around bus errors anywhere.            *)
THEOREM WritesAreHandedOver == MspI2cSpec => []HandedOver
<1>1. I2cIInv => HandedOver
  BY DEF Handled, HandedOver, Outstanding
<1>. QED
  BY <1>1, I2cInvariant, PTL

(* What the OBC reads is the reply to its last write, from the first byte on, *)
(* however the read before it ended.                                         *)
THEOREM RepliesAreReadFromStart == MspI2cSpec => []ReadsFromStart
<1>1. I2cIInv => ReadsFromStart
  BY DEF Handled, InStep, ReadsFromStart
<1>. QED
  BY <1>1, I2cInvariant, PTL

(* Between transfers the payload acknowledges its address, unless a bus      *)
(* error met the byte it was to refuse.                                      *)
THEOREM PayloadListens == MspI2cSpec => []SlaveListens
<1>1. I2cIInv => SlaveListens
  BY DEF Waiting, SlaveListens
<1>. QED
  BY <1>1, I2cInvariant, PTL
=============================================================================
