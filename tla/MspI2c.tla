------------------------------- MODULE MspI2c -------------------------------
(***************************************************************************)
(* The bus between the OBC and the payload, byte by byte: what MspLink     *)
(* takes for granted of an exchange.  The OBC is the master and may do     *)
(* whatever a master may: write any number of bytes, more than fit         *)
(* included, write nothing, read part of a reply or all of it, read        *)
(* without a write before, and stop anywhere; the bus may be disturbed.    *)
(*                                                                         *)
(* The core holds the clock while its interrupt is pending, so the OBC     *)
(* moves on only once mss_i2c_isr has returned.                            *)
(***************************************************************************)
EXTENDS MssI2cSlave

CONSTANTS Bytes,       \* what a byte of a write may be
          MaxWrites,   \* bound: writes of the OBC
          MaxFaults    \* bound: disturbances of the bus

ASSUME I2cBoundsAssumption == MaxWrites \in Nat /\ MaxFaults \in Nat

VARIABLES
    bus,       \* "idle", "write" or "read" to the payload, "released" by it
    frame,     \* the bytes the OBC has sent in the current write
    read,      \* the bytes it has read in the current or the last read
    written,   \* history: the last write that was not cut off, and its number
    handled,   \* history: the last call of the write handler, and its number
    faults, deaf

obcVars == <<bus, frame, read, written, faults, deaf>>
mspI2cVars == <<slaveVars, obcVars, handled>>
-----------------------------------------------------------------------------
MspI2cInit ==
    /\ MSS_I2C_enable_slave
    /\ bus = "idle"
    /\ frame = << >>
    /\ read = << >>
    /\ written = [number |-> 0, bytes |-> << >>]
    /\ handled = [number |-> 0, bytes |-> << >>]
    /\ faults = 0
    /\ deaf = FALSE
-----------------------------------------------------------------------------
\* The frame is received and the reply to it prepared, before the OBC goes on.
I2C1_SlaveWriteHandler ==
    /\ handled' = [number |-> handled.number + 1, bytes |-> rx]
    /\ reply' = handled'.number

I2C1_IRQHandler ==
    /\ \/ ST_RSTOP_Write(I2C1_SlaveWriteHandler)
       \/ mss_i2c_isr /\ UNCHANGED handled
    /\ UNCHANGED obcVars
-----------------------------------------------------------------------------
(* The OBC and the bus. *)

Report(status) == reg' = [reg EXCEPT !.SI = TRUE, !.STATUS = status]

Ready == ~reg.SI

Driver == UNCHANGED <<transaction, rx, tx_idx, reply, handled>>

\* An address that is not acknowledged changes nothing.
NotAddressed ==
    /\ Ready /\ bus = "idle" /\ ~reg.AA
    /\ UNCHANGED mspI2cVars

StartOfWrite ==
    /\ Ready /\ bus = "idle" /\ reg.AA
    /\ written.number < MaxWrites
    /\ Report("SLAVE_SLAW")
    /\ bus' = "write"
    /\ frame' = << >>
    /\ UNCHANGED <<read, written, faults, deaf>> /\ Driver

StartOfRead ==
    /\ Ready /\ bus = "idle" /\ reg.AA
    /\ Report("SLAVE_SLAR_ACK")
    /\ bus' = "read"
    /\ read' = << >>
    /\ UNCHANGED <<frame, written, faults, deaf>> /\ Driver

Send ==
    /\ Ready /\ bus = "write"
    /\ \E byte \in Bytes :
        /\ frame' = Append(frame, byte)
        /\ reg' = [reg EXCEPT !.SI = TRUE, !.DATA = [of |-> 0, n |-> byte],
                              !.STATUS = IF reg.AA THEN "RDATA" ELSE "SLA_NACK"]
    /\ bus' = IF reg.AA THEN "write" ELSE "released"
    /\ UNCHANGED <<read, written, faults, deaf>> /\ Driver

\* The OBC acknowledges a byte when it wants another one.
Receive ==
    /\ Ready /\ bus = "read"
    /\ read' = Append(read, reg.DATA)
    /\ \/ reg.AA /\ Report("RACK") /\ bus' = "read"
       \/ ~reg.AA /\ Report("FINAL") /\ bus' = "released"
       \/ Report("RNACK") /\ bus' = "released"
    /\ UNCHANGED <<frame, written, faults, deaf>> /\ Driver

\* A stop or a repeated start.  The core may also report it when it is no longer
\* addressed.
Stop ==
    /\ Ready /\ bus # "idle"
    /\ \/ Report("RSTOP")
       \/ bus = "released" /\ UNCHANGED reg
    /\ bus' = "idle"
    /\ written' = IF bus = "write"
                  THEN [number |-> written.number + 1, bytes |-> frame] ELSE written
    /\ UNCHANGED <<frame, read, faults, deaf>> /\ Driver

BusError ==
    /\ Ready /\ bus # "idle"
    /\ faults < MaxFaults /\ faults' = faults + 1
    /\ Report("BUS_ERROR")
    /\ bus' = "idle"
    /\ deaf' = ~reg.AA
    /\ UNCHANGED <<frame, read, written>> /\ Driver
-----------------------------------------------------------------------------
Obc == NotAddressed \/ StartOfWrite \/ StartOfRead \/ Send \/ Receive \/ Stop

MspI2cNext == I2C1_IRQHandler \/ Obc \/ BusError

MspI2cSpec == MspI2cInit /\ [][MspI2cNext]_mspI2cVars
-----------------------------------------------------------------------------
Data(bytes) == [k \in DOMAIN bytes |-> [of |-> 0, n |-> bytes[k]]]

\* By the time the OBC can go on, the write handler was called once for every
\* write that ended, with exactly its bytes; and for no write that was longer
\* than the buffer or cut off by a bus error.
HandedOver ==
    Ready => /\ handled.number = written.number
             /\ handled.bytes = Data(written.bytes)

\* However the last read ended, what the OBC reads is the reply to its last
\* write, from the first byte on.
ReadsFromStart ==
    bus = "read" => \A k \in DOMAIN read : read[k] = [of |-> handled.number, n |-> k]

\* Between two transfers the payload acknowledges its address, also after a
\* write that was too long or stopped at the last byte of the buffer.  The
\* exception is a bus error while AA is clear, as it is once a write has filled
\* the buffer and when the last byte of a reply is on its way: AA is not set
\* again, and the payload is deaf from then on.
SlaveListens == (Ready /\ bus = "idle" /\ ~deaf) => reg.AA
=============================================================================
