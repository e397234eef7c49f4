---------------------------- MODULE MssI2cSlave ----------------------------
(***************************************************************************)
(* The I2C driver as a slave (mss_i2c.c): the master writes into a receive *)
(* buffer that is handed to a write handler when the write ends, and reads *)
(* from a transmit buffer.  mss_i2c_isr runs for every byte.               *)
(*                                                                         *)
(* Only what an instance that is never a master can meet is here.  It has  *)
(* no address offset, its handler always lets it go on receiving, and the  *)
(* slave status is left out: only transfers as a master look at it.        *)
(***************************************************************************)
EXTENDS Integers, Sequences

CONSTANT Size   \* of slave_rx_buffer and slave_tx_buffer

ASSUME SizeAssumption == Size \in Nat \ {0}

VARIABLES
    transaction,   \* "none", "write_slave" or "read_slave"
    rx, tx_idx,    \* slave_rx_buffer up to slave_rx_idx; slave_tx_idx
    reply,         \* slave_tx_buffer: which reply is in it
    reg            \* the registers AA, SI, STATUS and DATA of the core

slaveVars == <<transaction, rx, tx_idx, reply, reg>>

NoData == [of |-> 0, n |-> 0]
-----------------------------------------------------------------------------
(* Seeded faults. *)
StartWrite_Append == UNCHANGED rx

EndRead_Keep == UNCHANGED tx_idx

ST_SLA_NACK_Deaf ==
    /\ reg.SI /\ reg.STATUS = "SLA_NACK"
    /\ reg' = [reg EXCEPT !.SI = FALSE]
    /\ transaction' = "none"
    /\ UNCHANGED <<rx, tx_idx, reply>>
-----------------------------------------------------------------------------
\* MSS_I2C_init, the two buffers, the handler, MSS_I2C_enable_slave.
MSS_I2C_enable_slave ==
    /\ transaction = "none"
    /\ rx = << >>
    /\ tx_idx = 0
    /\ reply = 0
    /\ reg = [AA |-> TRUE, SI |-> FALSE, STATUS |-> "IDLE", DATA |-> NoData]
-----------------------------------------------------------------------------
(* mss_i2c_isr, by the status it reads; ST_RSTOP_Write is the case that calls
   the application. *)

Interrupted(statuses) == reg.SI /\ reg.STATUS \in statuses

Served(aa) == reg' = [reg EXCEPT !.SI = FALSE, !.AA = aa]

\* More than the buffer holds: refused, and the write with it.
ST_SLA_NACK ==
    /\ Interrupted({"SLA_NACK"})
    /\ Served(TRUE)
    /\ transaction' = "none"
    /\ UNCHANGED <<rx, tx_idx, reply>>

StartWrite == rx' = << >>

ST_SLAVE_SLAW ==
    /\ Interrupted({"SLAVE_SLAW"})
    /\ Served(reg.AA)
    /\ transaction' = "write_slave"
    /\ StartWrite
    /\ UNCHANGED <<tx_idx, reply>>

\* A full buffer takes no more: the next byte is not acknowledged.
Room == Len(rx) < Size

ST_RDATA ==
    /\ Interrupted({"RDATA"})
    /\ rx' = IF Room THEN Append(rx, reg.DATA) ELSE rx
    /\ Served(IF Len(rx') >= Size THEN FALSE ELSE reg.AA)
    /\ UNCHANGED <<transaction, tx_idx, reply>>

EndRead == tx_idx' = 0

\* The end of a write, be it a stop or a repeated start: the handler is called,
\* also for a write without a byte, whose offset length fits.
ST_RSTOP_Write(handler) ==
    /\ Interrupted({"RSTOP"}) /\ transaction = "write_slave"
    /\ handler
    /\ tx_idx' = IF Len(rx) = 0 THEN 0 ELSE tx_idx
    /\ Served(TRUE)
    /\ transaction' = "none"
    /\ UNCHANGED rx

ST_RSTOP_Other ==
    /\ Interrupted({"RSTOP"}) /\ transaction # "write_slave"
    /\ EndRead
    /\ Served(TRUE)
    /\ transaction' = "none"
    /\ UNCHANGED <<rx, reply>>

LastByte == tx_idx + 1 >= Size

\* Once the last byte is loaded, a further one is not offered.
ST_SLAVE_TX ==
    /\ Interrupted({"SLAVE_SLAR_ACK", "RACK"})
    /\ transaction' = IF reg.STATUS = "SLAVE_SLAR_ACK" THEN "read_slave" ELSE transaction
    /\ reg' = [reg EXCEPT !.SI = FALSE, !.DATA = [of |-> reply, n |-> tx_idx + 1],
                          !.AA = IF LastByte THEN FALSE ELSE @]
    /\ tx_idx' = IF LastByte THEN 0 ELSE tx_idx + 1
    /\ UNCHANGED <<rx, reply>>

ST_SLAVE_RNACK ==
    /\ Interrupted({"RNACK", "FINAL"})
    /\ EndRead
    /\ Served(TRUE)
    /\ transaction' = "none"
    /\ UNCHANGED <<rx, reply>>

\* A bus error leaves AA as it is.
ST_BUS_ERROR ==
    /\ Interrupted({"BUS_ERROR"})
    /\ Served(reg.AA)
    /\ transaction' = "none"
    /\ tx_idx' = 0
    /\ UNCHANGED <<rx, reply>>

mss_i2c_isr ==
    \/ ST_SLA_NACK \/ ST_SLAVE_SLAW \/ ST_RDATA \/ ST_RSTOP_Other
    \/ ST_SLAVE_TX \/ ST_SLAVE_RNACK \/ ST_BUS_ERROR
=============================================================================
