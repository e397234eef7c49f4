---------------------------- MODULE MssI2cMaster ----------------------------
(***************************************************************************)
(* The I2C driver as the master of a bus (mss_i2c.c): MSS_I2C_write and    *)
(* MSS_I2C_read set a transfer up and set the start bit; from there each   *)
(* status the core reports raises an interrupt, and mss_i2c_isr moves the  *)
(* transfer on by one byte.  The bus goes on when it clears the interrupt. *)
(*                                                                         *)
(* Only what an instance that is never a slave can meet is here: the bus   *)
(* of the HK ADC has one master, so there is no lost arbitration, every    *)
(* transfer releases the bus, and read-after-write is not used.            *)
(***************************************************************************)
EXTENDS Integers, Sequences

VARIABLES
    i2c,   \* the transfer, as kept in mss_i2c_instance_t
    reg    \* the registers of the core

\* Bytes are records, named for what the bus carries in them.
NoInit == [byte |-> "uninitialized"]

-----------------------------------------------------------------------------
(* Seeded faults. *)
AllSent_OneShort == i2c.tx_idx + 1 >= Len(i2c.tx)

ST_BUS_ERROR_Unreported ==
    /\ reg.SI /\ reg.STATUS = "BUS_ERROR"
    /\ reg' = [reg EXCEPT !.SI = FALSE, !.STA = FALSE]
    /\ UNCHANGED i2c
-----------------------------------------------------------------------------
MSS_I2C_init ==
    /\ i2c = [dir |-> "write", tx |-> << >>, tx_idx |-> 0,
              rx |-> << >>, rx_idx |-> 0, status |-> "SUCCESS"]
    /\ reg = [STA |-> FALSE, STO |-> FALSE, AA |-> FALSE, SI |-> FALSE,
              STATUS |-> "IDLE", DATA |-> NoInit]

\* The caller's buffer is not cleared.
MSS_I2C_write(bytes) ==
    /\ i2c' = [i2c EXCEPT !.dir = "write", !.tx = bytes, !.tx_idx = 0,
                          !.status = "IN_PROGRESS"]
    /\ reg' = [reg EXCEPT !.STA = TRUE]

MSS_I2C_read(size) ==
    /\ i2c' = [i2c EXCEPT !.dir = "read", !.rx = [n \in 1..size |-> NoInit],
                          !.rx_idx = 0, !.status = "IN_PROGRESS"]
    /\ reg' = [reg EXCEPT !.STA = TRUE]

\* MSS_I2C_wait_complete returns; without a timeout, for nothing else.
Complete == i2c.status # "IN_PROGRESS"
-----------------------------------------------------------------------------
(* mss_i2c_isr, by the status it reads. *)

Interrupted(statuses) == reg.SI /\ reg.STATUS \in statuses

Served == [reg EXCEPT !.SI = FALSE]

ST_START ==
    /\ Interrupted({"START"})
    /\ reg' = [Served EXCEPT !.STA = FALSE, !.DATA = [address |-> i2c.dir]]
    /\ i2c' = IF i2c.dir = "write" THEN [i2c EXCEPT !.tx_idx = 0]
              ELSE [i2c EXCEPT !.rx_idx = 0]

EndTransfer(status) ==
    /\ reg' = [Served EXCEPT !.STO = TRUE]
    /\ i2c' = [i2c EXCEPT !.status = status]

ST_NACK ==
    /\ Interrupted({"SLAW_NACK", "SLAR_NACK", "TX_DATA_NACK"})
    /\ EndTransfer("FAILED")

AllSent == i2c.tx_idx >= Len(i2c.tx)

ST_TX_ACK ==
    /\ Interrupted({"SLAW_ACK", "TX_DATA_ACK"})
    /\ \/ AllSent /\ EndTransfer("SUCCESS")
       \/ /\ ~AllSent
          /\ reg' = [Served EXCEPT !.DATA = i2c.tx[i2c.tx_idx + 1]]
          /\ i2c' = [i2c EXCEPT !.tx_idx = @ + 1]

\* The reads of this program are of more than one byte.
ST_SLAR_ACK ==
    /\ Interrupted({"SLAR_ACK"})
    /\ reg' = [Served EXCEPT !.AA = TRUE]
    /\ UNCHANGED i2c

\* The byte before the last one read: the last is not acknowledged.
LastButOne == i2c.rx_idx + 1 >= Len(i2c.rx) - 1

ST_RX_DATA_ACK ==
    /\ Interrupted({"RX_DATA_ACK"})
    /\ reg' = [Served EXCEPT !.AA = IF LastButOne THEN FALSE ELSE @]
    /\ i2c' = [i2c EXCEPT !.rx[i2c.rx_idx + 1] = reg.DATA, !.rx_idx = @ + 1]

ST_RX_DATA_NACK ==
    /\ Interrupted({"RX_DATA_NACK"})
    /\ reg' = [Served EXCEPT !.STO = TRUE]
    /\ i2c' = [i2c EXCEPT !.rx[i2c.rx_idx + 1] = reg.DATA, !.status = "SUCCESS"]

\* A bus error also takes back a start that was requested and not made yet.
ST_BUS_ERROR ==
    /\ Interrupted({"BUS_ERROR"})
    /\ reg' = [Served EXCEPT !.STA = FALSE]
    /\ i2c' = [i2c EXCEPT !.status = IF @ = "IN_PROGRESS" THEN "FAILED" ELSE @]

mss_i2c_isr ==
    \/ ST_START \/ ST_NACK \/ ST_TX_ACK
    \/ ST_SLAR_ACK \/ ST_RX_DATA_ACK \/ ST_RX_DATA_NACK
    \/ ST_BUS_ERROR
=============================================================================
