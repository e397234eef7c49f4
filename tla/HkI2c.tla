------------------------------- MODULE HkI2c -------------------------------
(***************************************************************************)
(* The HK ADC's driver and the I2C driver under it, byte by byte: the      *)
(* program, the interrupt of the bus, and the ADC at its other end.        *)
(*                                                                         *)
(* A register is read by writing its pointer and then reading two bytes,   *)
(* and written by sending the pointer and two bytes.  Every address and    *)
(* every byte may be refused or hit by a bus error, a byte also after the  *)
(* ADC took it.                                                            *)
(***************************************************************************)
EXTENDS HkAdc, MssI2cMaster

CONSTANT MaxFaults   \* bound: errors on the bus

ASSUME FaultsAssumption == MaxFaults \in Nat

VARIABLES
    leg,      \* of the transfer in progress: "call", "pointer" or "data"
    bus,      \* "idle", "start", "write", "read", "held"
    chip,     \* the ADC's side: its pointer, bytes of this transfer, start bit
    faults

i2cVars == <<i2c, reg>>
busVars == <<bus, chip, faults>>
hkI2cVars == <<hkVars, i2cVars, leg, busVars>>

\* What the ADC did of this transfer stays for the driver's return.
driverVars == <<at, round, channel, i, os, array, ret, doubt>>
-----------------------------------------------------------------------------
HkI2cInit ==
    /\ HkInit
    /\ MSS_I2C_init
    /\ leg = "call"
    /\ bus = "idle"
    /\ chip = [pointer |-> "CONFIG", n |-> 0, start |-> 0]
    /\ faults = 0
-----------------------------------------------------------------------------
(* hk_adc_reg_read and hk_adc_reg_write. *)

\* Of the CONFIG register only the start bit, in its first byte, matters.
Pointer == [pointer |-> IF at = "read_conversion" THEN "CONVERSION" ELSE "CONFIG"]
ConfigMsb(bit) == [os |-> bit]
Lsb == [byte |-> "lsb"]
Reading == at # "write_config"

Begin ==
    /\ at \in Transfers /\ leg = "call"
    /\ \/ Reading /\ leg' = "pointer" /\ MSS_I2C_write(<<Pointer>>)
       \/ ~Reading /\ leg' = "data" /\ MSS_I2C_write(<<Pointer, ConfigMsb(os), Lsb>>)
    /\ UNCHANGED <<hkVars, busVars>>

PointerSet ==
    /\ leg = "pointer" /\ Complete
    /\ i2c.status = "SUCCESS"
    /\ leg' = "data"
    /\ MSS_I2C_read(2)
    /\ UNCHANGED <<hkVars, busVars>>

Succeeded == leg = "data" /\ Complete /\ i2c.status = "SUCCESS"
Failed == leg \in {"pointer", "data"} /\ Complete /\ i2c.status = "FAILED"

Return ==
    /\ leg' = "call"
    /\ got' = << >>
    /\ UNCHANGED <<round, channel, adc, i2cVars, busVars>>

ConfigRead ==
    /\ at = "read_config" /\ Return
    /\ \/ Succeeded /\ os' = i2c.rx[1].os /\ at' = "write_config" /\ Unsampled
       \/ Failed /\ UNCHANGED os /\ EndSample(TRUE, Uninitialized)
    /\ UNCHANGED doubt

ConfigWritten ==
    /\ at = "write_config" /\ Return
    /\ \/ Succeeded /\ at' = "poll" /\ Unsampled /\ UNCHANGED doubt
       \/ Failed /\ EndSample(TRUE, Uninitialized) /\ doubt' = 1
    /\ UNCHANGED os

Polled ==
    /\ at = "poll" /\ Return
    /\ \/ Succeeded /\ os' = i2c.rx[1].os /\ UNCHANGED doubt
       \/ Failed /\ UNCHANGED os /\ doubt' = 2
    /\ at' = IF PollAgain THEN "poll" ELSE "read_conversion"
    /\ Unsampled

ConversionRead ==
    /\ at = "read_conversion" /\ Return
    /\ \/ Succeeded /\ EndSample(FALSE, i2c.rx[1])
       \/ Failed /\ EndSample(TRUE, Uninitialized)
    /\ doubt' = IF doubt = 0 THEN 0 ELSE doubt - 1
    /\ UNCHANGED os

Averaged == Average /\ UNCHANGED <<leg, i2cVars, busVars>>

Program ==
    \/ Begin \/ PointerSet
    \/ ConfigRead \/ ConfigWritten \/ Polled \/ ConversionRead
    \/ Averaged
-----------------------------------------------------------------------------
(* The interrupt. *)

I2C0_IRQHandler ==
    /\ mss_i2c_isr
    /\ UNCHANGED <<hkVars, leg, busVars>>
-----------------------------------------------------------------------------
(* The bus and the ADC.  The core goes on once its interrupt is cleared. *)

Report(status) == reg' = [reg EXCEPT !.SI = TRUE, !.STATUS = status]

Fault == faults < MaxFaults /\ faults' = faults + 1

Quiet == UNCHANGED <<driverVars, i2c, leg>>

BusStop ==
    /\ ~reg.SI /\ reg.STO
    /\ reg' = [reg EXCEPT !.STO = FALSE]
    /\ bus' = "idle"
    /\ UNCHANGED <<adc, got, chip, faults>> /\ Quiet

BusStart ==
    /\ ~reg.SI /\ ~reg.STO
    /\ bus = "idle" /\ reg.STA
    /\ Report("START")
    /\ bus' = "start"
    /\ UNCHANGED <<adc, got, chip, faults>> /\ Quiet

Addressed == IF i2c.dir = "write" THEN "SLAW_ACK" ELSE "SLAR_ACK"
NotAddressed == IF i2c.dir = "write" THEN "SLAW_NACK" ELSE "SLAR_NACK"

BusAddress ==
    /\ ~reg.SI /\ bus = "start"
    /\ \/ Report(Addressed) /\ bus' = i2c.dir /\ UNCHANGED faults
       \/ Report(NotAddressed) /\ bus' = "held" /\ Fault
    /\ chip' = [chip EXCEPT !.n = 0]
    /\ UNCHANGED <<adc, got>> /\ Quiet

\* The ADC acts on the pointer, and on a register once it has both bytes.
Take ==
    /\ \/ /\ chip.n = 0
          /\ chip' = [chip EXCEPT !.n = 1, !.pointer = reg.DATA.pointer]
          /\ UNCHANGED <<got, adc>>
       \/ /\ chip.n = 1
          /\ chip' = [chip EXCEPT !.n = 2, !.start = reg.DATA.os]
          /\ UNCHANGED <<got, adc>>
       \/ /\ chip.n = 2
          /\ chip' = [chip EXCEPT !.n = 3]
          /\ got' = <<chip.start>>
          /\ adc' = IF chip.start = 1 /\ adc.converting = Idle
                    THEN [adc EXCEPT !.converting = ThisSample] ELSE adc

BusSend ==
    /\ ~reg.SI /\ ~reg.STO /\ bus = "write"
    /\ \/ Take /\ Report("TX_DATA_ACK") /\ UNCHANGED <<bus, faults>>
       \/ UNCHANGED <<chip, got, adc>> /\ Report("TX_DATA_NACK")
          /\ bus' = "held" /\ Fault
       \/ Take /\ Report("BUS_ERROR") /\ bus' = "idle" /\ Fault
    /\ Quiet

\* The ADC latches a register as it gives the first byte of it.
FirstByte == IF chip.pointer = "CONFIG" THEN ConfigMsb(OsBit) ELSE adc.conversion
Given == IF chip.pointer = "CONFIG" THEN <<OsBit>> ELSE <<adc.conversion>>

BusReceive ==
    /\ ~reg.SI /\ ~reg.STO /\ bus = "read"
    /\ chip.n < 2
    /\ reg' = [reg EXCEPT !.SI = TRUE,
                          !.STATUS = IF reg.AA THEN "RX_DATA_ACK" ELSE "RX_DATA_NACK",
                          !.DATA = IF chip.n = 0 THEN FirstByte ELSE Lsb]
    /\ got' = IF chip.n = 0 THEN Given ELSE got
    /\ chip' = [chip EXCEPT !.n = @ + 1]
    /\ bus' = IF reg.AA THEN bus ELSE "held"
    /\ UNCHANGED <<adc, faults>> /\ Quiet

BusError ==
    /\ ~reg.SI /\ bus # "idle"
    /\ Fault
    /\ reg' = [reg EXCEPT !.SI = TRUE, !.STATUS = "BUS_ERROR", !.STO = FALSE]
    /\ bus' = "idle"
    /\ UNCHANGED <<adc, got, chip>> /\ Quiet

Converted == Convert /\ UNCHANGED <<i2cVars, leg, busVars>>

\* The steps without a fault: a bus that works.
Works == /\ BusStop \/ BusStart \/ BusAddress \/ BusSend \/ BusReceive
         /\ faults' = faults
-----------------------------------------------------------------------------
Bus == BusStop \/ BusStart \/ BusAddress \/ BusSend \/ BusReceive \/ BusError

HkI2cNext == Program \/ I2C0_IRQHandler \/ Bus \/ Converted

HkI2cSpec ==
    /\ HkI2cInit /\ [][HkI2cNext]_hkI2cVars
    /\ WF_hkI2cVars(Program) /\ WF_hkI2cVars(I2C0_IRQHandler)
    /\ WF_hkI2cVars(Works) /\ WF_hkI2cVars(Converted)
-----------------------------------------------------------------------------
\* Seen by the HK ADC's driver, a transfer over the I2C driver is what HkAdc
\* takes it for: when it succeeds, the ADC did its part during this transfer,
\* and what was read is what the ADC gave, first byte first.
HkContract == HkSpec

\* Every average comes to an end, whatever fails on the bus: no poll waits for
\* a conversion that was not started, and no transfer that fails leaves
\* MSS_I2C_wait_complete, which has no timeout, waiting for ever.
RoundsEnd == <>(round = MaxRounds /\ at = "average" /\ channel = Len(Channels))
=============================================================================
