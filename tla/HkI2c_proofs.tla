---------------------------- MODULE HkI2c_proofs ----------------------------
(***************************************************************************)
(* Every sample that is returned without an error is genuine, for any      *)
(* number of samples and rounds, except for the ones an error may spoil;   *)
(* and so it is with the transfers done byte by byte over the I2C driver,  *)
(* which is shown to be what the HK ADC's driver takes it for.             *)
(*                                                                         *)
(* The first argument follows one conversion.  Without a doubt about it,   *)
(* the ADC is idle until CONFIG is written, from then on converts this     *)
(* sample or holds it, and once a poll was answered holds it.  With a      *)
(* doubt the ADC may be doing anything, but a poll that was answered shows *)
(* it idle: so the next sample starts from an idle ADC.                    *)
(*                                                                         *)
(* The second follows one transfer: which bytes the driver has sent or     *)
(* stored, and which the ADC has taken or given, in every state of the     *)
(* bus.  Only the last byte written, and the first one read, is a step the *)
(* HK ADC's driver sees; all the others are steps it does not.             *)
(***************************************************************************)
EXTENDS HkI2c, SequenceTheorems, TLAPS

\* This sample is being converted, or is in the CONVERSION register.
Held == adc.converting = Idle /\ adc.conversion = ThisSample
UnderWay == adc.converting = ThisSample \/ Held

\* Where the driver is, and what it got.
Shape ==
    /\ at \in Transfers \cup {"average"}
    /\ doubt \in 0..2
    /\ os \in 0..1
    /\ channel \in 1..3
    /\ at = "average" => got = << >>
    /\ (at \in {"read_config", "poll"} /\ got # << >>) => got[1] \in 0..1

\* With no doubt: the life of one conversion.
Undoubted ==
    doubt = 0 =>
    /\ at \in {"read_config", "average"} => adc.converting = Idle
    /\ (at = "read_config" /\ got # << >>) => got[1] = 1
    /\ (at = "write_config" /\ got = << >>) => os = 1 /\ adc.converting = Idle
    /\ (at = "write_config" /\ got # << >>) => UnderWay
    /\ at = "poll" => UnderWay
    /\ at = "read_conversion" => Held
    /\ (at = "read_conversion" /\ got # << >>) => got[1] = ThisSample

\* An answered poll shows the ADC idle, and so it stays until it is written to.
Answered ==
    /\ (at = "poll" /\ got # << >> /\ got[1] = 1) => adc.converting = Idle
    /\ (at = "read_conversion" /\ doubt # 2) => adc.converting = Idle
    /\ doubt = 2 => at \in {"poll", "read_conversion"}

HkInv == Shape /\ Undoubted /\ Answered
-----------------------------------------------------------------------------
(* A sample is a record with three fields and Idle one with a single field. *)
LEMMA SampleIsNotIdle == ThisSample # Idle
BY DEF ThisSample, Idle

LEMMA InitHk == HkInit => HkInv
<1> SUFFICES ASSUME HkInit PROVE HkInv
  OBVIOUS
<1>1. at = "read_config" /\ channel = 1 /\ os = 0 /\ doubt = 0 /\ got = << >>
  BY DEF HkInit
<1>2. adc.converting = Idle
  BY DEF HkInit
<1> QED
  BY <1>1, <1>2 DEF HkInv, Shape, Undoubted, Answered, Transfers

\* A sample that ends with an error: nothing is known of the ADC from it.
LEMMA EndSampleAt ==
    ASSUME NEW error, NEW value, EndSample(error, value)
    PROVE  at' \in {"average", "read_config"}
BY DEF EndSample

LEMMA StepHk == HkInv /\ [HkNext]_hkVars => HkInv'
<1> SUFFICES ASSUME HkInv, [HkNext]_hkVars PROVE HkInv'
  OBVIOUS
<1> USE DEF HkInv, Transfers
<1>1. CASE Access
  <2>1. CASE at \in {"read_config", "poll"} /\ got' = <<OsBit>> /\ UNCHANGED adc
    BY <1>1, <2>1, SampleIsNotIdle
       DEF Access, Shape, Undoubted, Answered, OsBit, UnderWay, Held, ThisSample
  <2>2. CASE at = "write_config" /\ got' = <<os>> /\ adc' = Started
    BY <1>1, <2>2
       DEF Access, Shape, Undoubted, Answered, OsBit, Started, UnderWay, Held, ThisSample
  <2>3. CASE at = "read_conversion" /\ got' = <<adc.conversion>> /\ UNCHANGED adc
    BY <1>1, <2>3
       DEF Access, Shape, Undoubted, Answered, UnderWay, Held, ThisSample
  <2> QED
    BY <1>1, <2>1, <2>2, <2>3 DEF Access
<1>2. CASE Convert
  BY <1>2 DEF Convert, Shape, Undoubted, Answered, UnderWay, Held, ThisSample
<1>3. CASE ReadConfig
  <2>1. CASE Fine /\ os' = got[1] /\ at' = "write_config" /\ Unsampled
    BY <1>3, <2>1
       DEF ReadConfig, Returns, Fine, Shape, Undoubted, Answered, UnderWay, Held
  <2>2. CASE UNCHANGED os /\ EndSample(TRUE, Uninitialized)
    BY <1>3, <2>2, EndSampleAt
       DEF ReadConfig, Returns, Shape, Undoubted, Answered, UnderWay, Held
  <2> QED
    BY <1>3, <2>1, <2>2 DEF ReadConfig
<1>4. CASE WriteConfig
  <2>1. CASE Fine /\ at' = "poll" /\ Unsampled /\ UNCHANGED doubt
    BY <1>4, <2>1
       DEF WriteConfig, Returns, Fine, Unsampled, Shape, Undoubted, Answered,
           UnderWay, Held, ThisSample
  <2>2. CASE EndSample(TRUE, Uninitialized) /\ doubt' = 1
    <3>1. /\ at' \in {"average", "read_config"} /\ got' = << >>
          /\ channel' = channel /\ os' = os
      BY <1>4, <2>2, EndSampleAt DEF WriteConfig, Returns
    <3> QED
      BY <2>2, <3>1 DEF Shape, Undoubted, Answered
  <2> QED
    BY <1>4, <2>1, <2>2 DEF WriteConfig
<1>5. CASE Poll
  <2>1. CASE Fine /\ os' = got[1] /\ UNCHANGED doubt
    <3>1. /\ at = "poll" /\ got' = << >> /\ os' \in 0..1
          /\ UNCHANGED <<round, channel, adc, i, doubt>>
          /\ os' = 1 => adc.converting = Idle
      BY <1>5, <2>1 DEF Poll, Returns, Unsampled, Fine, Shape, Answered
    <3>2. at' = IF os' = 0 THEN "poll" ELSE "read_conversion"
      BY <1>5 DEF Poll, PollAgain
    <3>3. UnderWay => UnderWay'
      BY <3>1 DEF UnderWay, Held, ThisSample
    <3>4. UnderWay /\ adc.converting = Idle => Held'
      BY <3>1, SampleIsNotIdle DEF UnderWay, Held, ThisSample
    <3> QED
      BY <3>1, <3>2, <3>3, <3>4 DEF Shape, Undoubted, Answered
  <2>2. CASE UNCHANGED os /\ doubt' = 2
    BY <1>5, <2>2
       DEF Poll, PollAgain, Returns, Unsampled, Shape, Undoubted, Answered,
           UnderWay, Held, ThisSample
  <2> QED
    BY <1>5, <2>1, <2>2 DEF Poll
<1>6. CASE ReadConversion
  <2>1. at' \in {"average", "read_config"}
    BY <1>6, EndSampleAt DEF ReadConversion
  <2>2. /\ at = "read_conversion" /\ got' = << >>
        /\ UNCHANGED <<os, channel, adc>>
        /\ doubt' = IF doubt = 0 THEN 0 ELSE doubt - 1
    BY <1>6 DEF ReadConversion, Returns
  <2>3. doubt' = 0 => adc.converting = Idle
    BY <2>2 DEF Shape, Answered
  <2>4. doubt' \in 0..1
    BY <2>2 DEF Shape
  <2> QED
    BY <2>1, <2>2, <2>3, <2>4 DEF Shape, Undoubted, Answered
<1>7. CASE Average
  <2>1. channel' \in 1..3 /\ at = "average" /\ at' = "read_config"
        /\ UNCHANGED <<os, adc, got, doubt>>
    BY <1>7 DEF Average, Shape, Channels
  <2> QED
    BY <2>1 DEF Shape, Undoubted, Answered
<1>8. CASE UNCHANGED hkVars
  BY <1>8 DEF hkVars, Shape, Undoubted, Answered, UnderWay, Held, ThisSample
<1> QED
  BY <1>1, <1>2, <1>3, <1>4, <1>5, <1>6, <1>7, <1>8 DEF HkNext, Driver

(* The array, whose next element is that of the sample in progress. *)

Contents ==
    [channel : {"volt", "curr", "citi_temp"}, round : Nat, i : Nat]
        \cup {Idle, Uninitialized, NoSample}

HkTypes ==
    /\ round \in Nat /\ i \in Nat \ {0} /\ channel \in 1..3
    /\ adc \in [converting : Contents, conversion : Contents]
    /\ array \in Seq(Contents)
    /\ (at = "read_conversion" /\ got # << >>) => got[1] \in Contents
    /\ (at \in Transfers /\ i > 1) => Len(array) = i - 1

LEMMA ThisSampleType == HkTypes => ThisSample \in Contents
BY DEF HkTypes, ThisSample, Contents, Channels

\* EndSample adds one element, in its place.
LEMMA EndSampleAppends ==
    ASSUME HkTypes, at \in Transfers, NEW error, NEW value \in Contents,
           EndSample(error, value)
    PROVE  /\ array' \in Seq(Contents) /\ Len(array') = i
           /\ array'[i] = value
           /\ i' \in Nat \ {0}
           /\ at' = "average" \/ i' = i + 1
           /\ at' # "read_conversion"
<1> DEFINE base == IF i = 1 THEN << >> ELSE array
<1>1. base \in Seq(Contents) /\ Len(base) = i - 1
  BY DEF HkTypes
<1>2. array' = Append(base, value)
  BY DEF EndSample
<1> HIDE DEF base
<1>3. array' \in Seq(Contents) /\ Len(array') = i /\ array'[i] = value
  BY <1>1, <1>2 DEF HkTypes
<1> QED
  BY <1>3 DEF EndSample, HkTypes

LEMMA TypesHk == HkTypes /\ [HkNext]_hkVars => HkTypes'
<1> SUFFICES ASSUME HkTypes, [HkNext]_hkVars PROVE HkTypes'
  OBVIOUS
<1>a. Uninitialized \in Contents
  BY DEF Contents
<1>1. CASE Access
  BY <1>1, ThisSampleType DEF Access, Started, HkTypes, Transfers
<1>2. CASE Convert
  BY <1>2 DEF Convert, HkTypes, Contents
<1>3. ASSUME NEW transfer \in Transfers, Returns(transfer), NEW error,
             NEW value \in Contents, EndSample(error, value)
      PROVE  HkTypes'
  <2>1. at \in Transfers /\ got' = << >> /\ UNCHANGED <<round, channel, adc>>
    BY <1>3 DEF Returns
  <2> QED
    BY <1>3, <2>1, EndSampleAppends DEF HkTypes, Transfers
<1>4. ASSUME NEW transfer \in Transfers, Returns(transfer), Unsampled,
             at' \in Transfers
      PROVE  HkTypes'
  BY <1>4 DEF Returns, Unsampled, HkTypes
<1>5. CASE ReadConfig
  BY <1>5, <1>3, <1>4, <1>a DEF ReadConfig, Transfers
<1>6. CASE WriteConfig
  BY <1>6, <1>3, <1>4, <1>a DEF WriteConfig, Transfers
<1>7. CASE Poll
  BY <1>7, <1>4 DEF Poll, Transfers
<1>8. CASE ReadConversion
  <2>1. Fine => got[1] \in Contents
    BY <1>8 DEF ReadConversion, Returns, Fine, HkTypes
  <2> QED
    BY <1>8, <1>3, <1>a, <2>1 DEF ReadConversion, Transfers
<1>9. CASE Average
  <2>1. channel' \in 1..3 /\ round' \in Nat
    BY <1>9 DEF Average, HkTypes, Channels
  <2> QED
    BY <1>9, <2>1 DEF Average, HkTypes, Transfers
<1>10. CASE UNCHANGED hkVars
  BY <1>10 DEF hkVars, HkTypes
<1> QED
  BY <1>1, <1>2, <1>5, <1>6, <1>7, <1>8, <1>9, <1>10 DEF HkNext, Driver

LEMMA GoodStep ==
    ASSUME HkInv, HkTypes, [HkNext]_hkVars, array' # array, ~ret', doubt = 0
    PROVE  array'[i] = ThisSample
<1>1. CASE ReadConversion
  <2>1. at = "read_conversion" /\ at \in Transfers
    BY <1>1 DEF ReadConversion, Returns, Transfers
  <2>2. Fine /\ EndSample(FALSE, got[1])
    BY <1>1 DEF ReadConversion, EndSample
  <2>3. got[1] \in Contents /\ got[1] = ThisSample
    BY <2>1, <2>2 DEF Fine, HkTypes, HkInv, Undoubted
  <2> QED
    BY <2>1, <2>2, <2>3, EndSampleAppends
<1>2. CASE ReadConfig \/ WriteConfig
  BY <1>2 DEF ReadConfig, WriteConfig, EndSample, Unsampled
<1>3. CASE Access \/ Convert \/ Poll \/ Average \/ UNCHANGED hkVars
  BY <1>3 DEF Access, Convert, Poll, Unsampled, Average, hkVars
<1> QED
  BY <1>1, <1>2, <1>3 DEF HkNext, Driver

LEMMA InitTypes == HkInit => HkTypes
BY DEF HkInit, HkTypes, Contents, Transfers
-----------------------------------------------------------------------------
\* The driver and the ADC keep the invariant, whatever fails on the bus.
THEOREM HkInvariant == HkSpec => []HkInv
<1>1. HkInv /\ [HkNext]_hkVars => HkInv'
  BY StepHk
<1> QED
  BY InitHk, <1>1, PTL DEF HkSpec

\* Whatever fails on the bus, a sample returned without an error is genuine,
\* but for the ones an error in a poll or in the write of CONFIG may spoil.
THEOREM SamplesAreGenuine == HkSpec => GoodSamplesGenuine
<1>1. HkInv /\ [HkNext]_hkVars => HkInv'
  BY StepHk
<1>2. HkTypes /\ [HkNext]_hkVars => HkTypes'
  BY TypesHk
<1>3. HkInv /\ HkTypes /\ [HkNext]_hkVars =>
        [\A n \in DOMAIN array' :
            (array' # array /\ n = i /\ ~ret' /\ doubt = 0)
               => array'[n] = ThisSample]_hkVars
  BY GoodStep
<1> QED
  BY InitHk, InitTypes, <1>1, <1>2, <1>3, PTL DEF HkSpec, GoodSamplesGenuine
-----------------------------------------------------------------------------
(* The transfers, byte by byte. *)

Bytes ==
    [pointer : {"CONFIG", "CONVERSION"}] \cup [os : 0..1]
        \cup [byte : {"lsb", "uninitialized"}] \cup [address : {"write", "read"}]
        \cup Contents

Statuses ==
    {"IDLE", "START", "SLAW_ACK", "SLAW_NACK", "SLAR_ACK", "SLAR_NACK", "TX_DATA_ACK",
     "TX_DATA_NACK", "RX_DATA_ACK", "RX_DATA_NACK", "BUS_ERROR"}

Registers == {"CONFIG", "CONVERSION"}
Chips == [pointer : Registers, n : 0..3, start : 0..1]

I2cTypeOK ==
    /\ leg \in {"call", "pointer", "data"}
    /\ bus \in {"idle", "start", "write", "read", "held"}
    /\ chip \in Chips
    /\ i2c \in [dir : {"write", "read"}, tx : Seq(Bytes), tx_idx : Nat, rx : Seq(Bytes),
                rx_idx : Nat, status : {"SUCCESS", "FAILED", "IN_PROGRESS"}]
    /\ reg \in [STA : BOOLEAN, STO : BOOLEAN, AA : BOOLEAN, SI : BOOLEAN,
                STATUS : Statuses, DATA : Bytes]

\* The byte is what the ADC gave: a start bit, or the CONVERSION register.
AsGiven(b) == IF at = "read_conversion" THEN got = <<b>> ELSE got = <<b.os>>

\* What the driver asked for in each leg of an access, and what has come of it when
\* the transfer was reported a success.
Legs ==
    /\ leg = "call" => Complete /\ got = << >>
    /\ leg # "call" => at \in Transfers
    /\ leg = "pointer" =>
         /\ Reading /\ got = << >>
         /\ i2c.dir = "write" /\ i2c.tx = <<Pointer>>
         /\ i2c.status = "SUCCESS" => chip.pointer = Pointer.pointer
    /\ (leg = "data" /\ ~Reading) =>
         /\ i2c.dir = "write" /\ i2c.tx = <<Pointer, ConfigMsb(os), Lsb>>
         /\ i2c.status = "SUCCESS" => got = <<os>>
    /\ (leg = "data" /\ Reading) =>
         /\ i2c.dir = "read" /\ Len(i2c.rx) = 2
         /\ chip.pointer = Pointer.pointer
         /\ i2c.status = "SUCCESS" => AsGiven(i2c.rx[1])

\* The start and the stop bit: a start that is due is that of a new transfer, a stop
\* that is due that of the last one.
StartStop ==
    /\ reg.STA => ~Complete /\ got = << >>
    /\ reg.STO => ~reg.SI /\ bus \in {"write", "held"}
    /\ bus \in {"start", "read"} => ~Complete
    /\ bus = "start" => got = << >> /\ (reg.SI \/ ~reg.STA)
    /\ bus = "read" => ~reg.STA
    /\ bus = "held" => reg.SI \/ reg.STO
    /\ (bus = "write" /\ ~reg.STO) => ~Complete /\ ~reg.STA

\* The interrupt that is due, and the state of the bus it reports.
Reported ==
    reg.SI =>
    /\ reg.STATUS # "IDLE"
    /\ reg.STATUS = "BUS_ERROR" <=> bus = "idle"
    /\ reg.STATUS = "START" <=> bus = "start"
    /\ reg.STATUS \in {"SLAW_ACK", "TX_DATA_ACK"} <=> bus = "write"
    /\ reg.STATUS \in {"SLAR_ACK", "RX_DATA_ACK"} <=> bus = "read"
    /\ bus = "held" => ~Complete /\ ~reg.STA
    /\ reg.STATUS = "RX_DATA_NACK" => i2c.dir = "read"

\* Bytes written: those sent, and those the ADC took.
Writing ==
    (bus = "write" /\ ~reg.STO) =>
    /\ i2c.dir = "write" /\ i2c.tx_idx <= Len(i2c.tx)
    /\ reg.SI => chip.n = i2c.tx_idx
    /\ (reg.SI /\ reg.STATUS = "SLAW_ACK") => i2c.tx_idx = 0
    /\ ~reg.SI => chip.n + 1 = i2c.tx_idx /\ reg.DATA = i2c.tx[i2c.tx_idx]
    /\ chip.n >= 1 => chip.pointer = Pointer.pointer
    /\ chip.n >= 2 => chip.start = os
    /\ got = IF chip.n = 3 THEN <<os>> ELSE << >>

\* Before the first byte of a transfer.
Beginning ==
    (bus = "start" /\ ~reg.SI) => i2c.tx_idx = 0 \/ i2c.dir = "read"

\* Bytes read: those the ADC gave, and those stored.
Receiving ==
    /\ bus = "read" =>
         /\ i2c.dir = "read" /\ chip.n \in 0..1
         /\ chip.n = 0 => got = << >> /\ i2c.rx_idx = 0
         /\ chip.n = 1 => IF reg.SI THEN i2c.rx_idx = 0 /\ AsGiven(reg.DATA)
                                    ELSE i2c.rx_idx = 1 /\ AsGiven(i2c.rx[1])
         /\ reg.SI => chip.n = IF reg.STATUS = "SLAR_ACK" THEN 0 ELSE 1
         /\ ~reg.SI => (reg.AA <=> chip.n = 0)
    /\ (reg.SI /\ reg.STATUS = "RX_DATA_NACK") => i2c.rx_idx = 1 /\ AsGiven(i2c.rx[1])
    /\ (bus = "start" /\ ~reg.SI /\ i2c.dir = "read") => i2c.rx_idx = 0

BytesIInv ==
    /\ I2cTypeOK /\ Legs
    /\ StartStop /\ Reported
    /\ Writing /\ Beginning /\ Receiving
-----------------------------------------------------------------------------
LEMMA InitBytes == HkI2cInit => BytesIInv
BY DEF HkI2cInit, HkInit, MSS_I2C_init, NoInit, BytesIInv, I2cTypeOK, Chips, Registers, Bytes,
       Statuses, Legs, StartStop, Reported, Writing, Beginning, Receiving, Complete, Transfers

\* The bus.
LEMMA BusStopStep ==
    ASSUME BytesIInv, HkInv, HkTypes, BusStop
    PROVE  BytesIInv'
<1> USE DEF BytesIInv
<1>1. /\ ~reg.SI /\ reg.STO /\ bus' = "idle"
      /\ reg'.STO = FALSE
      /\ reg'.SI = reg.SI /\ reg'.STA = reg.STA /\ reg'.AA = reg.AA
      /\ reg'.STATUS = reg.STATUS /\ reg'.DATA = reg.DATA
      /\ UNCHANGED <<at, os, got, leg, i2c, chip>>
  BY DEF BusStop, Quiet, driverVars, I2cTypeOK
<1>2. I2cTypeOK'
  BY DEF BusStop, Quiet, driverVars, I2cTypeOK, Chips, Bytes, Statuses
<1>3. Legs'
  BY <1>1 DEF Legs, AsGiven, Reading, Complete, Pointer, I2cTypeOK
<1>4. StartStop'
  BY <1>1 DEF StartStop, Complete, I2cTypeOK
<1>5. Reported'
  BY <1>1 DEF Reported, Complete, I2cTypeOK
<1>6. Writing'
  BY <1>1 DEF Writing, Pointer, I2cTypeOK
<1>7. Beginning'
  BY <1>1 DEF Beginning, I2cTypeOK
<1>8. Receiving'
  BY <1>1 DEF Receiving, AsGiven, I2cTypeOK
<1> QED
  BY <1>2, <1>3, <1>4, <1>5, <1>6, <1>7, <1>8

LEMMA BusStartStep ==
    ASSUME BytesIInv, HkInv, HkTypes, BusStart
    PROVE  BytesIInv'
<1> USE DEF BytesIInv
<1>1. /\ ~reg.SI /\ ~reg.STO /\ bus = "idle" /\ reg.STA /\ bus' = "start"
      /\ reg'.SI = TRUE /\ reg'.STATUS = "START"
      /\ reg'.STA = reg.STA /\ reg'.STO = reg.STO /\ reg'.AA = reg.AA
      /\ reg'.DATA = reg.DATA
      /\ UNCHANGED <<at, os, got, leg, i2c, chip>>
  BY DEF BusStart, Report, Quiet, driverVars, I2cTypeOK
<1>2. I2cTypeOK'
  BY DEF BusStart, Report, Quiet, driverVars, I2cTypeOK, Chips, Bytes, Statuses
<1>3. Legs'
  BY <1>1 DEF Legs, AsGiven, Reading, Complete, Pointer, I2cTypeOK
<1>4. StartStop'
  BY <1>1 DEF StartStop, Complete, I2cTypeOK
<1>5. Reported'
  BY <1>1 DEF Reported, Complete, I2cTypeOK
<1>6. Writing'
  BY <1>1 DEF Writing, Pointer, I2cTypeOK
<1>7. Beginning'
  BY <1>1 DEF Beginning, I2cTypeOK
<1>8. Receiving'
  BY <1>1 DEF Receiving, AsGiven, I2cTypeOK
<1> QED
  BY <1>2, <1>3, <1>4, <1>5, <1>6, <1>7, <1>8

LEMMA BusErrorStep ==
    ASSUME BytesIInv, HkInv, HkTypes, BusError
    PROVE  BytesIInv'
<1> USE DEF BytesIInv
<1>1. /\ ~reg.SI /\ bus # "idle" /\ bus' = "idle"
      /\ reg'.SI = TRUE /\ reg'.STO = FALSE /\ reg'.STATUS = "BUS_ERROR"
      /\ reg'.STA = reg.STA /\ reg'.AA = reg.AA /\ reg'.DATA = reg.DATA
      /\ UNCHANGED <<at, os, got, leg, i2c, chip>>
  BY DEF BusError, Quiet, driverVars, I2cTypeOK
<1>2. I2cTypeOK'
  BY DEF BusError, Quiet, driverVars, I2cTypeOK, Chips, Bytes, Statuses
<1>3. Legs'
  BY <1>1 DEF Legs, AsGiven, Reading, Complete, Pointer, I2cTypeOK
<1>4. StartStop'
  BY <1>1 DEF StartStop, Complete, I2cTypeOK
<1>5. Reported'
  BY <1>1 DEF Reported, Complete, I2cTypeOK
<1>6. Writing'
  BY <1>1 DEF Writing, Pointer, I2cTypeOK
<1>7. Beginning'
  BY <1>1 DEF Beginning, I2cTypeOK
<1>8. Receiving'
  BY <1>1 DEF Receiving, AsGiven, I2cTypeOK
<1> QED
  BY <1>2, <1>3, <1>4, <1>5, <1>6, <1>7, <1>8

LEMMA AddressAcknowledged ==
    ASSUME BytesIInv, HkInv, HkTypes, ~reg.SI, bus = "start", Report(Addressed), bus' = i2c.dir,
           chip' = [chip EXCEPT !.n = 0], UNCHANGED got, Quiet
    PROVE  BytesIInv'
<1> USE DEF BytesIInv
<1>1. /\ ~reg.SI /\ bus = "start" /\ bus' = i2c.dir
      /\ reg'.SI = TRUE /\ reg'.STATUS = Addressed
      /\ reg'.STA = reg.STA /\ reg'.STO = reg.STO /\ reg'.AA = reg.AA
      /\ reg'.DATA = reg.DATA
      /\ chip'.n = 0 /\ chip'.pointer = chip.pointer
      /\ UNCHANGED <<at, os, got, leg, i2c>>
      /\ Addressed = IF i2c.dir = "write" THEN "SLAW_ACK" ELSE "SLAR_ACK"
      /\ i2c.dir \in {"write", "read"}
  BY DEF Report, Addressed, Quiet, driverVars, I2cTypeOK
<1>2. I2cTypeOK'
  <2>1. chip' \in Chips
    BY DEF I2cTypeOK, Chips
  <2>2. reg' \in [STA : BOOLEAN, STO : BOOLEAN, AA : BOOLEAN, SI : BOOLEAN,
                 STATUS : Statuses, DATA : Bytes]
    <3>1. Addressed \in Statuses
      BY DEF Addressed, Statuses
    <3> QED
      BY <3>1 DEF Report, I2cTypeOK
  <2> QED
    BY <1>1, <2>1, <2>2 DEF Quiet, I2cTypeOK
<1>3. Legs'
  BY <1>1 DEF Legs, AsGiven, Reading, Complete, Pointer, I2cTypeOK
<1>4. StartStop'
  BY <1>1 DEF StartStop, Complete, I2cTypeOK
<1>5. Reported'
  BY <1>1 DEF Reported, Complete, I2cTypeOK, StartStop
<1>6. Writing'
  BY <1>1 DEF Writing, Pointer, I2cTypeOK, Beginning, StartStop
<1>7. Beginning'
  BY <1>1 DEF Beginning, I2cTypeOK
<1>8. Receiving'
  BY <1>1 DEF Receiving, AsGiven, I2cTypeOK, StartStop
<1> QED
  BY <1>2, <1>3, <1>4, <1>5, <1>6, <1>7, <1>8

LEMMA AddressRefused ==
    ASSUME BytesIInv, HkInv, HkTypes, ~reg.SI, bus = "start", Report(NotAddressed), bus' = "held",
           chip' = [chip EXCEPT !.n = 0], UNCHANGED got, Quiet
    PROVE  BytesIInv'
<1> USE DEF BytesIInv
<1>1. /\ ~reg.SI /\ bus = "start" /\ bus' = "held"
      /\ reg'.SI = TRUE /\ reg'.STATUS = NotAddressed
      /\ reg'.STA = reg.STA /\ reg'.STO = reg.STO /\ reg'.AA = reg.AA
      /\ reg'.DATA = reg.DATA
      /\ chip'.n = 0 /\ chip'.pointer = chip.pointer
      /\ UNCHANGED <<at, os, got, leg, i2c>>
      /\ NotAddressed = IF i2c.dir = "write" THEN "SLAW_NACK" ELSE "SLAR_NACK"
      /\ i2c.dir \in {"write", "read"}
  BY DEF Report, NotAddressed, Quiet, driverVars, I2cTypeOK
<1>2. I2cTypeOK'
  <2>1. chip' \in Chips
    BY DEF I2cTypeOK, Chips
  <2>2. reg' \in [STA : BOOLEAN, STO : BOOLEAN, AA : BOOLEAN, SI : BOOLEAN,
                 STATUS : Statuses, DATA : Bytes]
    <3>1. NotAddressed \in Statuses
      BY DEF NotAddressed, Statuses
    <3> QED
      BY <3>1 DEF Report, I2cTypeOK
  <2> QED
    BY <1>1, <2>1, <2>2 DEF Quiet, I2cTypeOK
<1>3. Legs'
  BY <1>1 DEF Legs, AsGiven, Reading, Complete, Pointer, I2cTypeOK
<1>4. StartStop'
  BY <1>1 DEF StartStop, Complete, I2cTypeOK
<1>5. Reported'
  BY <1>1 DEF Reported, Complete, I2cTypeOK, StartStop
<1>6. Writing'
  BY <1>1 DEF Writing, Pointer, I2cTypeOK, Beginning, StartStop
<1>7. Beginning'
  BY <1>1 DEF Beginning, I2cTypeOK
<1>8. Receiving'
  BY <1>1 DEF Receiving, AsGiven, I2cTypeOK, StartStop
<1> QED
  BY <1>2, <1>3, <1>4, <1>5, <1>6, <1>7, <1>8

LEMMA SendRefused ==
    ASSUME BytesIInv, HkInv, HkTypes, ~reg.SI, ~reg.STO, bus = "write", UNCHANGED <<chip, got>>, Report("TX_DATA_NACK"),
           bus' = "held", Quiet
    PROVE  BytesIInv'
<1> USE DEF BytesIInv
<1>1. /\ ~reg.SI /\ ~reg.STO /\ bus = "write" /\ bus' = "held"
      /\ reg'.SI = TRUE /\ reg'.STATUS = "TX_DATA_NACK"
      /\ reg'.STA = reg.STA /\ reg'.STO = reg.STO /\ reg'.AA = reg.AA
      /\ reg'.DATA = reg.DATA
      /\ UNCHANGED <<at, os, got, leg, i2c, chip>>
  BY DEF Report, Quiet, driverVars, I2cTypeOK
<1>2. I2cTypeOK'
  BY DEF Report, Quiet, driverVars, I2cTypeOK, Chips, Bytes, Statuses
<1>3. Legs'
  BY <1>1 DEF Legs, AsGiven, Reading, Complete, Pointer, I2cTypeOK
<1>4. StartStop'
  BY <1>1 DEF StartStop, Complete, I2cTypeOK
<1>5. Reported'
  BY <1>1 DEF Reported, Complete, I2cTypeOK, StartStop
<1>6. Writing'
  BY <1>1 DEF Writing, Pointer, I2cTypeOK
<1>7. Beginning'
  BY <1>1 DEF Beginning, I2cTypeOK
<1>8. Receiving'
  BY <1>1 DEF Receiving, AsGiven, I2cTypeOK
<1> QED
  BY <1>2, <1>3, <1>4, <1>5, <1>6, <1>7, <1>8

\* The byte that is sent, and what the ADC makes of it.
LEMMA ByteTaken ==
    ASSUME BytesIInv, HkInv, ~reg.SI, ~reg.STO, bus = "write", Take, Quiet
    PROVE  /\ ~Complete /\ chip.n \in 0..2 /\ chip'.n = chip.n + 1 /\ chip.n + 1 = i2c.tx_idx
           /\ chip' \in Chips
           /\ chip'.pointer = Pointer.pointer
           /\ chip.n >= 1 => chip'.start = os
           /\ leg = "pointer" => chip.n = 0
           /\ leg \in {"pointer", "data"} /\ (leg = "data" => ~Reading)
           /\ chip.n < 2 => got' = got
           /\ chip.n = 2 => leg = "data" /\ got' = <<os>> /\ got = << >> /\ chip.start = os
<1> USE DEF BytesIInv
<1>1. /\ chip.n + 1 = i2c.tx_idx /\ i2c.tx_idx <= Len(i2c.tx) /\ reg.DATA = i2c.tx[i2c.tx_idx]
      /\ chip.n \in Nat /\ ~Complete /\ i2c.dir = "write"
      /\ got = (IF chip.n = 3 THEN <<os>> ELSE << >>) /\ (chip.n >= 2 => chip.start = os)
      /\ (chip.n >= 1 => chip.pointer = Pointer.pointer)
  BY DEF Writing, StartStop, I2cTypeOK, Chips
<1>2. leg = "pointer" \/ (leg = "data" /\ ~Reading)
  BY <1>1 DEF Legs, I2cTypeOK
<1>3. os \in 0..1
  BY DEF HkInv, Shape
<1>4. CASE leg = "pointer"
  <2>1. i2c.tx = <<Pointer>> /\ chip.n = 0 /\ reg.DATA = Pointer
    BY <1>1, <1>4 DEF Legs
  <2>2. chip' = [chip EXCEPT !.n = 1, !.pointer = Pointer.pointer] /\ got' = got
    BY <2>1 DEF Take
  <2>3. Pointer.pointer \in Registers
    BY DEF Pointer, Registers
  <2>4. chip \in Chips
    BY DEF I2cTypeOK
  <2> HIDE DEF Pointer
  <2>5. chip' = [pointer |-> Pointer.pointer, n |-> 1, start |-> chip.start]
    BY <2>2, <2>4 DEF Chips
  <2>6. chip' \in Chips /\ chip'.n = 1 /\ chip'.pointer = Pointer.pointer
    BY <2>3, <2>4, <2>5 DEF Chips
  <2> QED
    BY <1>1, <1>4, <2>1, <2>2, <2>6
<1>5. CASE leg = "data" /\ ~Reading
  <2>1. i2c.tx = <<Pointer, ConfigMsb(os), Lsb>>
    BY <1>5 DEF Legs
  <2>2. Len(i2c.tx) = 3 /\ i2c.tx[1] = Pointer /\ i2c.tx[2] = ConfigMsb(os)
    BY <2>1
  <2>3. Pointer.pointer \in Registers /\ ConfigMsb(os).os = os
    BY DEF Pointer, Registers, ConfigMsb
  <2>4. chip \in Chips
    BY DEF I2cTypeOK
  <2> HIDE DEF Pointer, ConfigMsb
  <2>5. CASE chip.n = 0
    <3>0. reg.DATA = Pointer
      BY <1>1, <2>2, <2>5
    <3>1. chip' = [chip EXCEPT !.n = 1, !.pointer = Pointer.pointer] /\ got' = got
      BY <2>5, <3>0 DEF Take
    <3>2. chip' = [pointer |-> Pointer.pointer, n |-> 1, start |-> chip.start]
      BY <2>4, <3>1 DEF Chips
    <3>3. chip' \in Chips /\ chip'.n = 1 /\ chip'.pointer = Pointer.pointer
      BY <2>3, <2>4, <3>2 DEF Chips
    <3> QED
      BY <1>1, <1>5, <2>5, <3>1, <3>3
  <2>6. CASE chip.n = 1
    <3>0. reg.DATA.os = os
      BY <1>1, <2>2, <2>3, <2>6
    <3>1. chip' = [chip EXCEPT !.n = 2, !.start = os] /\ got' = got
      BY <2>6, <3>0 DEF Take
    <3>2. chip' = [pointer |-> chip.pointer, n |-> 2, start |-> os]
      BY <2>4, <3>1 DEF Chips
    <3>3. chip' \in Chips /\ chip'.n = 2 /\ chip'.pointer = chip.pointer /\ chip'.start = os
      BY <1>3, <2>4, <3>2 DEF Chips
    <3> QED
      BY <1>1, <1>5, <2>6, <3>1, <3>3
  <2>7. CASE chip.n = 2
    <3>1. chip' = [chip EXCEPT !.n = 3] /\ got' = <<chip.start>>
      BY <1>1, <2>7 DEF Take
    <3>2. chip' \in Chips
          /\ chip'.n = 3 /\ chip'.pointer = chip.pointer /\ chip'.start = chip.start
      BY <2>4, <3>1 DEF Chips
    <3> QED
      BY <1>1, <1>5, <2>7, <3>1, <3>2
  <2> QED
    BY <1>1, <2>2, <2>5, <2>6, <2>7
<1> QED
  BY <1>2, <1>4, <1>5

LEMMA SendTaken ==
    ASSUME BytesIInv, HkInv, HkTypes, ~reg.SI, ~reg.STO, bus = "write", Take, Report("TX_DATA_ACK"),
           bus' = bus, Quiet
    PROVE  BytesIInv'
<1> USE DEF BytesIInv
<1>1. /\ ~reg.SI /\ ~reg.STO /\ bus = "write" /\ bus' = bus
      /\ reg'.SI = TRUE /\ reg'.STATUS = "TX_DATA_ACK"
      /\ reg'.STA = reg.STA /\ reg'.STO = reg.STO /\ reg'.AA = reg.AA
      /\ reg'.DATA = reg.DATA
      /\ UNCHANGED <<at, os, leg, i2c>>
  BY DEF Report, Quiet, driverVars, I2cTypeOK
<1>2. I2cTypeOK'
  BY <1>1, ByteTaken DEF Report, Quiet, I2cTypeOK, Statuses
<1>3. Legs'
  BY <1>1, ByteTaken DEF Legs, AsGiven, Reading, Complete, Pointer, I2cTypeOK
<1>4. StartStop'
  BY <1>1, ByteTaken DEF StartStop, Complete, I2cTypeOK
<1>5. Reported'
  BY <1>1, ByteTaken DEF Reported, Complete, I2cTypeOK
<1>6. Writing'
  BY <1>1, ByteTaken DEF Writing, Pointer, I2cTypeOK
<1>7. Beginning'
  BY <1>1, ByteTaken DEF Beginning, I2cTypeOK
<1>8. Receiving'
  BY <1>1, ByteTaken DEF Receiving, AsGiven, I2cTypeOK
<1> QED
  BY <1>2, <1>3, <1>4, <1>5, <1>6, <1>7, <1>8

LEMMA SendTakenError ==
    ASSUME BytesIInv, HkInv, HkTypes, ~reg.SI, ~reg.STO, bus = "write", Take, Report("BUS_ERROR"),
           bus' = "idle", Quiet
    PROVE  BytesIInv'
<1> USE DEF BytesIInv
<1>1. /\ ~reg.SI /\ ~reg.STO /\ bus = "write" /\ bus' = "idle"
      /\ reg'.SI = TRUE /\ reg'.STATUS = "BUS_ERROR"
      /\ reg'.STA = reg.STA /\ reg'.STO = reg.STO /\ reg'.AA = reg.AA
      /\ reg'.DATA = reg.DATA
      /\ UNCHANGED <<at, os, leg, i2c>>
  BY DEF Report, Quiet, driverVars, I2cTypeOK
<1>2. I2cTypeOK'
  BY <1>1, ByteTaken DEF Report, Quiet, I2cTypeOK, Statuses
<1>3. Legs'
  BY <1>1, ByteTaken DEF Legs, AsGiven, Reading, Complete, Pointer, I2cTypeOK
<1>4. StartStop'
  BY <1>1, ByteTaken DEF StartStop, Complete, I2cTypeOK
<1>5. Reported'
  BY <1>1, ByteTaken DEF Reported, Complete, I2cTypeOK
<1>6. Writing'
  BY <1>1, ByteTaken DEF Writing, Pointer, I2cTypeOK
<1>7. Beginning'
  BY <1>1, ByteTaken DEF Beginning, I2cTypeOK
<1>8. Receiving'
  BY <1>1, ByteTaken DEF Receiving, AsGiven, I2cTypeOK
<1> QED
  BY <1>2, <1>3, <1>4, <1>5, <1>6, <1>7, <1>8

\* The bytes that are read.
LEMMA ReadInProgress ==
    ASSUME BytesIInv, ~reg.SI, bus = "read"
    PROVE  leg = "data" /\ Reading /\ chip.pointer = Pointer.pointer
BY DEF BytesIInv, Receiving, StartStop, Legs, I2cTypeOK

\* The first byte is the register the pointer names; the driver has it all.
LEMMA FirstByteGiven ==
    ASSUME BytesIInv, HkInv, HkTypes, ~reg.SI, bus = "read"
    PROVE  /\ FirstByte \in Bytes
           /\ at = "read_conversion" => FirstByte = adc.conversion /\ Given = <<adc.conversion>>
           /\ at # "read_conversion" => FirstByte = [os |-> OsBit] /\ Given = <<OsBit>>
<1>1. chip.pointer = IF at = "read_conversion" THEN "CONVERSION" ELSE "CONFIG"
  BY ReadInProgress DEF Pointer
<1>2. OsBit \in 0..1 /\ adc.conversion \in Contents
  BY DEF OsBit, HkTypes
<1>3. [os |-> OsBit] \in Bytes /\ adc.conversion \in Bytes
  BY <1>2 DEF Bytes
<1> QED
  BY <1>1, <1>3 DEF FirstByte, Given, ConfigMsb

LEMMA FirstReceived ==
    ASSUME BytesIInv, HkInv, HkTypes, BusReceive, chip.n = 0
    PROVE  BytesIInv'
<1> USE DEF BytesIInv
<1>1. /\ ~reg.SI /\ ~reg.STO /\ bus = "read" /\ bus' = "read" /\ chip.n = 0 /\ reg.AA
      /\ reg'.SI = TRUE /\ reg'.STATUS = "RX_DATA_ACK" /\ reg'.DATA = FirstByte
      /\ reg'.STA = reg.STA /\ reg'.STO = reg.STO /\ reg'.AA = reg.AA
      /\ chip'.n = 1 /\ chip'.pointer = chip.pointer
      /\ UNCHANGED <<at, os, leg, i2c>>
      /\ got' = Given
      /\ i2c.dir = "read" /\ i2c.rx_idx = 0
  BY DEF BusReceive, Receiving, Quiet, driverVars, I2cTypeOK
<1>2. I2cTypeOK'
  <2>1. chip' \in Chips
    BY DEF BusReceive, I2cTypeOK, Chips
  <2>2. "RX_DATA_ACK" \in Statuses /\ FirstByte \in Bytes
    BY <1>1, FirstByteGiven DEF Statuses
  <2>3. reg' = [reg EXCEPT !.SI = TRUE, !.STATUS = "RX_DATA_ACK", !.DATA = FirstByte]
    BY <1>1 DEF BusReceive
  <2> HIDE DEF FirstByte
  <2>4. reg' \in [STA : BOOLEAN, STO : BOOLEAN, AA : BOOLEAN, SI : BOOLEAN,
                 STATUS : Statuses, DATA : Bytes]
    BY <2>2, <2>3 DEF I2cTypeOK
  <2> QED
    BY <1>1, <2>1, <2>4 DEF I2cTypeOK
<1>3. Legs'
  BY <1>1, FirstByteGiven, ReadInProgress DEF Legs, AsGiven, Reading, Complete, Pointer, I2cTypeOK, StartStop
<1>4. StartStop'
  BY <1>1, FirstByteGiven, ReadInProgress DEF StartStop, Complete, I2cTypeOK
<1>5. Reported'
  BY <1>1, FirstByteGiven, ReadInProgress DEF Reported, Complete, I2cTypeOK
<1>6. Writing'
  BY <1>1, FirstByteGiven, ReadInProgress DEF Writing, Pointer, I2cTypeOK
<1>7. Beginning'
  BY <1>1, FirstByteGiven, ReadInProgress DEF Beginning, I2cTypeOK
<1>8. Receiving'
  BY <1>1, FirstByteGiven, ReadInProgress DEF Receiving, AsGiven, I2cTypeOK
<1> QED
  BY <1>2, <1>3, <1>4, <1>5, <1>6, <1>7, <1>8

LEMMA LastReceived ==
    ASSUME BytesIInv, HkInv, HkTypes, BusReceive, chip.n # 0
    PROVE  BytesIInv'
<1> USE DEF BytesIInv
<1>1. /\ ~reg.SI /\ ~reg.STO /\ bus = "read" /\ bus' = "held" /\ chip.n = 1 /\ ~reg.AA
      /\ reg'.SI = TRUE /\ reg'.STATUS = "RX_DATA_NACK" /\ reg'.DATA = Lsb
      /\ reg'.STA = reg.STA /\ reg'.STO = reg.STO /\ reg'.AA = reg.AA
      /\ chip'.n = 2 /\ chip'.pointer = chip.pointer
      /\ UNCHANGED <<at, os, leg, got, i2c>>
      /\ i2c.dir = "read" /\ i2c.rx_idx = 1 /\ AsGiven(i2c.rx[1])
  BY DEF BusReceive, Receiving, Quiet, driverVars, I2cTypeOK
<1>2. I2cTypeOK'
  <2>1. chip' \in Chips
    BY <1>1 DEF BusReceive, I2cTypeOK, Chips
  <2>2. "RX_DATA_NACK" \in Statuses /\ Lsb \in Bytes
    BY DEF Statuses, Lsb, Bytes
  <2>3. reg' = [reg EXCEPT !.SI = TRUE, !.STATUS = "RX_DATA_NACK", !.DATA = Lsb]
    BY <1>1 DEF BusReceive
  <2> HIDE DEF Lsb
  <2>4. reg' \in [STA : BOOLEAN, STO : BOOLEAN, AA : BOOLEAN, SI : BOOLEAN,
                 STATUS : Statuses, DATA : Bytes]
    BY <2>2, <2>3 DEF I2cTypeOK
  <2> QED
    BY <1>1, <2>1, <2>4 DEF I2cTypeOK
<1>3. Legs'
  BY <1>1 DEF Legs, AsGiven, Reading, Complete, Pointer, I2cTypeOK
<1>4. StartStop'
  BY <1>1 DEF StartStop, Complete, I2cTypeOK
<1>5. Reported'
  BY <1>1 DEF Reported, Complete, I2cTypeOK, StartStop
<1>6. Writing'
  BY <1>1 DEF Writing, Pointer, I2cTypeOK
<1>7. Beginning'
  BY <1>1 DEF Beginning, I2cTypeOK
<1>8. Receiving'
  BY <1>1 DEF Receiving, AsGiven, I2cTypeOK
<1> QED
  BY <1>2, <1>3, <1>4, <1>5, <1>6, <1>7, <1>8

\* The interrupt.
LEMMA NoInterruptAtRest ==
    ASSUME I2cTypeOK, Reported, StartStop, reg.SI
    PROVE  /\ ~reg.STO /\ reg.STATUS # "IDLE"
           /\ reg.STATUS # "BUS_ERROR" => ~Complete
           /\ reg.STATUS = "BUS_ERROR" => bus = "idle"
           /\ reg.STATUS = "START" => bus = "start"
           /\ reg.STATUS \in {"SLAW_ACK", "TX_DATA_ACK"} => bus = "write" /\ ~reg.STA
           /\ reg.STATUS \in {"SLAR_ACK", "RX_DATA_ACK"} => bus = "read" /\ ~reg.STA
           /\ reg.STATUS \in {"SLAW_NACK", "SLAR_NACK", "TX_DATA_NACK", "RX_DATA_NACK"}
                => bus = "held" /\ ~reg.STA
BY DEF I2cTypeOK, Statuses, Reported, StartStop

\* All bytes of a write are acknowledged: the ADC took them.
LEMMA WholeWritten ==
    ASSUME BytesIInv, reg.SI, reg.STATUS \in {"SLAW_ACK", "TX_DATA_ACK"},
           i2c.tx_idx >= Len(i2c.tx)
    PROVE  /\ leg \in {"pointer", "data"}
           /\ leg = "pointer" => chip.pointer = Pointer.pointer
           /\ leg = "data" => ~Reading /\ got = <<os>>
<1> USE DEF BytesIInv
<1>1. bus = "write" /\ ~reg.STO /\ ~Complete
  BY NoInterruptAtRest
<1>2. /\ i2c.dir = "write" /\ chip.n = i2c.tx_idx /\ i2c.tx_idx = Len(i2c.tx)
      /\ chip.n >= 1 => chip.pointer = Pointer.pointer
      /\ got = (IF chip.n = 3 THEN <<os>> ELSE << >>)
  BY <1>1 DEF Writing, I2cTypeOK
<1>3. leg = "pointer" \/ (leg = "data" /\ ~Reading)
  BY <1>1, <1>2 DEF Legs, I2cTypeOK
<1>4. leg = "pointer" => Len(i2c.tx) = 1
  <2>1. leg = "pointer" => i2c.tx = <<Pointer>>
    BY DEF Legs
  <2>2. ASSUME NEW p PROVE Len(<<p>>) = 1
    OBVIOUS
  <2>3. Len(<<Pointer>>) = 1
    BY <2>2
  <2> QED
    BY ONLY <2>1, <2>3
<1>5. (leg = "data" /\ ~Reading) => Len(i2c.tx) = 3
  <2>1. (leg = "data" /\ ~Reading) => i2c.tx = <<Pointer, ConfigMsb(os), Lsb>>
    BY DEF Legs
  <2>2. ASSUME NEW p, NEW msb, NEW lsb PROVE Len(<<p, msb, lsb>>) = 3
    OBVIOUS
  <2>3. Len(<<Pointer, ConfigMsb(os), Lsb>>) = 3
    BY <2>2
  <2> QED
    BY ONLY <2>1, <2>3
<1> QED
  BY <1>2, <1>3, <1>4, <1>5

\* What is to be stored, or was stored, is what the ADC gave first.
LEMMA StoreInProgress ==
    ASSUME BytesIInv, reg.SI, reg.STATUS \in {"RX_DATA_ACK", "RX_DATA_NACK"}
    PROVE  /\ leg = "data" /\ Reading /\ Len(i2c.rx) = 2
           /\ reg.STATUS = "RX_DATA_ACK" => i2c.rx_idx = 0 /\ AsGiven(reg.DATA)
           /\ reg.STATUS = "RX_DATA_NACK" => i2c.rx_idx = 1 /\ AsGiven(i2c.rx[1])
<1> USE DEF BytesIInv
<1>1. ~Complete
  BY NoInterruptAtRest
<1>2. i2c.dir = "read"
  BY NoInterruptAtRest DEF Receiving, Reported
<1>3. leg = "data" /\ Reading /\ Len(i2c.rx) = 2
  BY <1>1, <1>2 DEF Legs, I2cTypeOK
<1>4. reg.STATUS = "RX_DATA_ACK" => i2c.rx_idx = 0 /\ AsGiven(reg.DATA)
  BY NoInterruptAtRest DEF Receiving
<1>5. reg.STATUS = "RX_DATA_NACK" => i2c.rx_idx = 1 /\ AsGiven(i2c.rx[1])
  BY DEF Receiving
<1> QED
  BY <1>3, <1>4, <1>5

LEMMA IsrStart ==
    ASSUME BytesIInv, HkInv, HkTypes, ST_START,
           UNCHANGED <<hkVars, leg, busVars>>
    PROVE  BytesIInv'
<1> USE DEF BytesIInv
<1>1. /\ reg.SI /\ reg.STATUS = "START"
      /\ reg'.SI = FALSE /\ reg'.STA = FALSE /\ reg'.DATA = [address |-> i2c.dir]
      /\ reg'.STO = reg.STO /\ reg'.AA = reg.AA /\ reg'.STATUS = reg.STATUS
      /\ i2c'.dir = i2c.dir /\ i2c'.tx = i2c.tx /\ i2c'.rx = i2c.rx
      /\ i2c'.status = i2c.status
      /\ i2c.dir = "write" => i2c'.tx_idx = 0
      /\ i2c.dir = "read" => i2c'.rx_idx = 0
      /\ UNCHANGED <<at, os, got, leg, bus, chip>>
  BY DEF ST_START, Interrupted, Served, hkVars, busVars, I2cTypeOK
<1>2. I2cTypeOK'
  <2>1. reg' \in [STA : BOOLEAN, STO : BOOLEAN, AA : BOOLEAN, SI : BOOLEAN,
                 STATUS : Statuses, DATA : Bytes]
    BY DEF ST_START, Interrupted, Served, I2cTypeOK, Bytes
  <2>2. i2c' \in [dir : {"write", "read"}, tx : Seq(Bytes), tx_idx : Nat,
                 rx : Seq(Bytes), rx_idx : Nat,
                 status : {"SUCCESS", "FAILED", "IN_PROGRESS"}]
    BY DEF ST_START, I2cTypeOK
  <2> QED
    BY <1>1, <2>1, <2>2 DEF I2cTypeOK
<1>3. Legs'
  BY <1>1, NoInterruptAtRest DEF Legs, AsGiven, Reading, Complete, Pointer, I2cTypeOK
<1>4. StartStop'
  BY <1>1, NoInterruptAtRest DEF StartStop, Complete, I2cTypeOK
<1>5. Reported'
  BY <1>1, NoInterruptAtRest DEF Reported, Complete, I2cTypeOK
<1>6. Writing'
  BY <1>1, NoInterruptAtRest DEF Writing, Pointer, I2cTypeOK
<1>7. Beginning'
  BY <1>1, NoInterruptAtRest DEF Beginning, I2cTypeOK
<1>8. Receiving'
  BY <1>1, NoInterruptAtRest DEF Receiving, AsGiven, I2cTypeOK
<1> QED
  BY <1>2, <1>3, <1>4, <1>5, <1>6, <1>7, <1>8

LEMMA IsrNack ==
    ASSUME BytesIInv, HkInv, HkTypes, ST_NACK,
           UNCHANGED <<hkVars, leg, busVars>>
    PROVE  BytesIInv'
<1> USE DEF BytesIInv
<1>1. /\ reg.SI /\ reg.STATUS \in {"SLAW_NACK", "SLAR_NACK", "TX_DATA_NACK"}
      /\ reg'.SI = FALSE /\ reg'.STO = TRUE
      /\ reg'.STA = reg.STA /\ reg'.AA = reg.AA /\ reg'.STATUS = reg.STATUS
      /\ reg'.DATA = reg.DATA
      /\ i2c'.status = "FAILED"
      /\ i2c'.dir = i2c.dir /\ i2c'.tx = i2c.tx /\ i2c'.tx_idx = i2c.tx_idx
      /\ i2c'.rx = i2c.rx /\ i2c'.rx_idx = i2c.rx_idx
      /\ UNCHANGED <<at, os, got, leg, bus, chip>>
  BY DEF ST_NACK, EndTransfer, Interrupted, Served, hkVars, busVars, I2cTypeOK
<1>2. I2cTypeOK'
  <2>1. reg' \in [STA : BOOLEAN, STO : BOOLEAN, AA : BOOLEAN, SI : BOOLEAN,
                 STATUS : Statuses, DATA : Bytes]
    BY DEF ST_NACK, EndTransfer, Interrupted, Served, I2cTypeOK
  <2>2. i2c' \in [dir : {"write", "read"}, tx : Seq(Bytes), tx_idx : Nat,
                 rx : Seq(Bytes), rx_idx : Nat,
                 status : {"SUCCESS", "FAILED", "IN_PROGRESS"}]
    BY DEF ST_NACK, EndTransfer, I2cTypeOK
  <2> QED
    BY <1>1, <2>1, <2>2 DEF I2cTypeOK
<1>3. Legs'
  BY <1>1, NoInterruptAtRest DEF Legs, AsGiven, Reading, Complete, Pointer, I2cTypeOK
<1>4. StartStop'
  BY <1>1, NoInterruptAtRest DEF StartStop, Complete, I2cTypeOK
<1>5. Reported'
  BY <1>1, NoInterruptAtRest DEF Reported, Complete, I2cTypeOK
<1>6. Writing'
  BY <1>1, NoInterruptAtRest DEF Writing, Pointer, I2cTypeOK
<1>7. Beginning'
  BY <1>1, NoInterruptAtRest DEF Beginning, I2cTypeOK
<1>8. Receiving'
  BY <1>1, NoInterruptAtRest DEF Receiving, AsGiven, I2cTypeOK
<1> QED
  BY <1>2, <1>3, <1>4, <1>5, <1>6, <1>7, <1>8

LEMMA IsrAllSent ==
    ASSUME BytesIInv, HkInv, HkTypes, ST_TX_ACK, AllSent,
           UNCHANGED <<hkVars, leg, busVars>>
    PROVE  BytesIInv'
<1> USE DEF BytesIInv
<1>1. /\ reg.SI /\ reg.STATUS \in {"SLAW_ACK", "TX_DATA_ACK"} /\ i2c.tx_idx >= Len(i2c.tx)
      /\ reg'.SI = FALSE /\ reg'.STO = TRUE
      /\ reg'.STA = reg.STA /\ reg'.AA = reg.AA /\ reg'.STATUS = reg.STATUS
      /\ reg'.DATA = reg.DATA
      /\ i2c'.status = "SUCCESS"
      /\ i2c'.dir = i2c.dir /\ i2c'.tx = i2c.tx /\ i2c'.tx_idx = i2c.tx_idx
      /\ i2c'.rx = i2c.rx /\ i2c'.rx_idx = i2c.rx_idx
      /\ UNCHANGED <<at, os, got, leg, bus, chip>>
  BY DEF ST_TX_ACK, AllSent, EndTransfer, Interrupted, Served, hkVars, busVars, I2cTypeOK
<1>2. I2cTypeOK'
  <2>1. reg' \in [STA : BOOLEAN, STO : BOOLEAN, AA : BOOLEAN, SI : BOOLEAN,
                 STATUS : Statuses, DATA : Bytes]
    BY DEF ST_TX_ACK, AllSent, EndTransfer, Interrupted, Served, I2cTypeOK
  <2>2. i2c' \in [dir : {"write", "read"}, tx : Seq(Bytes), tx_idx : Nat,
                 rx : Seq(Bytes), rx_idx : Nat,
                 status : {"SUCCESS", "FAILED", "IN_PROGRESS"}]
    BY DEF ST_TX_ACK, AllSent, EndTransfer, I2cTypeOK
  <2> QED
    BY <1>1, <2>1, <2>2 DEF I2cTypeOK
<1>3. Legs'
  BY <1>1, NoInterruptAtRest, WholeWritten DEF Legs, AsGiven, Reading, Complete, Pointer, I2cTypeOK
<1>4. StartStop'
  BY <1>1, NoInterruptAtRest DEF StartStop, Complete, I2cTypeOK
<1>5. Reported'
  BY <1>1, NoInterruptAtRest DEF Reported, Complete, I2cTypeOK
<1>6. Writing'
  BY <1>1, NoInterruptAtRest DEF Writing, Pointer, I2cTypeOK
<1>7. Beginning'
  BY <1>1, NoInterruptAtRest DEF Beginning, I2cTypeOK
<1>8. Receiving'
  BY <1>1, NoInterruptAtRest DEF Receiving, AsGiven, I2cTypeOK
<1> QED
  BY <1>2, <1>3, <1>4, <1>5, <1>6, <1>7, <1>8

LEMMA IsrNextByte ==
    ASSUME BytesIInv, HkInv, HkTypes, ST_TX_ACK, ~AllSent,
           UNCHANGED <<hkVars, leg, busVars>>
    PROVE  BytesIInv'
<1> USE DEF BytesIInv
<1>0. i2c.tx_idx \in Nat /\ i2c.tx_idx + 1 <= Len(i2c.tx)
  <2>1. i2c.tx_idx \in Nat /\ i2c.tx \in Seq(Bytes)
    BY DEF I2cTypeOK
  <2>2. Len(i2c.tx) \in Nat
    BY <2>1
  <2> QED
    BY <2>1, <2>2 DEF AllSent
<1>a. /\ reg' = [reg EXCEPT !.SI = FALSE, !.DATA = i2c.tx[i2c.tx_idx + 1]]
      /\ i2c' = [i2c EXCEPT !.tx_idx = i2c.tx_idx + 1]
  BY DEF ST_TX_ACK, Served
<1>1. /\ reg.SI /\ reg.STATUS \in {"SLAW_ACK", "TX_DATA_ACK"} /\ i2c.tx_idx + 1 <= Len(i2c.tx)
      /\ reg'.SI = FALSE /\ reg'.DATA = i2c.tx[i2c.tx_idx + 1]
      /\ reg'.STA = reg.STA /\ reg'.STO = reg.STO /\ reg'.AA = reg.AA
      /\ reg'.STATUS = reg.STATUS
      /\ i2c'.tx_idx = i2c.tx_idx + 1
      /\ i2c'.dir = i2c.dir /\ i2c'.tx = i2c.tx /\ i2c'.rx = i2c.rx
      /\ i2c'.rx_idx = i2c.rx_idx /\ i2c'.status = i2c.status
      /\ UNCHANGED <<at, os, got, leg, bus, chip>>
  BY <1>0, <1>a DEF ST_TX_ACK, Interrupted, hkVars, busVars, I2cTypeOK
<1>2. I2cTypeOK'
  <2>1. reg' \in [STA : BOOLEAN, STO : BOOLEAN, AA : BOOLEAN, SI : BOOLEAN,
                 STATUS : Statuses, DATA : Bytes]
    <3>1. i2c.tx_idx + 1 \in 1..Len(i2c.tx) /\ i2c.tx \in Seq(Bytes)
      BY <1>1 DEF I2cTypeOK
    <3>2. i2c.tx[i2c.tx_idx + 1] \in Bytes
      BY <3>1
    <3> QED
      BY <3>2 DEF ST_TX_ACK, AllSent, Served, I2cTypeOK
  <2>2. i2c' \in [dir : {"write", "read"}, tx : Seq(Bytes), tx_idx : Nat,
                 rx : Seq(Bytes), rx_idx : Nat,
                 status : {"SUCCESS", "FAILED", "IN_PROGRESS"}]
    BY DEF ST_TX_ACK, AllSent, I2cTypeOK
  <2> QED
    BY <1>1, <2>1, <2>2 DEF I2cTypeOK
<1>3. Legs'
  BY <1>1, NoInterruptAtRest DEF Legs, AsGiven, Reading, Complete, Pointer, I2cTypeOK
<1>4. StartStop'
  BY <1>1, NoInterruptAtRest DEF StartStop, Complete, I2cTypeOK
<1>5. Reported'
  BY <1>1, NoInterruptAtRest DEF Reported, Complete, I2cTypeOK
<1>6. Writing'
  BY <1>1, NoInterruptAtRest DEF Writing, Pointer, I2cTypeOK
<1>7. Beginning'
  BY <1>1, NoInterruptAtRest DEF Beginning, I2cTypeOK
<1>8. Receiving'
  BY <1>1, NoInterruptAtRest DEF Receiving, AsGiven, I2cTypeOK
<1> QED
  BY <1>2, <1>3, <1>4, <1>5, <1>6, <1>7, <1>8

LEMMA IsrReadAcknowledged ==
    ASSUME BytesIInv, HkInv, HkTypes, ST_SLAR_ACK,
           UNCHANGED <<hkVars, leg, busVars>>
    PROVE  BytesIInv'
<1> USE DEF BytesIInv
<1>1. /\ reg.SI /\ reg.STATUS = "SLAR_ACK"
      /\ reg'.SI = FALSE /\ reg'.AA = TRUE
      /\ reg'.STA = reg.STA /\ reg'.STO = reg.STO /\ reg'.STATUS = reg.STATUS
      /\ reg'.DATA = reg.DATA
      /\ i2c' = i2c
      /\ UNCHANGED <<at, os, got, leg, bus, chip>>
  BY DEF ST_SLAR_ACK, Interrupted, Served, hkVars, busVars, I2cTypeOK
<1>2. I2cTypeOK'
  <2>1. reg' \in [STA : BOOLEAN, STO : BOOLEAN, AA : BOOLEAN, SI : BOOLEAN,
                 STATUS : Statuses, DATA : Bytes]
    BY DEF ST_SLAR_ACK, Interrupted, Served, I2cTypeOK
  <2>2. i2c' \in [dir : {"write", "read"}, tx : Seq(Bytes), tx_idx : Nat,
                 rx : Seq(Bytes), rx_idx : Nat,
                 status : {"SUCCESS", "FAILED", "IN_PROGRESS"}]
    BY DEF ST_SLAR_ACK, I2cTypeOK
  <2> QED
    BY <1>1, <2>1, <2>2 DEF I2cTypeOK
<1>3. Legs'
  BY <1>1, NoInterruptAtRest DEF Legs, AsGiven, Reading, Complete, Pointer, I2cTypeOK
<1>4. StartStop'
  BY <1>1, NoInterruptAtRest DEF StartStop, Complete, I2cTypeOK
<1>5. Reported'
  BY <1>1, NoInterruptAtRest DEF Reported, Complete, I2cTypeOK
<1>6. Writing'
  BY <1>1, NoInterruptAtRest DEF Writing, Pointer, I2cTypeOK
<1>7. Beginning'
  BY <1>1, NoInterruptAtRest DEF Beginning, I2cTypeOK
<1>8. Receiving'
  BY <1>1, NoInterruptAtRest DEF Receiving, AsGiven, I2cTypeOK
<1> QED
  BY <1>2, <1>3, <1>4, <1>5, <1>6, <1>7, <1>8

LEMMA IsrByteStored ==
    ASSUME BytesIInv, HkInv, HkTypes, ST_RX_DATA_ACK,
           UNCHANGED <<hkVars, leg, busVars>>
    PROVE  BytesIInv'
<1> USE DEF BytesIInv
<1>0. /\ reg.SI /\ reg.STATUS = "RX_DATA_ACK" /\ leg = "data" /\ Reading /\ Len(i2c.rx) = 2
      /\ i2c.rx_idx = 0 /\ AsGiven(reg.DATA)
  BY StoreInProgress DEF ST_RX_DATA_ACK, Interrupted
<1>a. /\ i2c' = [i2c EXCEPT !.rx[1] = reg.DATA, !.rx_idx = 1]
      /\ reg' = [reg EXCEPT !.SI = FALSE, !.AA = FALSE]
  BY <1>0 DEF ST_RX_DATA_ACK, LastButOne, Served
<1>1. /\ reg.SI /\ reg.STATUS = "RX_DATA_ACK" /\ i2c.rx_idx = 0 /\ Len(i2c.rx) = 2
      /\ reg'.SI = FALSE /\ reg'.AA = FALSE
      /\ reg'.STA = reg.STA /\ reg'.STO = reg.STO /\ reg'.STATUS = reg.STATUS
      /\ reg'.DATA = reg.DATA
      /\ i2c'.rx[1] = reg.DATA /\ Len(i2c'.rx) = 2 /\ i2c'.rx_idx = 1
      /\ i2c'.dir = i2c.dir /\ i2c'.tx = i2c.tx
      /\ i2c'.tx_idx = i2c.tx_idx /\ i2c'.status = i2c.status
      /\ AsGiven(reg.DATA)
      /\ UNCHANGED <<at, os, got, leg, bus, chip>>
  BY <1>0, <1>a DEF I2cTypeOK, hkVars, busVars
<1>2. I2cTypeOK'
  <2>1. reg' \in [STA : BOOLEAN, STO : BOOLEAN, AA : BOOLEAN, SI : BOOLEAN,
                 STATUS : Statuses, DATA : Bytes]
    BY <1>1 DEF ST_RX_DATA_ACK, Served, I2cTypeOK
  <2>2. i2c' \in [dir : {"write", "read"}, tx : Seq(Bytes), tx_idx : Nat,
                 rx : Seq(Bytes), rx_idx : Nat,
                 status : {"SUCCESS", "FAILED", "IN_PROGRESS"}]
    <3>1. i2c.rx \in Seq(Bytes) /\ reg.DATA \in Bytes /\ 1 \in 1..Len(i2c.rx)
      BY <1>0 DEF I2cTypeOK
    <3> DEFINE stored == [i2c.rx EXCEPT ![1] = reg.DATA]
    <3>2. stored \in Seq(Bytes)
      BY <3>1, ExceptSeq
    <3>3. i2c' = [i2c EXCEPT !.rx = stored, !.rx_idx = 1]
      BY <1>a
    <3> HIDE DEF stored
    <3> QED
      BY <3>2, <3>3 DEF I2cTypeOK
  <2> QED
    BY <1>1, <2>1, <2>2 DEF I2cTypeOK
<1>3. Legs'
  BY <1>1, NoInterruptAtRest DEF Legs, AsGiven, Reading, Complete, Pointer, I2cTypeOK
<1>4. StartStop'
  BY <1>1, NoInterruptAtRest DEF StartStop, Complete, I2cTypeOK
<1>5. Reported'
  BY <1>1, NoInterruptAtRest DEF Reported, Complete, I2cTypeOK
<1>6. Writing'
  BY <1>1, NoInterruptAtRest DEF Writing, Pointer, I2cTypeOK
<1>7. Beginning'
  BY <1>1, NoInterruptAtRest DEF Beginning, I2cTypeOK
<1>8. Receiving'
  BY <1>1, NoInterruptAtRest DEF Receiving, AsGiven, I2cTypeOK
<1> QED
  BY <1>2, <1>3, <1>4, <1>5, <1>6, <1>7, <1>8

LEMMA IsrLastStored ==
    ASSUME BytesIInv, HkInv, HkTypes, ST_RX_DATA_NACK,
           UNCHANGED <<hkVars, leg, busVars>>
    PROVE  BytesIInv'
<1> USE DEF BytesIInv
<1>0. /\ reg.SI /\ reg.STATUS = "RX_DATA_NACK" /\ leg = "data" /\ Reading /\ Len(i2c.rx) = 2
      /\ i2c.rx_idx = 1 /\ AsGiven(i2c.rx[1])
  BY StoreInProgress DEF ST_RX_DATA_NACK, Interrupted
<1>a. /\ i2c' = [i2c EXCEPT !.rx[2] = reg.DATA, !.status = "SUCCESS"]
      /\ reg' = [reg EXCEPT !.SI = FALSE, !.STO = TRUE]
  BY <1>0 DEF ST_RX_DATA_NACK, LastButOne, Served
<1>1. /\ reg.SI /\ reg.STATUS = "RX_DATA_NACK" /\ i2c.rx_idx = 1 /\ Len(i2c.rx) = 2
      /\ reg'.SI = FALSE /\ reg'.STO = TRUE
      /\ reg'.STA = reg.STA /\ reg'.AA = reg.AA /\ reg'.STATUS = reg.STATUS
      /\ reg'.DATA = reg.DATA
      /\ i2c'.rx[1] = i2c.rx[1] /\ Len(i2c'.rx) = 2 /\ i2c'.status = "SUCCESS"
      /\ i2c'.dir = i2c.dir /\ i2c'.tx = i2c.tx
      /\ i2c'.tx_idx = i2c.tx_idx /\ i2c'.rx_idx = i2c.rx_idx
      /\ AsGiven(i2c.rx[1])
      /\ leg = "data" /\ Reading
      /\ UNCHANGED <<at, os, got, leg, bus, chip>>
  BY <1>0, <1>a DEF I2cTypeOK, hkVars, busVars
<1>2. I2cTypeOK'
  <2>1. reg' \in [STA : BOOLEAN, STO : BOOLEAN, AA : BOOLEAN, SI : BOOLEAN,
                 STATUS : Statuses, DATA : Bytes]
    BY <1>1 DEF ST_RX_DATA_NACK, Served, I2cTypeOK
  <2>2. i2c' \in [dir : {"write", "read"}, tx : Seq(Bytes), tx_idx : Nat,
                 rx : Seq(Bytes), rx_idx : Nat,
                 status : {"SUCCESS", "FAILED", "IN_PROGRESS"}]
    <3>1. i2c.rx \in Seq(Bytes) /\ reg.DATA \in Bytes /\ 2 \in 1..Len(i2c.rx)
      BY <1>0 DEF I2cTypeOK
    <3> DEFINE stored == [i2c.rx EXCEPT ![2] = reg.DATA]
    <3>2. stored \in Seq(Bytes)
      BY <3>1, ExceptSeq
    <3>3. i2c' = [i2c EXCEPT !.rx = stored, !.status = "SUCCESS"]
      BY <1>a
    <3> HIDE DEF stored
    <3> QED
      BY <3>2, <3>3 DEF I2cTypeOK
  <2> QED
    BY <1>1, <2>1, <2>2 DEF I2cTypeOK
<1>3. Legs'
  BY <1>1, NoInterruptAtRest DEF Legs, AsGiven, Reading, Complete, Pointer, I2cTypeOK
<1>4. StartStop'
  BY <1>1, NoInterruptAtRest DEF StartStop, Complete, I2cTypeOK
<1>5. Reported'
  BY <1>1, NoInterruptAtRest DEF Reported, Complete, I2cTypeOK
<1>6. Writing'
  BY <1>1, NoInterruptAtRest DEF Writing, Pointer, I2cTypeOK
<1>7. Beginning'
  BY <1>1, NoInterruptAtRest DEF Beginning, I2cTypeOK
<1>8. Receiving'
  BY <1>1, NoInterruptAtRest DEF Receiving, AsGiven, I2cTypeOK
<1> QED
  BY <1>2, <1>3, <1>4, <1>5, <1>6, <1>7, <1>8

LEMMA IsrBusError ==
    ASSUME BytesIInv, HkInv, HkTypes, ST_BUS_ERROR,
           UNCHANGED <<hkVars, leg, busVars>>
    PROVE  BytesIInv'
<1> USE DEF BytesIInv
<1>1. /\ reg.SI /\ reg.STATUS = "BUS_ERROR"
      /\ reg'.SI = FALSE /\ reg'.STA = FALSE
      /\ reg'.STO = reg.STO /\ reg'.AA = reg.AA /\ reg'.STATUS = reg.STATUS
      /\ reg'.DATA = reg.DATA
      /\ i2c'.dir = i2c.dir /\ i2c'.tx = i2c.tx /\ i2c'.tx_idx = i2c.tx_idx
      /\ i2c'.rx = i2c.rx /\ i2c'.rx_idx = i2c.rx_idx
      /\ i2c'.status = IF i2c.status = "IN_PROGRESS" THEN "FAILED" ELSE i2c.status
      /\ UNCHANGED <<at, os, got, leg, bus, chip>>
  BY DEF ST_BUS_ERROR, Interrupted, Served, hkVars, busVars, I2cTypeOK
<1>2. I2cTypeOK'
  <2>1. reg' \in [STA : BOOLEAN, STO : BOOLEAN, AA : BOOLEAN, SI : BOOLEAN,
                 STATUS : Statuses, DATA : Bytes]
    BY DEF ST_BUS_ERROR, Served, I2cTypeOK
  <2>2. i2c' \in [dir : {"write", "read"}, tx : Seq(Bytes), tx_idx : Nat,
                 rx : Seq(Bytes), rx_idx : Nat,
                 status : {"SUCCESS", "FAILED", "IN_PROGRESS"}]
    BY DEF ST_BUS_ERROR, I2cTypeOK
  <2> QED
    BY <1>1, <2>1, <2>2 DEF I2cTypeOK
<1>3. Legs'
  BY <1>1, NoInterruptAtRest DEF Legs, AsGiven, Reading, Complete, Pointer, I2cTypeOK
<1>4. StartStop'
  BY <1>1, NoInterruptAtRest DEF StartStop, Complete, I2cTypeOK
<1>5. Reported'
  BY <1>1, NoInterruptAtRest DEF Reported, Complete, I2cTypeOK
<1>6. Writing'
  BY <1>1, NoInterruptAtRest DEF Writing, Pointer, I2cTypeOK
<1>7. Beginning'
  BY <1>1, NoInterruptAtRest DEF Beginning, I2cTypeOK
<1>8. Receiving'
  BY <1>1, NoInterruptAtRest DEF Receiving, AsGiven, I2cTypeOK
<1> QED
  BY <1>2, <1>3, <1>4, <1>5, <1>6, <1>7, <1>8

\* The driver.
LEMMA AtRest ==
    ASSUME BytesIInv, Complete
    PROVE  /\ bus \notin {"start", "read"} /\ ~reg.STA
           /\ bus = "write" => reg.STO
           /\ reg.STO => ~reg.SI
           /\ reg.SI => bus = "idle" /\ reg.STATUS = "BUS_ERROR"
<1> USE DEF BytesIInv
<1>1. /\ bus \notin {"start", "read"} /\ ~reg.STA
      /\ bus = "write" => reg.STO
      /\ reg.STO => ~reg.SI
  BY DEF StartStop, I2cTypeOK
<1>2. reg.SI => bus # "held" /\ bus # "write"
  BY <1>1 DEF Reported
<1>3. reg.SI => bus = "idle"
  BY <1>1, <1>2 DEF I2cTypeOK
<1> QED
  BY <1>1, <1>3 DEF Reported

LEMMA WriteBegins ==
    ASSUME BytesIInv, HkInv, leg = "call", at \in Transfers,
           NEW bytes \in Seq(Bytes), MSS_I2C_write(bytes),
           UNCHANGED <<hkVars, busVars>>,
           \/ Reading /\ leg' = "pointer" /\ bytes = <<Pointer>>
           \/ ~Reading /\ leg' = "data" /\ bytes = <<Pointer, ConfigMsb(os), Lsb>>
    PROVE  BytesIInv'
<1> USE DEF BytesIInv
<1>0. Complete /\ got = << >>
  BY DEF Legs
<1>1. /\ reg'.STA = TRUE
      /\ reg'.SI = reg.SI /\ reg'.STO = reg.STO /\ reg'.AA = reg.AA
      /\ reg'.STATUS = reg.STATUS /\ reg'.DATA = reg.DATA
      /\ i2c'.dir = "write" /\ i2c'.tx = bytes /\ i2c'.tx_idx = 0
      /\ i2c'.rx = i2c.rx /\ i2c'.rx_idx = i2c.rx_idx /\ i2c'.status = "IN_PROGRESS"
      /\ leg' \in {"pointer", "data"}
      /\ UNCHANGED <<at, os, got, bus, chip>>
  BY DEF MSS_I2C_write, hkVars, busVars, I2cTypeOK
<1>2. I2cTypeOK'
  <2>1. reg' \in [STA : BOOLEAN, STO : BOOLEAN, AA : BOOLEAN, SI : BOOLEAN,
                 STATUS : Statuses, DATA : Bytes]
    BY DEF MSS_I2C_write, I2cTypeOK
  <2>2. i2c' \in [dir : {"write", "read"}, tx : Seq(Bytes), tx_idx : Nat,
                 rx : Seq(Bytes), rx_idx : Nat,
                 status : {"SUCCESS", "FAILED", "IN_PROGRESS"}]
    BY DEF MSS_I2C_write, I2cTypeOK
  <2> QED
    BY <1>1, <2>1, <2>2 DEF I2cTypeOK
<1>3. Legs'
  <2>1. Pointer' = Pointer /\ Reading' = Reading /\ ConfigMsb(os)' = ConfigMsb(os)
    BY <1>1 DEF Pointer, Reading, ConfigMsb
  <2>2. ~Complete' /\ got' = << >>
    BY <1>0, <1>1 DEF Complete
  <2>3. CASE Reading /\ leg' = "pointer" /\ bytes = <<Pointer>>
    <3>1. i2c'.tx = <<Pointer>>'
      BY <1>1, <2>1, <2>3
    <3> HIDE DEF Pointer
    <3> QED
      BY <1>1, <2>1, <2>2, <2>3, <3>1 DEF Legs, Complete
  <2>4. CASE ~Reading /\ leg' = "data" /\ bytes = <<Pointer, ConfigMsb(os), Lsb>>
    <3>1. i2c'.tx = <<Pointer', ConfigMsb(os)', Lsb>>
      BY <1>1, <2>1, <2>4
    <3>2. (i2c.tx = <<Pointer, ConfigMsb(os), Lsb>>)'
      BY <3>1 DEF Lsb
    <3> HIDE DEF Pointer
    <3> QED
      BY <1>1, <2>1, <2>2, <2>4, <3>2 DEF Legs, Complete
  <2> QED
    BY <2>3, <2>4
<1>4. StartStop'
  BY <1>0, <1>1, AtRest DEF StartStop, Complete, I2cTypeOK
<1>5. Reported'
  BY <1>0, <1>1, AtRest DEF Reported, Complete, I2cTypeOK
<1>6. Writing'
  BY <1>0, <1>1, AtRest DEF Writing, I2cTypeOK
<1>7. Beginning'
  BY <1>0, <1>1, AtRest DEF Beginning, I2cTypeOK
<1>8. Receiving'
  BY <1>0, <1>1, AtRest DEF Receiving, AsGiven, I2cTypeOK
<1> QED
  BY <1>2, <1>3, <1>4, <1>5, <1>6, <1>7, <1>8

LEMMA BeginStep ==
    ASSUME BytesIInv, HkInv, Begin
    PROVE  BytesIInv'
<1>1. Pointer \in Bytes /\ Lsb \in Bytes
  BY DEF Pointer, Lsb, Bytes
<1>2. ConfigMsb(os) \in Bytes
  BY DEF HkInv, Shape, ConfigMsb, Bytes
<1>3. ASSUME NEW p \in Bytes, NEW msb \in Bytes, NEW lsb \in Bytes
      PROVE  <<p>> \in Seq(Bytes) /\ <<p, msb, lsb>> \in Seq(Bytes)
  OBVIOUS
<1>4. <<Pointer>> \in Seq(Bytes) /\ <<Pointer, ConfigMsb(os), Lsb>> \in Seq(Bytes)
  BY <1>1, <1>2, <1>3
<1>5. leg = "call" /\ at \in Transfers /\ UNCHANGED <<hkVars, busVars>>
  BY DEF Begin
<1>6. CASE Reading /\ leg' = "pointer" /\ MSS_I2C_write(<<Pointer>>)
  BY <1>4, <1>5, <1>6, WriteBegins
<1>7. CASE ~Reading /\ leg' = "data" /\ MSS_I2C_write(<<Pointer, ConfigMsb(os), Lsb>>)
  BY <1>4, <1>5, <1>7, WriteBegins
<1> QED
  BY <1>6, <1>7 DEF Begin

LEMMA PointerSetStep ==
    ASSUME BytesIInv, HkInv, PointerSet
    PROVE  BytesIInv'
<1> USE DEF BytesIInv
<1>0. /\ leg = "pointer" /\ Complete /\ i2c.status = "SUCCESS"
      /\ Reading /\ got = << >> /\ at \in Transfers /\ chip.pointer = Pointer.pointer
  BY DEF PointerSet, Legs
<1> DEFINE room == [n \in 1..2 |-> NoInit]
<1>a. room \in Seq(Bytes) /\ Len(room) = 2
  BY DEF NoInit, Bytes
<1>b. i2c' = [i2c EXCEPT !.dir = "read", !.rx = room, !.rx_idx = 0, !.status = "IN_PROGRESS"]
  BY DEF PointerSet, MSS_I2C_read
<1> HIDE DEF room
<1>1. /\ reg'.STA = TRUE
      /\ reg'.SI = reg.SI /\ reg'.STO = reg.STO /\ reg'.AA = reg.AA
      /\ reg'.STATUS = reg.STATUS /\ reg'.DATA = reg.DATA
      /\ i2c'.dir = "read" /\ i2c'.tx = i2c.tx /\ i2c'.tx_idx = i2c.tx_idx
      /\ i2c'.rx = room /\ i2c'.rx_idx = 0 /\ i2c'.status = "IN_PROGRESS"
      /\ leg' = "data"
      /\ UNCHANGED <<at, os, got, bus, chip>>
  BY <1>b DEF PointerSet, MSS_I2C_read, hkVars, busVars, I2cTypeOK
<1>2. I2cTypeOK'
  <2>1. reg' \in [STA : BOOLEAN, STO : BOOLEAN, AA : BOOLEAN, SI : BOOLEAN,
                 STATUS : Statuses, DATA : Bytes]
    BY DEF PointerSet, MSS_I2C_read, I2cTypeOK
  <2>2. i2c' \in [dir : {"write", "read"}, tx : Seq(Bytes), tx_idx : Nat,
                 rx : Seq(Bytes), rx_idx : Nat,
                 status : {"SUCCESS", "FAILED", "IN_PROGRESS"}]
    BY <1>a, <1>b DEF I2cTypeOK
  <2> QED
    BY <1>1, <2>1, <2>2 DEF I2cTypeOK
<1>3. Legs'
  BY <1>0, <1>1, <1>a DEF Legs, AsGiven, Reading, Complete, Pointer, I2cTypeOK
<1>4. StartStop'
  BY <1>0, <1>1, AtRest DEF StartStop, Complete, I2cTypeOK
<1>5. Reported'
  BY <1>0, <1>1, AtRest DEF Reported, Complete, I2cTypeOK
<1>6. Writing'
  BY <1>0, <1>1, AtRest DEF Writing, I2cTypeOK
<1>7. Beginning'
  BY <1>0, <1>1, AtRest DEF Beginning, I2cTypeOK
<1>8. Receiving'
  BY <1>0, <1>1, AtRest DEF Receiving, AsGiven, I2cTypeOK
<1> QED
  BY <1>2, <1>3, <1>4, <1>5, <1>6, <1>7, <1>8

\* The driver has the outcome, and goes on to its next call.
LEMMA CallStep ==
    ASSUME BytesIInv, Complete, leg' = "call", got' = << >>,
           UNCHANGED <<i2c, reg, bus, chip>>
    PROVE  BytesIInv'
<1> USE DEF BytesIInv
<1>2. I2cTypeOK'
  BY DEF I2cTypeOK
<1>3. Legs'
  BY DEF Legs, Complete
<1>4. StartStop'
  BY AtRest DEF StartStop, Complete, I2cTypeOK
<1>5. Reported'
  BY AtRest DEF Reported, Complete, I2cTypeOK
<1>6. Writing'
  BY AtRest DEF Writing, I2cTypeOK
<1>7. Beginning'
  BY AtRest DEF Beginning, I2cTypeOK
<1>8. Receiving'
  BY AtRest DEF Receiving, I2cTypeOK
<1> QED
  BY <1>2, <1>3, <1>4, <1>5, <1>6, <1>7, <1>8

\* The ADC has converted, or nothing happens.
LEMMA SilentStep ==
    ASSUME BytesIInv, UNCHANGED <<at, os, got, leg, i2c, reg, bus, chip>>
    PROVE  BytesIInv'
BY DEF BytesIInv, I2cTypeOK, Legs, AsGiven, Reading, Complete, Pointer, ConfigMsb, Lsb,
       StartStop, Reported, Writing, Beginning, Receiving
-----------------------------------------------------------------------------
(* Each step is one of the HK ADC's driver and its ADC, or one they do not see. *)

LEMMA ReturnStep ==
    ASSUME BytesIInv, Return, Succeeded \/ Failed
    PROVE  BytesIInv'
BY CallStep DEF Return, Succeeded, Failed, i2cVars, busVars

LEMMA AveragedStep ==
    ASSUME BytesIInv, Averaged
    PROVE  BytesIInv'
<1>1. leg = "call" /\ Complete /\ got = << >>
  BY DEF Averaged, Average, BytesIInv, Legs, Transfers
<1> QED
  BY <1>1, CallStep DEF Averaged, Average, i2cVars, busVars

LEMMA ProgramStep ==
    ASSUME BytesIInv, HkInv, Program
    PROVE  BytesIInv'
<1>1. CASE ConfigRead \/ ConfigWritten \/ Polled \/ ConversionRead
  BY <1>1, ReturnStep DEF ConfigRead, ConfigWritten, Polled, ConversionRead
<1> QED
  BY <1>1, BeginStep, PointerSetStep, AveragedStep DEF Program

LEMMA InterruptStep ==
    ASSUME BytesIInv, HkInv, HkTypes, I2C0_IRQHandler
    PROVE  BytesIInv'
<1>1. mss_i2c_isr /\ UNCHANGED <<hkVars, leg, busVars>>
  BY DEF I2C0_IRQHandler
<1>2. CASE ST_TX_ACK
  BY <1>1, <1>2, IsrAllSent, IsrNextByte
<1> QED
  BY <1>1, <1>2, IsrStart, IsrNack, IsrReadAcknowledged, IsrByteStored, IsrLastStored,
     IsrBusError DEF mss_i2c_isr

LEMMA BusStep ==
    ASSUME BytesIInv, HkInv, HkTypes, Bus
    PROVE  BytesIInv'
<1>1. CASE BusAddress
  <2>1. /\ ~reg.SI /\ bus = "start" /\ UNCHANGED got /\ Quiet
        /\ chip' = [chip EXCEPT !.n = 0]
        /\ \/ Report(Addressed) /\ bus' = i2c.dir
           \/ Report(NotAddressed) /\ bus' = "held"
    BY <1>1 DEF BusAddress
  <2> QED
    BY <2>1, AddressAcknowledged, AddressRefused
<1>2. CASE BusSend
  <2>1. /\ ~reg.SI /\ ~reg.STO /\ bus = "write" /\ Quiet
        /\ \/ Take /\ Report("TX_DATA_ACK") /\ bus' = bus
           \/ UNCHANGED <<chip, got>> /\ Report("TX_DATA_NACK") /\ bus' = "held"
           \/ Take /\ Report("BUS_ERROR") /\ bus' = "idle"
    BY <1>2 DEF BusSend
  <2> QED
    BY <2>1, SendTaken, SendRefused, SendTakenError
<1> QED
  BY <1>1, <1>2, BusStopStep, BusStartStep, BusErrorStep, FirstReceived, LastReceived
  DEF Bus

LEMMA StepBytes ==
    ASSUME BytesIInv, HkInv, HkTypes, [HkI2cNext]_hkI2cVars
    PROVE  BytesIInv'
<1>1. CASE Converted
  BY <1>1, SilentStep DEF Converted, Convert, i2cVars, busVars
<1>2. CASE UNCHANGED hkI2cVars
  BY <1>2, SilentStep DEF hkI2cVars, hkVars, i2cVars, busVars
<1> QED
  BY <1>1, <1>2, ProgramStep, InterruptStep, BusStep DEF HkI2cNext

\* A transfer that succeeded: the ADC did its part, and the driver read what it gave.
LEMMA Outcome ==
    ASSUME BytesIInv, Succeeded
    PROVE  /\ Fine
           /\ at \in {"read_config", "poll"} => i2c.rx[1].os = got[1]
           /\ at = "read_conversion" => i2c.rx[1] = got[1]
<1>1. leg = "data" /\ i2c.status = "SUCCESS"
  BY DEF Succeeded
<1>2. CASE Reading
  <2>1. AsGiven(i2c.rx[1])
    BY <1>1, <1>2 DEF BytesIInv, Legs
  <2>2. CASE at = "read_conversion"
    <3>1. got = <<i2c.rx[1]>>
      BY <2>1, <2>2 DEF AsGiven
    <3> QED
      BY <2>2, <3>1 DEF Fine
  <2>3. CASE at # "read_conversion"
    <3>1. got = <<i2c.rx[1].os>>
      BY <2>1, <2>3 DEF AsGiven
    <3> QED
      BY <2>3, <3>1 DEF Fine
  <2> QED
    BY <2>2, <2>3
<1>3. CASE ~Reading
  <2>1. at = "write_config" /\ got = <<os>>
    BY <1>1, <1>3 DEF BytesIInv, Legs, Reading
  <2> QED
    BY <2>1 DEF Fine
<1> QED
  BY <1>2, <1>3

LEMMA ProgramImplements ==
    ASSUME BytesIInv, Program
    PROVE  Driver \/ UNCHANGED hkVars
<1>1. CASE Begin \/ PointerSet
  BY <1>1 DEF Begin, PointerSet
<1>2. CASE ConfigRead
  BY <1>2, Outcome DEF ConfigRead, Return, ReadConfig, Returns, Driver
<1>3. CASE ConfigWritten
  BY <1>3, Outcome DEF ConfigWritten, Return, WriteConfig, Returns, Driver
<1>4. CASE Polled
  BY <1>4, Outcome DEF Polled, Return, Poll, Returns, Driver
<1>5. CASE ConversionRead
  BY <1>5, Outcome DEF ConversionRead, Return, ReadConversion, Returns, Driver
<1>6. CASE Averaged
  BY <1>6 DEF Averaged, Driver
<1> QED
  BY <1>1, <1>2, <1>3, <1>4, <1>5, <1>6 DEF Program

\* Of the bytes written, the ADC acts on the last: that is its part of the transfer.
LEMMA TakeImplements ==
    ASSUME BytesIInv, HkInv, ~reg.SI, ~reg.STO, bus = "write", Take, Quiet
    PROVE  Access \/ UNCHANGED hkVars
<1>1. UNCHANGED driverVars
  BY DEF Quiet
<1>2. CASE chip.n < 2
  <2>1. UNCHANGED <<got, adc>>
    BY <1>2, ByteTaken DEF Take
  <2> QED
    BY <1>1, <2>1 DEF driverVars, hkVars
<1>3. CASE chip.n = 2
  <2>1. leg = "data" /\ ~Reading /\ got' = <<os>> /\ got = << >> /\ chip.start = os
    BY <1>3, ByteTaken
  <2>2. adc' = Started
    BY <1>3, <2>1 DEF Take, Started
  <2>3. at = "write_config"
    BY <2>1 DEF Reading
  <2> QED
    BY <1>1, <2>1, <2>2, <2>3 DEF driverVars, Access
<1> QED
  BY <1>2, <1>3, ByteTaken

\* Of the bytes read, the first is the register's.
LEMMA ReceiveImplements ==
    ASSUME BytesIInv, HkInv, HkTypes, BusReceive
    PROVE  Access \/ UNCHANGED hkVars
<1>1. ~reg.SI /\ bus = "read" /\ UNCHANGED driverVars /\ UNCHANGED adc
      /\ got' = IF chip.n = 0 THEN Given ELSE got
  BY DEF BusReceive, Quiet
<1>2. CASE chip.n = 0
  <2>1. got = << >> /\ got' = Given
    BY <1>1, <1>2 DEF BytesIInv, Receiving
  <2>2. leg = "data" /\ Reading
    BY <1>1, ReadInProgress
  <2>3. at \in Transfers
    BY <2>2 DEF BytesIInv, Legs
  <2>4. at \in {"read_config", "poll", "read_conversion"}
    BY <2>2, <2>3 DEF Reading, Transfers
  <2> QED
    BY <1>1, <2>1, <2>4, FirstByteGiven DEF driverVars, Access
<1>3. CASE chip.n # 0
  BY <1>1, <1>3 DEF driverVars, hkVars
<1> QED
  BY <1>2, <1>3

LEMMA BusImplements ==
    ASSUME BytesIInv, HkInv, HkTypes, Bus
    PROVE  Access \/ UNCHANGED hkVars
<1>1. CASE BusStop \/ BusStart \/ BusAddress \/ BusError
  BY <1>1 DEF BusStop, BusStart, BusAddress, BusError, Quiet, driverVars, hkVars
<1>2. CASE BusSend
  <2>1. /\ ~reg.SI /\ ~reg.STO /\ bus = "write" /\ Quiet
        /\ Take \/ UNCHANGED <<got, adc>>
    BY <1>2 DEF BusSend
  <2>2. UNCHANGED <<got, adc>> => UNCHANGED hkVars
    BY <2>1 DEF Quiet, driverVars, hkVars
  <2> QED
    BY <2>1, <2>2, TakeImplements
<1> QED
  BY <1>1, <1>2, ReceiveImplements DEF Bus

LEMMA StepImplements ==
    ASSUME BytesIInv, HkInv, HkTypes, [HkI2cNext]_hkI2cVars
    PROVE  [HkNext]_hkVars
<1>1. CASE I2C0_IRQHandler \/ UNCHANGED hkI2cVars
  BY <1>1 DEF I2C0_IRQHandler, hkI2cVars
<1>2. CASE Converted
  BY <1>2 DEF Converted, HkNext
<1> QED
  BY <1>1, <1>2, ProgramImplements, BusImplements DEF HkI2cNext, HkNext
-----------------------------------------------------------------------------
ImplIInv == HkInv /\ HkTypes /\ BytesIInv

LEMMA ImplInvariance == HkI2cSpec => []ImplIInv
<1>1. HkI2cInit => ImplIInv
  BY InitHk, InitTypes, InitBytes DEF HkI2cInit, ImplIInv
<1>2. ImplIInv /\ [HkI2cNext]_hkI2cVars => ImplIInv'
  BY StepImplements, StepBytes, StepHk, TypesHk DEF ImplIInv
<1> QED
  BY <1>1, <1>2, PTL DEF HkI2cSpec

\* For any number of samples, rounds and errors on the bus: the driver's transfers,
\* done byte by byte over the I2C driver, are the transfers HkAdc has in one step
\* (hk_adc_reg_read, hk_adc_reg_write and mss_i2c_isr under them).
THEOREM TransfersAreAsTaken == HkI2cSpec => HkContract
<1>1. HkI2cInit => HkInit
  BY DEF HkI2cInit
<1>2. ImplIInv /\ [HkI2cNext]_hkI2cVars => [HkNext]_hkVars
  BY StepImplements DEF ImplIInv
<1> QED
  BY <1>1, <1>2, ImplInvariance, PTL DEF HkI2cSpec, HkContract, HkSpec

\* So what is returned without an error is genuine byte by byte, too: no error of
\* the bus, whenever it comes, makes the driver take an old conversion for a new one,
\* but for the samples the errors named in GoodSamplesGenuine spoil.
THEOREM SamplesAreGenuineByByte == HkI2cSpec => GoodSamplesGenuine
BY TransfersAreAsTaken, SamplesAreGenuine DEF HkContract
=============================================================================
