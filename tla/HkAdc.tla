------------------------------- MODULE HkAdc -------------------------------
(***************************************************************************)
(* The housekeeping ADC (hk_adc/hk_adc.c): for each of three channels the  *)
(* average of a number of samples, each converted on request.              *)
(*                                                                         *)
(* To take a sample the driver reads the CONFIG register, writes it back   *)
(* with the channel selected, polls it until the conversion is done, and   *)
(* reads the CONVERSION register.  The two bytes it writes back do not     *)
(* hold the start bit it adds - that is bit 15, added to a byte - but the  *)
(* one it read, which is set while the ADC is idle.                        *)
(*                                                                         *)
(* The ADC and the bus are not part of the repository.  Here a transfer    *)
(* has two ends: the moment the ADC does its part, and the return to the        *)
(* driver, which may be told of an error before or after that moment.      *)
(* HkI2c has the same driver do its transfers byte by byte.                *)
(***************************************************************************)
EXTENDS Integers, Sequences

CONSTANTS Samples,     \* samples per average: 8
          MaxRounds    \* bound: number of HK rounds

ASSUME SamplesAssumption == Samples \in Nat \ {0}
ASSUME RoundsAssumption == MaxRounds \in Nat \ {0}

VARIABLES
    at, round, channel, i,   \* where the driver is; sample i of the channel
    os,                      \* bit 15 of read_value: 1 when the ADC is idle
    array,                   \* volt_array, curr_array, citi_temp_array
    ret,                     \* what hk_adc_conv_read_xxx returned: an error?
    adc,                     \* what it is converting, and the CONVERSION register
    got,                     \* << >>, or <<what the ADC gave or took in this transfer>>
    doubt                    \* history: samples an earlier error may still spoil

hkVars == <<at, round, channel, i, os, array, ret, adc, got, doubt>>

Channels == <<"volt", "curr", "citi_temp">>
Transfers == {"read_config", "write_config", "poll", "read_conversion"}
Idle == [channel |-> "idle"]
Uninitialized == [channel |-> "uninitialized"]
NoSample == [channel |-> "none"]
ThisSample == [channel |-> Channels[channel], round |-> round, i |-> i]
OsBit == IF adc.converting = Idle THEN 1 ELSE 0
-----------------------------------------------------------------------------
(* Seeded faults. *)
PollAgain_Never == FALSE
-----------------------------------------------------------------------------
HkInit ==
    /\ at = "read_config" /\ round = 1 /\ channel = 1 /\ i = 1
    /\ os = 0
    /\ array = << >>
    /\ ret = FALSE
    /\ adc = [converting |-> Idle, conversion |-> NoSample]
    /\ got = << >>
    /\ doubt = 0
-----------------------------------------------------------------------------
(* The ADC. *)

\* It starts to convert if it is idle and the start bit is set.
Started == IF os = 1 /\ adc.converting = Idle
           THEN [adc EXCEPT !.converting = ThisSample] ELSE adc

Access ==
    /\ got = << >>
    /\ \/ at \in {"read_config", "poll"} /\ got' = <<OsBit>> /\ UNCHANGED adc
       \/ at = "write_config" /\ got' = <<os>> /\ adc' = Started
       \/ at = "read_conversion" /\ got' = <<adc.conversion>> /\ UNCHANGED adc
    /\ UNCHANGED <<at, round, channel, i, os, array, ret, doubt>>

Convert ==
    /\ adc.converting # Idle
    /\ adc' = [converting |-> Idle, conversion |-> adc.converting]
    /\ UNCHANGED <<at, round, channel, i, os, array, ret, got, doubt>>
-----------------------------------------------------------------------------
(* hk_adc_conv_read_volt, _curr and _citi_temp, as each transfer returns. *)

\* The averages add up whatever is in the array, an error or not.
LastSample == i = Samples

EndSample(error, value) ==
    /\ ret' = error
    /\ array' = Append(IF i = 1 THEN << >> ELSE array, value)
    /\ at' = IF LastSample THEN "average" ELSE "read_config"
    /\ i' = IF LastSample THEN i ELSE i + 1

Unsampled == UNCHANGED <<i, array, ret>>

Returns(transfer) ==
    /\ at = transfer
    /\ got' = << >>
    /\ UNCHANGED <<round, channel, adc>>

Fine == got # << >>

ReadConfig ==
    /\ Returns("read_config")
    /\ \/ Fine /\ os' = got[1] /\ at' = "write_config" /\ Unsampled
       \/ UNCHANGED os /\ EndSample(TRUE, Uninitialized)
    /\ UNCHANGED doubt

\* An error may be reported of a write that the ADC took.
WriteConfig ==
    /\ Returns("write_config")
    /\ \/ Fine /\ at' = "poll" /\ Unsampled /\ UNCHANGED doubt
       \/ EndSample(TRUE, Uninitialized) /\ doubt' = 1
    /\ UNCHANGED os

PollAgain == os' = 0

\* An error leaves read_value as it is, and is not noticed.
Poll ==
    /\ Returns("poll")
    /\ \/ Fine /\ os' = got[1] /\ UNCHANGED doubt
       \/ UNCHANGED os /\ doubt' = 2
    /\ at' = IF PollAgain THEN "poll" ELSE "read_conversion"
    /\ Unsampled

ReadConversion ==
    /\ Returns("read_conversion")
    /\ \/ Fine /\ EndSample(FALSE, got[1])
       \/ EndSample(TRUE, Uninitialized)
    /\ doubt' = IF doubt = 0 THEN 0 ELSE doubt - 1
    /\ UNCHANGED os

\* hk_adc_calc_avg_xxx returns, and the loop goes on to the next channel.
Average ==
    /\ at = "average"
    /\ \/ channel < Len(Channels) /\ channel' = channel + 1 /\ UNCHANGED round
       \/ channel = Len(Channels) /\ channel' = 1
          /\ round < MaxRounds /\ round' = round + 1
    /\ at' = "read_config"
    /\ i' = 1
    /\ UNCHANGED <<os, array, ret, adc, got, doubt>>
-----------------------------------------------------------------------------
Driver == ReadConfig \/ WriteConfig \/ Poll \/ ReadConversion \/ Average

HkNext == Access \/ Convert \/ Driver

HkSpec == HkInit /\ [][HkNext]_hkVars
-----------------------------------------------------------------------------
\* A sample that is returned without an error is of the channel it was asked
\* for, and was converted for this very call.  The exceptions: an error in a
\* poll spoils this sample and the next, and one in the write of CONFIG the
\* next; from the second sample after it on, the error is forgotten.
GoodSamplesGenuine ==
    [][\A n \in DOMAIN array' :
         (array' # array /\ n = i /\ ~ret' /\ doubt = 0)
            => array'[n] = ThisSample]_hkVars
=============================================================================
