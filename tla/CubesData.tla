----------------------------- MODULE CubesData -----------------------------
(***************************************************************************)
(* How main() prepares the data the OBC requests: the housekeeping (HK)    *)
(* read once a second, the HK latched into the histogram header at the end *)
(* of a DAQ, and the payload built from the histograms of a finished DAQ.  *)
(*                                                                         *)
(* Four parties share this state: the loop of main(), the one-second timer *)
(* interrupt, the I2C1 interrupt that serves the OBC from the same         *)
(* buffers, and the DAQ in the gateware.  The gateware is not part of the  *)
(* repository; it is modelled from the registers main() uses.              *)
(*                                                                         *)
(* The interrupts are not masked while the loop acts: what it does to this *)
(* state in several statements is several steps, between which a tick, the *)
(* OBC or the end of the DAQ may come.                                     *)
(*                                                                         *)
(* Commands reach the loop one at a time and in order (CubesMain, InOrder).*)
(***************************************************************************)
EXTENDS Integers, Sequences

CONSTANTS Durations,   \* DAQ durations the OBC configures, in seconds
          BinCfgs,     \* payload lengths it configures, in frames
          MaxDaqs,     \* bound: number of DAQs
          RdyAtBoot,   \* the gateware's DAQRDY bit before the first DAQ
          Patient      \* whether the OBC waits for payloads (see ObcWaits)

ASSUME DurationsAssumption == Durations \subseteq Nat
ASSUME BinCfgsAssumption ==
    /\ BinCfgs \subseteq Nat \ {0}
    /\ \E n \in BinCfgs : \A m \in BinCfgs : m <= n
ASSUME MaxDaqsAssumption == MaxDaqs \in Nat
ASSUME BooleansAssumption == RdyAtBoot \in BOOLEAN /\ Patient \in BOOLEAN

VARIABLES
    daq, left, run,     \* gateware: DAQ state, seconds left, number of the DAQ
    hdr,                \* gateware: the HK in the histogram header
    hk,                 \* the HK values main() read last: when it did
    hk_timer_trig, end_daq_hk_time, end_daq_hk_ready,
    daq_dur, bin_cfg,
    send_data_payload,  \* for each frame: the DAQ it holds data of, 0 for zeros
    hk_owed,            \* send_data_hk is older than the request it answers
    hk_current,         \* send_data_hk holds the HK read last
    has_send, command,  \* mailboxes of the loop
    at, idx,            \* where the loop is
    resp,               \* the OBC Request in progress
    passes,             \* history: passes of the loop begun since the last
                        \* request, up to 2
    spaced,             \* history: resp is for HK, requested a whole pass after
                        \* the request before
    early,              \* history: ticks after end_daq_hk_time was set and before
                        \* the DAQ was started
    lastDone            \* history: the last DAQ that finished

gateware == <<daq, left, run, hdr>>
hkState  == <<hk, hk_timer_trig, end_daq_hk_time, end_daq_hk_ready>>
config   == <<daq_dur, bin_cfg>>
buffers  == <<send_data_payload, hk_owed, hk_current>>
loop     == <<at, idx>>
pace     == <<passes, spaced>>
history  == <<pace, early, lastDone>>
dataVars == <<gateware, hkState, config, buffers, has_send, command, loop,
              resp, history>>

None == "none"
Frames == 0..(CHOOSE n \in BinCfgs : \A m \in BinCfgs : m <= n) - 1
Zeros == [i \in Frames |-> 0]
Reading(n, s) == [run |-> n, left |-> s]
Running == daq = "running"
citiroc_daq_is_rdy == daq \in {"done", "stopped"} \/ (daq = "never" /\ RdyAtBoot)
NoResponse == [op |-> None, len |-> 0, got |-> << >>]
UInt8(n) == n % 256
-----------------------------------------------------------------------------
(* Seeded faults. *)

EndOfDaq_AnyTime == ~citiroc_daq_is_rdy /\ ~end_daq_hk_ready

HkTime_Whole(dur) == dur

PrepLen_OneShort(len) == len - 1

HkFilled_Missing == UNCHANGED <<hk_current, hk_owed>>
-----------------------------------------------------------------------------
DataInit ==
    /\ daq = "never" /\ left = 0 /\ run = 0
    /\ hdr = Reading(0, 0)
    /\ hk = Reading(0, 0)
    /\ hk_timer_trig = FALSE
    /\ end_daq_hk_time = 0
    /\ end_daq_hk_ready = FALSE
    /\ daq_dur = 0
    /\ bin_cfg \in BinCfgs
    /\ send_data_payload = Zeros
    /\ hk_owed = FALSE
    /\ hk_current = FALSE
    /\ has_send = None
    /\ command = None
    /\ at = "hk" /\ idx = 0
    /\ resp = NoResponse
    /\ passes = 2 /\ spaced = FALSE
    /\ early = 0
    /\ lastDone = 0
-----------------------------------------------------------------------------
(* The timer interrupt, and the DAQ that runs on the same seconds.  The loop   *)
(* is done with one HK round before the next second; a DAQ of n seconds sees   *)
(* n ticks.                                                                    *)
Countdown(n) == IF n > 0 THEN n - 1 ELSE 0

Timer1_IRQHandler ==
    /\ ~hk_timer_trig
    /\ Running => left > 0
    /\ end_daq_hk_time' = Countdown(end_daq_hk_time)
    /\ hk_timer_trig' = TRUE
    /\ left' = IF Running THEN left - 1 ELSE left
    /\ early' = IF at = "start" THEN 1 ELSE early
    /\ UNCHANGED <<daq, run, hdr, hk, end_daq_hk_ready, config, buffers,
                   has_send, command, loop, resp, pace, lastDone>>

DaqFinishes ==
    /\ Running /\ left = 0
    /\ daq' = "done"
    /\ lastDone' = run
    /\ UNCHANGED <<left, run, hdr, hkState, config, buffers, has_send, command,
                   loop, resp, pace, early>>
-----------------------------------------------------------------------------
(* The loop: the HK round. *)

StartHk ==
    /\ at = "hk"
    /\ at' = IF hk_timer_trig THEN "read" ELSE "rdy"
    /\ UNCHANGED <<gateware, hkState, config, buffers, has_send, command, idx,
                   resp, history>>

ReadHk ==
    /\ at = "read"
    /\ at' = "endhk"
    /\ hk' = Reading(run, IF Running THEN left ELSE 0)
    /\ hk_current' = FALSE
    /\ UNCHANGED <<gateware, hk_timer_trig, end_daq_hk_time, end_daq_hk_ready,
                   config, send_data_payload, hk_owed, has_send, command, idx,
                   resp, history>>

EndOfDaq == ~citiroc_daq_is_rdy /\ ~end_daq_hk_ready /\ end_daq_hk_time = 0

EndOfDaqHk ==
    /\ at = "endhk"
    /\ at' = "untrig"
    /\ hdr' = IF EndOfDaq THEN hk ELSE hdr
    /\ end_daq_hk_ready' = (EndOfDaq \/ end_daq_hk_ready)
    /\ UNCHANGED <<daq, left, run, hk, hk_timer_trig, end_daq_hk_time, config,
                   buffers, has_send, command, idx, resp, history>>

EndHk ==
    /\ at = "untrig"
    /\ at' = "rdy"
    /\ hk_timer_trig' = FALSE
    /\ UNCHANGED <<gateware, hk, end_daq_hk_time, end_daq_hk_ready, config,
                   buffers, has_send, command, idx, resp, history>>
-----------------------------------------------------------------------------
(* The loop: the payload of a DAQ that finished. *)

PrepDue == citiroc_daq_is_rdy /\ end_daq_hk_ready

StartPrep ==
    /\ at = "rdy"
    /\ at' = IF PrepDue THEN "prep" ELSE "cmd"
    /\ idx' = 0
    /\ UNCHANGED <<gateware, hkState, config, buffers, has_send, command, resp,
                   history>>

PrepLen(len) == len

prep_payload_data ==
    /\ at = "prep"
    /\ idx < PrepLen(bin_cfg)
    /\ send_data_payload' = [send_data_payload EXCEPT ![idx] = run]
    /\ idx' = idx + 1
    /\ UNCHANGED <<gateware, hkState, config, hk_owed, hk_current, has_send,
                   command, at, resp, history>>

EndPrep ==
    /\ at = "prep"
    /\ idx = PrepLen(bin_cfg)
    /\ at' = "cmd"
    /\ end_daq_hk_ready' = FALSE
    /\ UNCHANGED <<gateware, hk, hk_timer_trig, end_daq_hk_time, config, buffers,
                   has_send, command, idx, resp, history>>
-----------------------------------------------------------------------------
(* The end of a pass of the loop: back to its head. *)

NextPass ==
    /\ at' = "hk"
    /\ passes' = IF passes < 2 THEN passes + 1 ELSE 2
    /\ UNCHANGED <<spaced, early>>
-----------------------------------------------------------------------------
(* The loop: the request in has_send.  From the first byte written to          *)
(* send_data_hk to the last it holds HK of two rounds, unless the HK in it was *)
(* the last read.  A request that comes before has_send is cleared is lost.    *)

TakeRequest ==
    /\ at = "cmd" /\ has_send # None
    /\ at' = IF has_send = "REQ_HK" THEN "fill" ELSE "clear"
    /\ hk_owed' = (hk_owed \/ (has_send = "REQ_HK" /\ ~hk_current))
    /\ UNCHANGED <<gateware, hkState, config, send_data_payload, hk_current,
                   has_send, command, idx, resp, history>>

HkFilled ==
    /\ hk_current' = TRUE
    /\ hk_owed' = FALSE

FillHk ==
    /\ at = "fill"
    /\ at' = "clear"
    /\ HkFilled
    /\ UNCHANGED <<gateware, hkState, config, send_data_payload, has_send, command,
                   idx, resp, history>>

ClearRequest ==
    /\ at = "clear"
    /\ has_send' = None
    /\ NextPass
    /\ UNCHANGED <<gateware, hkState, config, buffers, command, idx, resp, lastDone>>
-----------------------------------------------------------------------------
(* The loop: the commands. *)

\* end_daq_hk_time = daq_dur - 1, an uint8_t.
HkTime(dur) == UInt8(dur + 255)

PrepDaq ==
    /\ at = "cmd" /\ has_send = None
    /\ command = "DAQ_START"
    /\ at' = "start"
    /\ hdr' = hk
    /\ end_daq_hk_time' = HkTime(daq_dur)
    /\ early' = 0
    /\ UNCHANGED <<daq, left, run, hk, hk_timer_trig, end_daq_hk_ready, config,
                   buffers, has_send, command, idx, resp, pace, lastDone>>

citiroc_daq_start ==
    /\ at = "start"
    /\ daq' = "running"
    /\ left' = daq_dur
    /\ run' = run + 1
    /\ command' = None
    /\ NextPass
    /\ UNCHANGED <<hdr, hkState, config, buffers, has_send, idx, resp, lastDone>>

EndDaq ==
    /\ at = "cmd" /\ has_send = None
    /\ command = "DAQ_STOP" \/ (command = "SLEEP" /\ ~citiroc_daq_is_rdy)
    /\ at' = "stop"
    /\ hdr' = hk
    /\ end_daq_hk_ready' = TRUE
    /\ UNCHANGED <<daq, left, run, hk, hk_timer_trig, end_daq_hk_time, config,
                   buffers, has_send, command, idx, resp, history>>

citiroc_daq_stop ==
    /\ at = "stop"
    /\ daq' = IF Running THEN "stopped" ELSE daq
    /\ lastDone' = IF Running THEN run ELSE lastDone
    /\ command' = None
    /\ NextPass
    /\ UNCHANGED <<left, run, hdr, hkState, config, buffers, has_send, idx, resp>>

DaqConf ==
    /\ command = "DAQ_CONF"
    /\ daq_dur' \in Durations
    /\ bin_cfg' \in BinCfgs

\* What changes neither the DAQ nor its HK: also no command at all.
ActOnCommand ==
    /\ at = "cmd" /\ has_send = None
    /\ \/ DaqConf
       \/ (command = "SLEEP" /\ citiroc_daq_is_rdy) /\ UNCHANGED config
       \/ command = None /\ UNCHANGED config
    /\ command' = None
    /\ NextPass
    /\ UNCHANGED <<gateware, hkState, buffers, has_send, idx, resp, lastDone>>

Loop == \/ StartHk \/ ReadHk \/ EndOfDaqHk \/ EndHk
        \/ StartPrep \/ prep_payload_data \/ EndPrep
        \/ TakeRequest \/ FillHk \/ ClearRequest
        \/ PrepDaq \/ citiroc_daq_start \/ EndDaq \/ citiroc_daq_stop
        \/ ActOnCommand
-----------------------------------------------------------------------------
(* The OBC and the I2C1 interrupt. *)

Unread == \E i \in Frames : send_data_payload[i] # 0

\* What a patient OBC waits for before it sends op: the payload of the last DAQ
\* is prepared before it is requested or another DAQ is started, and read before
\* another DAQ is configured; while a DAQ runs none of these is sent.
ObcWaits(op) ==
    Patient =>
        /\ op \in {"DAQ_START", "DAQ_CONF", "REQ_PAYLOAD"} => ~PrepDue /\ at # "prep"
        /\ op \in {"DAQ_START", "DAQ_CONF", "REQ_PAYLOAD"} => ~Running
        /\ op = "DAQ_CONF" => ~Unread
        /\ op = "REQ_PAYLOAD" => command = None

SendCommand(op) ==
    /\ resp = NoResponse
    /\ command = None
    /\ ObcWaits(op)
    /\ op = "DAQ_START" => run < MaxDaqs /\ daq_dur \in Durations
    /\ command' = op
    /\ UNCHANGED <<gateware, hkState, config, buffers, has_send, loop, resp, history>>

\* Nothing of the payload is offered while a DAQ runs.
AnnouncedLen(op) == CASE op = "REQ_HK" -> 1
                      [] op = "REQ_PAYLOAD" /\ citiroc_daq_is_rdy -> bin_cfg
                      [] OTHER -> 0

\* A new request replaces one that the loop has not served.
msp_expsend_start(op) ==
    /\ resp = NoResponse
    /\ ObcWaits(op)
    /\ resp' = [op |-> op, len |-> AnnouncedLen(op), got |-> << >>]
    /\ has_send' = op
    /\ hk_owed' = (IF op = "REQ_HK" THEN ~hk_current ELSE hk_owed)
    /\ spaced' = (op = "REQ_HK" /\ passes = 2)
    /\ passes' = 0
    /\ UNCHANGED <<gateware, hkState, config, send_data_payload, hk_current,
                   command, loop, early, lastDone>>

\* What the buffer holds is sent, whether or not the loop has filled it.
msp_expsend_data ==
    /\ Len(resp.got) < resp.len
    /\ resp' = [resp EXCEPT !.got = Append(@,
                    IF resp.op = "REQ_HK" THEN 0 ELSE send_data_payload[Len(@)])]
    /\ UNCHANGED <<gateware, hkState, config, buffers, has_send, command, loop,
                   history>>

msp_expsend_complete ==
    /\ resp # NoResponse
    /\ resp' = NoResponse
    /\ send_data_payload' = IF resp.op = "REQ_PAYLOAD" THEN Zeros ELSE send_data_payload
    /\ spaced' = FALSE
    /\ UNCHANGED <<gateware, hkState, config, hk_owed, hk_current, has_send,
                   command, loop, passes, early, lastDone>>

msp_expsend_error ==
    /\ resp # NoResponse
    /\ resp' = NoResponse
    /\ spaced' = FALSE
    /\ UNCHANGED <<gateware, hkState, config, buffers, has_send, command, loop,
                   passes, early, lastDone>>

I2C1_SlaveWriteHandler ==
    \/ \E op \in {"DAQ_START", "DAQ_STOP", "DAQ_CONF", "SLEEP"} : SendCommand(op)
    \/ \E op \in {"REQ_HK", "REQ_PAYLOAD"} : msp_expsend_start(op)
    \/ msp_expsend_data \/ msp_expsend_complete \/ msp_expsend_error
-----------------------------------------------------------------------------
DataNext == Timer1_IRQHandler \/ DaqFinishes \/ Loop \/ I2C1_SlaveWriteHandler

\* The loop, the timer and the DAQ keep going; the OBC does what it likes.
DataSpec ==
    /\ DataInit
    /\ [][DataNext]_dataVars
    /\ WF_dataVars(Loop)
    /\ WF_dataVars(Timer1_IRQHandler)
    /\ WF_dataVars(DaqFinishes)
-----------------------------------------------------------------------------
GotFrom(runs) == resp.op = "REQ_PAYLOAD" =>
    \A i \in DOMAIN resp.got : resp.got[i] \in runs

\* A response to REQ_PAYLOAD is the whole of the last DAQ, or all zeros when it
\* was read before: never a part, and never frames of two DAQs.
WholePayload == GotFrom({0}) \/ GotFrom({lastDone})

\* main.c: the HK is read ahead "so that the HK data is ready for the OBC when
\* it asks for it".  It is once the loop has made a whole pass between a request
\* and the first data frame, and between that request and the one before it: the
\* HK handed over then is one round's, and no older than the request.
HkReadyWhenAsked ==
    [][(msp_expsend_data /\ spaced /\ passes = 2) => ~hk_owed]_dataVars

\* main.c: "Prep end-of-DAQ HK for histogram header (only once per DAQ)".  The
\* header of a DAQ that ran to its end holds HK read in its last second, or
\* after it when a DAQ_STOP came too late; in the second before if a tick came
\* when end_daq_hk_time was set and the DAQ was not yet started.
EndOfDaqHkInHeader ==
    [][(StartPrep /\ at' = "prep" /\ daq = "done")
         => hdr.run = run /\ hdr.left <= 1 + early]_dataVars

\* README.md: "REQ_PAYLOAD data is prepared once the DAQ has finished".
PayloadPrepared ==
    \A n \in 1..MaxDaqs :
        (Running /\ run = n) ~> send_data_payload[0] = n
=============================================================================
