-------------------------- MODULE CubesData_proofs --------------------------
(***************************************************************************)
(* What the OBC reads: HK that is as new as it asked for, the whole of one *)
(* DAQ, and with it HK of the last second of that DAQ; for any number of   *)
(* DAQs, any payload lengths and any durations of two seconds or more.     *)
(*                                                                         *)
(* The argument follows one DAQ.  In its last second an HK round reads HK  *)
(* and latches it, since the next tick of the timer waits for that round   *)
(* to end; so the DAQ ends with its HK in the header, and its payload is   *)
(* due.  A tick between the setting of end_daq_hk_time and the start of    *)
(* the DAQ brings this forward by a second, and by no more, since that     *)
(* tick is not overtaken by a second one.  A patient OBC leaves the loop   *)
(* alone until the payload is prepared: nothing is requested, started or   *)
(* configured in between, and from a request to its end the buffer stays   *)
(* as it is.                                                               *)
(*                                                                         *)
(* The HK needs no patience, but time: a pass of the loop serves the       *)
(* mailbox, so after a whole pass it is empty, and only a request made     *)
(* before that can come while the loop fills the buffer or is about to     *)
(* clear the mailbox.                                                      *)
(*                                                                         *)
(* And the bins of the payload (Rebin): with any binning they cover the    *)
(* histogram without gap or overlap, since each is read where the one      *)
(* before it ended, and a limit is odd only between two single bins.  A    *)
(* bin of equal size is the average of what it covers, since the sum of    *)
(* 16-bit bins divided by their number has 16 bits; and the bytes written  *)
(* are the sum of what the histograms contribute, which is what the header *)
(* announces.                                                              *)
(***************************************************************************)
EXTENDS CubesData, Rebin, FiniteSetTheorems, TLAPS

\* The OBC waits for the payload, and no DAQ ran before the first.
ObcIsPatient == Patient = TRUE
ReadyAtBoot == RdyAtBoot = TRUE

\* daq_dur is a byte, and a DAQ has a second after the one it is started in.
SecondsToSpare == Durations \subseteq 2..255

Requests == {"REQ_HK", "REQ_PAYLOAD"}
Commands == {"DAQ_START", "DAQ_STOP", "DAQ_CONF", "SLEEP"}
Readings == [run : Nat, left : Nat]

DataTypeOK ==
    /\ daq \in {"never", "running", "done", "stopped"}
    /\ left \in Nat /\ run \in Nat /\ lastDone \in Nat
    /\ hdr \in Readings /\ hk \in Readings
    /\ hk_timer_trig \in BOOLEAN /\ end_daq_hk_ready \in BOOLEAN
    /\ end_daq_hk_time \in Nat /\ daq_dur \in Nat /\ bin_cfg \in BinCfgs
    /\ send_data_payload \in [Frames -> Nat]
    /\ at \in {"hk", "read", "endhk", "untrig", "rdy", "prep", "cmd",
              "fill", "clear", "start", "stop"}
    /\ early \in 0..1
    /\ idx \in Nat
    /\ has_send \in {None} \cup Requests
    /\ command \in {None} \cup Commands
    /\ resp \in [op : {None} \cup Requests, len : Nat, got : Seq(Nat)]
    /\ resp.op = None => resp.len = 0 /\ resp.got = << >>

\* HK of the DAQ's last second, or read after it; of the second before, when a tick
\* came ahead of the DAQ.
OfLastSecond(reading) == reading.run = run /\ reading.left <= 1 + early

\* What end_daq_hk_time is when n seconds are left.
HkTimeLeft(n) == IF n > 1 + early THEN n - 1 - early ELSE 0

\* The HK round, which the timer does not overtake.
Round ==
    /\ at \in {"read", "endhk", "untrig"} => hk_timer_trig
    /\ (at = "endhk" /\ Running) => hk.run = run /\ hk.left = left
    /\ (at = "start" /\ early = 1) => hk_timer_trig

\* Between the two steps of starting and of stopping a DAQ.
Halfway ==
    /\ at = "start" => command = "DAQ_START" /\ end_daq_hk_time = HkTime(daq_dur) - early
    /\ at = "stop" => command \in {"DAQ_STOP", "SLEEP"} /\ end_daq_hk_ready /\ hdr = hk

\* What has been read and latched as the seconds of a DAQ run out.
Latched ==
    /\ Running => end_daq_hk_time = HkTimeLeft(left)
    /\ (Running /\ end_daq_hk_ready /\ at # "stop") => OfLastSecond(hdr)
    /\ (Running /\ left <= 1 + early /\ (~hk_timer_trig \/ at \in {"endhk", "untrig"}))
         => OfLastSecond(hk)
    /\ (Running /\ left <= 1 + early /\ (~hk_timer_trig \/ at = "untrig"))
         => end_daq_hk_ready
    /\ (Running /\ left <= early) => end_daq_hk_ready /\ OfLastSecond(hk)
    /\ (daq = "done" /\ at # "start") => OfLastSecond(hk)
    /\ (daq = "done" /\ end_daq_hk_ready) => OfLastSecond(hdr)
    /\ ~Running => lastDone = run

\* No DAQ runs, and no payload is due.
Settled == ~Running /\ ~end_daq_hk_ready /\ at # "prep"

\* What a patient OBC has waited for before its command.
Waited ==
    /\ command = "DAQ_START" => daq_dur \in Durations
    /\ command \in {"DAQ_START", "DAQ_CONF"} => Settled
    /\ command = "DAQ_CONF" => ~Unread

\* The buffer holds nothing, or a DAQ in its first bin_cfg frames.
Buffer ==
    /\ \A f \in Frames : f >= bin_cfg => send_data_payload[f] = 0
    /\ Settled => \/ ~Unread
                  \/ \A f \in Frames : f < bin_cfg => send_data_payload[f] = run
    /\ at = "prep" =>
         /\ ~Running /\ end_daq_hk_ready
         /\ idx <= bin_cfg
         /\ \A f \in Frames : f < idx => send_data_payload[f] = run

\* What was read of the buffer is what it holds, until the end of the response.
Reads ==
    resp.op = "REQ_PAYLOAD" =>
    /\ Settled /\ command = None
    /\ resp.len <= bin_cfg /\ Len(resp.got) <= resp.len
    /\ \A n \in 1..Len(resp.got) : resp.got[n] = send_data_payload[n - 1]

DataIInv == DataTypeOK /\ Round /\ Halfway /\ Latched /\ Waited /\ Buffer /\ Reads
-----------------------------------------------------------------------------
USE DurationsAssumption, BinCfgsAssumption
USE DEF None, Readings, Requests, Commands, Running

\* The frames that any payload needs are there.
LEMMA FramesCover ==
    /\ Frames \subseteq Nat
    /\ \A n \in BinCfgs : n \in Nat /\ \A f \in Nat : f < n => f \in Frames
<1> DEFINE largest == CHOOSE n \in BinCfgs : \A m \in BinCfgs : m <= n
<1>1. largest \in BinCfgs /\ \A m \in BinCfgs : m <= largest
  OBVIOUS
<1>2. Frames = 0 .. largest - 1
  BY DEF Frames
<1> HIDE DEF largest
<1> QED
  BY <1>1, <1>2

LEMMA DataInitIInv == DataInit => DataIInv
<1> SUFFICES ASSUME DataInit PROVE DataIInv
  OBVIOUS
<1>1. DataTypeOK
  <2>1. send_data_payload \in [Frames -> Nat] /\ bin_cfg \in BinCfgs /\ bin_cfg \in Nat
    BY FramesCover DEF DataInit, Zeros
  <2>2. hdr \in Readings /\ hk \in Readings
    BY DEF DataInit, Reading
  <2>3. resp \in [op : {None} \cup Requests, len : Nat, got : Seq(Nat)]
        /\ resp.len = 0 /\ resp.got = << >>
    BY DEF DataInit, NoResponse
  <2>4. at = "hk" /\ early = 0 /\ has_send = None /\ command = None /\ idx = 0
    BY DEF DataInit
  <2>5. /\ daq = "never" /\ left = 0 /\ run = 0 /\ lastDone = 0 /\ daq_dur = 0
        /\ end_daq_hk_time = 0 /\ hk_timer_trig \in BOOLEAN /\ end_daq_hk_ready \in BOOLEAN
    BY DEF DataInit
  <2> QED
    BY <2>1, <2>2, <2>3, <2>4, <2>5 DEF DataTypeOK
<1>2. Round /\ Halfway /\ Latched /\ Waited /\ Reads
  BY DEF DataInit, Round, Halfway, Latched, Waited, Reads, NoResponse
<1>3. Buffer
  BY DEF DataInit, Buffer, Zeros, Unread
<1> QED
  BY <1>1, <1>2, <1>3 DEF DataIInv

\* The steps of the interrupts, the DAQ and the loop, one by one.
DataStep ==
    \/ Timer1_IRQHandler
    \/ DaqFinishes
    \/ StartHk
    \/ ReadHk
    \/ EndOfDaqHk
    \/ EndHk
    \/ StartPrep
    \/ prep_payload_data
    \/ EndPrep
    \/ TakeRequest
    \/ FillHk
    \/ ClearRequest
    \/ PrepDaq
    \/ citiroc_daq_start
    \/ EndDaq
    \/ citiroc_daq_stop
    \/ ActOnCommand
    \/ \E op \in Commands : SendCommand(op)
    \/ \E op \in Requests : msp_expsend_start(op)
    \/ msp_expsend_data
    \/ msp_expsend_complete
    \/ msp_expsend_error
    \/ UNCHANGED dataVars

LEMMA DataSteps == [DataNext]_dataVars => DataStep
BY DEF DataNext, DataStep, Loop, I2C1_SlaveWriteHandler

LEMMA TypeStep == DataTypeOK /\ Reads /\ [DataNext]_dataVars => DataTypeOK'
<1> SUFFICES ASSUME DataTypeOK, Reads, DataStep PROVE DataTypeOK'
  BY DataSteps
<1> USE DEF DataTypeOK, gateware, hkState, config, buffers, loop, pace, history, NextPass
<1>1. CASE Timer1_IRQHandler
  BY <1>1 DEF Timer1_IRQHandler, Countdown
<1>2. CASE DaqFinishes
  BY <1>2 DEF DaqFinishes
<1>3. CASE StartHk
  BY <1>3 DEF StartHk
<1>4. CASE ReadHk
  BY <1>4 DEF ReadHk, Reading
<1>5. CASE EndOfDaqHk
  BY <1>5 DEF EndOfDaqHk, EndOfDaq
<1>6. CASE EndHk
  BY <1>6 DEF EndHk
<1>7. CASE StartPrep
  BY <1>7 DEF StartPrep
<1>8. CASE prep_payload_data
  <2>1. send_data_payload' \in [Frames -> Nat]
    BY <1>8 DEF prep_payload_data
  <2> QED
    BY <1>8, <2>1 DEF prep_payload_data
<1>9. CASE EndPrep
  BY <1>9 DEF EndPrep
<1>10. CASE TakeRequest
  BY <1>10 DEF TakeRequest
<1>11. CASE FillHk
  BY <1>11 DEF FillHk
<1>12. CASE ClearRequest
  BY <1>12 DEF ClearRequest
<1>13. CASE PrepDaq
  <2>1. daq_dur + 255 \in Nat /\ HkTime(daq_dur) \in Nat
    BY DEF HkTime, UInt8
  <2> QED
    BY <1>13, <2>1 DEF PrepDaq
<1>14. CASE citiroc_daq_start
  BY <1>14 DEF citiroc_daq_start
<1>15. CASE EndDaq \/ citiroc_daq_stop
  BY <1>15 DEF EndDaq, citiroc_daq_stop
<1>16. CASE ActOnCommand
  BY <1>16 DEF ActOnCommand, DaqConf
<1>17. CASE \E op \in Commands : SendCommand(op)
  BY <1>17 DEF SendCommand
<1>18. CASE \E op \in Requests : msp_expsend_start(op)
  BY <1>18 DEF msp_expsend_start, AnnouncedLen
<1>19. CASE msp_expsend_data
  <2> DEFINE entry == IF resp.op = "REQ_HK" THEN 0 ELSE send_data_payload[Len(resp.got)]
  <2>1. Len(resp.got) \in Nat /\ Len(resp.got) < resp.len
    BY <1>19 DEF msp_expsend_data
  <2>2. entry \in Nat
    <3>1. CASE resp.op = "REQ_PAYLOAD"
      <4>1. Len(resp.got) < bin_cfg
        BY <2>1, <3>1, FramesCover DEF Reads
      <4> QED
        BY <2>1, <3>1, <4>1, FramesCover
    <3>2. CASE resp.op = "REQ_HK"
      BY <3>2
    <3>3. CASE resp.op = None
      BY <2>1, <3>3
    <3> QED
      BY <3>1, <3>2, <3>3
  <2>3. resp' = [resp EXCEPT !.got = Append(@, entry)]
    BY <1>19 DEF msp_expsend_data
  <2> HIDE DEF entry
  <2>4. resp'.got \in Seq(Nat) /\ resp'.op = resp.op /\ resp'.len = resp.len
    BY <2>2, <2>3
  <2>5. resp.op # None
    BY <2>1
  <2>6. resp' \in [op : {None} \cup Requests, len : Nat, got : Seq(Nat)]
    <3> DEFINE got == Append(resp.got, entry)
    <3>1. got \in Seq(Nat)
      BY <2>2
    <3>2. resp' = [resp EXCEPT !.got = got]
      BY <2>3
    <3> HIDE DEF got
    <3>3. resp \in [op : {None} \cup Requests, len : Nat, got : Seq(Nat)]
      OBVIOUS
    <3> QED
      BY ONLY <3>1, <3>2, <3>3
  <2> HIDE <2>3
  <2> QED
    BY <1>19, <2>4, <2>5, <2>6 DEF msp_expsend_data
<1>20. CASE msp_expsend_complete
  BY <1>20 DEF msp_expsend_complete, NoResponse, Zeros
<1>21. CASE msp_expsend_error
  BY <1>21 DEF msp_expsend_error, NoResponse
<1>22. CASE UNCHANGED dataVars
  BY <1>22 DEF dataVars
<1> QED
  BY <1>1, <1>2, <1>3, <1>4, <1>5, <1>6, <1>7, <1>8, <1>9, <1>10, <1>11, <1>12, <1>13,
     <1>14, <1>15, <1>16, <1>17, <1>18, <1>19, <1>20, <1>21, <1>22 DEF DataStep

\* The round, and with it the timer.
LEMMA RoundStep == DataTypeOK /\ Round /\ [DataNext]_dataVars => Round'
<1> SUFFICES ASSUME DataTypeOK, Round, DataStep PROVE Round'
  BY DataSteps
<1> USE DEF DataTypeOK, Round, gateware, hkState, config, buffers, loop, pace, history,
            NextPass
<1>1. CASE Timer1_IRQHandler
  BY <1>1 DEF Timer1_IRQHandler
<1>2. CASE DaqFinishes
  BY <1>2 DEF DaqFinishes
<1>3. CASE StartHk \/ EndOfDaqHk \/ EndHk
  BY <1>3 DEF StartHk, EndOfDaqHk, EndHk
<1>4. CASE ReadHk
  BY <1>4 DEF ReadHk, Reading
<1>5. CASE StartPrep \/ prep_payload_data \/ EndPrep
  BY <1>5 DEF StartPrep, prep_payload_data, EndPrep
<1>6. CASE TakeRequest \/ FillHk \/ ClearRequest \/ ActOnCommand
  BY <1>6 DEF TakeRequest, FillHk, ClearRequest, ActOnCommand
<1>7. CASE PrepDaq
  BY <1>7 DEF PrepDaq
<1>8. CASE citiroc_daq_start \/ EndDaq \/ citiroc_daq_stop
  <2>1. at' \in {"hk", "stop"}
    BY <1>8 DEF citiroc_daq_start, EndDaq, citiroc_daq_stop
  <2> QED
    BY <2>1
<1>9. CASE \/ \E op \in Commands : SendCommand(op)
           \/ \E op \in Requests : msp_expsend_start(op)
           \/ msp_expsend_data \/ msp_expsend_complete \/ msp_expsend_error
           \/ UNCHANGED dataVars
  BY <1>9 DEF SendCommand, msp_expsend_start, msp_expsend_data,
              msp_expsend_complete, msp_expsend_error, dataVars
<1> QED
  BY <1>1, <1>2, <1>3, <1>4, <1>5, <1>6, <1>7, <1>8, <1>9 DEF DataStep

\* A DAQ is ready unless one runs.
LEMMA Ready == ReadyAtBoot /\ DataTypeOK => (citiroc_daq_is_rdy <=> ~Running)
BY DEF ReadyAtBoot, DataTypeOK, citiroc_daq_is_rdy

\* A response to the OBC changes nothing of the DAQ and the loop.
Elsewhere ==
    \/ \E op \in Requests : msp_expsend_start(op)
    \/ msp_expsend_data
    \/ msp_expsend_complete
    \/ msp_expsend_error
    \/ UNCHANGED dataVars

LEMMA ElsewhereKeeps ==
    Elsewhere => UNCHANGED <<daq, left, run, hdr, hk, hk_timer_trig, end_daq_hk_time,
                             end_daq_hk_ready, daq_dur, bin_cfg, command, at, idx,
                             early, lastDone>>
BY DEF Elsewhere, msp_expsend_start, msp_expsend_data, msp_expsend_complete,
       msp_expsend_error, dataVars, gateware, hkState, config, buffers, loop, history

LEMMA StepsElsewhere ==
    DataStep <=>
    \/ Timer1_IRQHandler
    \/ DaqFinishes
    \/ StartHk
    \/ ReadHk
    \/ EndOfDaqHk
    \/ EndHk
    \/ StartPrep
    \/ prep_payload_data
    \/ EndPrep
    \/ TakeRequest
    \/ FillHk
    \/ ClearRequest
    \/ PrepDaq
    \/ citiroc_daq_start
    \/ EndDaq
    \/ citiroc_daq_stop
    \/ ActOnCommand
    \/ \E op \in Commands : SendCommand(op)
    \/ Elsewhere
BY DEF DataStep, Elsewhere

\* The DAQ's length fits the countdown, which stops one second short of it.
LEMMA Countdowns ==
    ASSUME SecondsToSpare, NEW dur \in Durations
    PROVE  dur \in Nat /\ dur > 1 /\ HkTime(dur) = dur - 1
<1>1. dur \in 2..255
  BY DEF SecondsToSpare
<1>2. (dur + 255) % 256 = dur - 1
  BY <1>1
<1> QED
  BY <1>1, <1>2 DEF HkTime, UInt8

\* Between the two steps of a command nothing but a tick changes the countdown.
LEMMA HalfwayStep ==
    ASSUME SecondsToSpare, DataTypeOK, Round, Waited, Halfway, DataStep
    PROVE  Halfway'
<1> USE DEF DataTypeOK, Halfway, gateware, hkState, config, buffers, loop, pace, history,
            NextPass
<1>1. CASE Timer1_IRQHandler
  <2>1. CASE at = "start"
    <3>1. daq_dur \in Durations /\ early = 0
      BY <1>1, <2>1 DEF Timer1_IRQHandler, Round, Waited
    <3>2. HkTime(daq_dur) \in Nat /\ HkTime(daq_dur) > 0
      BY <3>1, Countdowns
    <3> QED
      BY <1>1, <2>1, <3>1, <3>2 DEF Timer1_IRQHandler, Countdown
  <2>2. CASE at # "start"
    BY <1>1, <2>2 DEF Timer1_IRQHandler
  <2> QED
    BY <2>1, <2>2
<1>2. CASE DaqFinishes
  BY <1>2 DEF DaqFinishes
<1>3. CASE PrepDaq
  <2>1. daq_dur \in Durations
    BY <1>3 DEF PrepDaq, Waited
  <2>2. HkTime(daq_dur) \in Nat
    BY <2>1, Countdowns
  <2> QED
    BY <1>3, <2>2 DEF PrepDaq
<1>4. CASE EndDaq
  BY <1>4 DEF EndDaq
<1>5. CASE \/ StartHk \/ ReadHk \/ EndOfDaqHk \/ EndHk \/ StartPrep
           \/ prep_payload_data \/ EndPrep \/ TakeRequest \/ FillHk \/ ClearRequest
           \/ citiroc_daq_start \/ citiroc_daq_stop \/ ActOnCommand
  <2>1. at' \notin {"start", "stop"}
    BY <1>5 DEF StartHk, ReadHk, EndOfDaqHk, EndHk, StartPrep, prep_payload_data, EndPrep,
       TakeRequest, FillHk, ClearRequest, citiroc_daq_start, citiroc_daq_stop, ActOnCommand
  <2> QED
    BY <2>1
<1>6. CASE \E op \in Commands : SendCommand(op)
  BY <1>6 DEF SendCommand
<1>7. CASE Elsewhere
  BY <1>7, ElsewhereKeeps
<1> QED
  BY <1>1, <1>2, <1>3, <1>4, <1>5, <1>6, <1>7, StepsElsewhere

\* The last second of a DAQ.
LEMMA LatchedStep ==
    ASSUME ReadyAtBoot, SecondsToSpare, DataTypeOK, Round, Halfway, Latched, Waited,
           Buffer, DataStep
    PROVE  Latched'
<1> USE DEF DataTypeOK, Round, Halfway, Latched, OfLastSecond, gateware, hkState, config,
            buffers, loop, pace, history, NextPass
<1>1. CASE Timer1_IRQHandler
  <2>1. CASE Running
    <3>1. at # "start"
      BY <2>1 DEF Waited, Settled
    <3> QED
      BY <1>1, <2>1, <3>1 DEF Timer1_IRQHandler, Countdown, HkTimeLeft
  <2>2. CASE ~Running
    BY <1>1, <2>2 DEF Timer1_IRQHandler, Waited, Settled
  <2> QED
    BY <2>1, <2>2
<1>2. CASE DaqFinishes
  BY <1>2 DEF DaqFinishes
<1>3. CASE StartHk
  BY <1>3 DEF StartHk, HkTimeLeft
<1>4. CASE ReadHk
  BY <1>4 DEF ReadHk, Reading, HkTimeLeft
<1>5. CASE EndOfDaqHk
  <2>1. EndOfDaq <=> Running /\ ~end_daq_hk_ready /\ end_daq_hk_time = 0
    BY Ready DEF EndOfDaq
  <2>2. at = "endhk" /\ at' = "untrig" /\ UNCHANGED <<daq, left, run, hk, hk_timer_trig,
                                               end_daq_hk_time, early, lastDone>>
    BY <1>5 DEF EndOfDaqHk
  <2>3. CASE EndOfDaq
    <3>1. hdr' = hk /\ end_daq_hk_ready' = TRUE
      BY <1>5, <2>3 DEF EndOfDaqHk
    <3> QED
      BY <2>1, <2>2, <2>3, <3>1 DEF HkTimeLeft
  <2>4. CASE ~EndOfDaq
    <3>1. hdr' = hdr /\ end_daq_hk_ready' = end_daq_hk_ready
      BY <1>5, <2>4 DEF EndOfDaqHk
    <3> QED
      BY <2>1, <2>2, <2>4, <3>1 DEF HkTimeLeft
  <2> QED
    BY <2>3, <2>4
<1>6. CASE EndHk
  BY <1>6 DEF EndHk, HkTimeLeft
<1>7. CASE \/ StartPrep \/ prep_payload_data \/ TakeRequest \/ FillHk \/ ClearRequest
           \/ ActOnCommand
  <2>1. /\ at \notin {"start", "stop"} /\ at' \notin {"endhk", "untrig"}
        /\ UNCHANGED <<daq, left, run, hdr, hk, hk_timer_trig, end_daq_hk_time,
                       end_daq_hk_ready, early, lastDone>>
    BY <1>7 DEF StartPrep, prep_payload_data, TakeRequest, FillHk, ClearRequest,
       ActOnCommand
  <2> QED
    BY ONLY <2>1, Latched DEF Latched, OfLastSecond, HkTimeLeft, Running
<1>8. CASE EndPrep
  BY <1>8 DEF EndPrep, Buffer
<1>9. CASE PrepDaq
  BY <1>9 DEF PrepDaq, Waited, Settled
<1>10. CASE citiroc_daq_start
  <2>1. daq_dur \in Durations /\ ~end_daq_hk_ready
    BY <1>10 DEF citiroc_daq_start, Waited, Settled
  <2>2. daq_dur \in Nat /\ daq_dur > 1 /\ end_daq_hk_time = daq_dur - 1 - early
    BY <1>10, <2>1, Countdowns DEF citiroc_daq_start
  <2>3. /\ daq' = "running" /\ left' = daq_dur /\ at' = "hk"
        /\ UNCHANGED <<hk_timer_trig, end_daq_hk_time, end_daq_hk_ready, early>>
        /\ (early = 1 => hk_timer_trig)
    BY <1>10 DEF citiroc_daq_start
  <2>4. early \in {0, 1}
    OBVIOUS
  <2> QED
    BY ONLY <2>1, <2>2, <2>3, <2>4 DEF Latched, OfLastSecond, HkTimeLeft, Running
<1>11. CASE EndDaq
  BY <1>11 DEF EndDaq, HkTimeLeft
<1>12. CASE citiroc_daq_stop
  BY <1>12 DEF citiroc_daq_stop
<1>13. CASE \E op \in Commands : SendCommand(op)
  BY <1>13 DEF SendCommand, HkTimeLeft
<1>14. CASE Elsewhere
  BY <1>14, ElsewhereKeeps DEF HkTimeLeft
<1> QED
  BY <1>1, <1>2, <1>3, <1>4, <1>5, <1>6, <1>7, <1>8, <1>9, <1>10, <1>11, <1>12, <1>13,
     <1>14, StepsElsewhere

\* What the OBC waited for stays so until the loop has its command.
LEMMA WaitedStep ==
    ASSUME ObcIsPatient, ReadyAtBoot, DataTypeOK, Halfway, Waited, Buffer, Reads, DataStep
    PROVE  Waited'
<1> USE DEF DataTypeOK, gateware, hkState, config, buffers, loop, pace, history, NextPass
<1>1. CASE \E op \in Commands : SendCommand(op)
  <2> PICK op \in Commands : SendCommand(op)
    BY <1>1
  <2>1. command' = op /\ UNCHANGED <<daq, at, end_daq_hk_ready, daq_dur, send_data_payload>>
    BY DEF SendCommand
  <2>2. op = "DAQ_START" => daq_dur \in Durations
    BY DEF SendCommand
  <2>3. op \in {"DAQ_START", "DAQ_CONF"} => Settled
    BY Ready DEF SendCommand, ObcWaits, ObcIsPatient, PrepDue, Settled
  <2>4. op = "DAQ_CONF" => ~Unread
    BY DEF SendCommand, ObcWaits, ObcIsPatient
  <2> QED
    BY <2>1, <2>2, <2>3, <2>4 DEF Waited, Settled, Unread
<1>2. CASE ActOnCommand \/ citiroc_daq_start \/ citiroc_daq_stop
  BY <1>2 DEF ActOnCommand, citiroc_daq_start, citiroc_daq_stop, Waited
<1>3. CASE UNCHANGED <<command, daq, daq_dur, send_data_payload>>
           /\ (Settled => Settled')
  BY <1>3 DEF Waited, Unread
<1>4. CASE Timer1_IRQHandler
  BY <1>3, <1>4 DEF Timer1_IRQHandler, Settled
<1>5. CASE DaqFinishes
  BY <1>5 DEF DaqFinishes, Waited, Settled
<1>6. CASE StartHk \/ ReadHk \/ EndHk \/ TakeRequest \/ FillHk \/ ClearRequest \/ PrepDaq
  BY <1>3, <1>6 DEF StartHk, ReadHk, EndHk, TakeRequest, FillHk, ClearRequest, PrepDaq,
     Settled
<1>7. CASE EndOfDaqHk
  BY <1>3, <1>7, Ready DEF EndOfDaqHk, EndOfDaq, Settled
<1>8. CASE StartPrep
  BY <1>3, <1>8, Ready DEF StartPrep, PrepDue, Settled
<1>9. CASE prep_payload_data
  BY <1>9 DEF prep_payload_data, Waited, Settled
<1>10. CASE EndPrep
  BY <1>10 DEF EndPrep, Waited, Settled
<1>11. CASE EndDaq
  BY <1>11 DEF EndDaq, Waited
<1>12. CASE Elsewhere
  <2>1. command = "DAQ_CONF" /\ ~Unread => ~Unread'
    BY <1>12 DEF Elsewhere, msp_expsend_start, msp_expsend_data, msp_expsend_complete,
       msp_expsend_error, dataVars, Unread, Zeros
  <2> QED
    BY <1>12, <2>1, ElsewhereKeeps DEF Waited, Settled
<1> QED
  BY <1>1, <1>2, <1>4, <1>5, <1>6, <1>7, <1>8, <1>9, <1>10, <1>11, <1>12,
     StepsElsewhere

\* The buffer: prepared as a whole, and cleared as a whole.
LEMMA BufferStep ==
    ASSUME ReadyAtBoot, DataTypeOK, Halfway, Latched, Waited, Buffer, Reads, DataStep
    PROVE  Buffer'
<1> USE DEF DataTypeOK, gateware, hkState, config, buffers, loop, pace, history, NextPass
<1>1. CASE /\ UNCHANGED <<send_data_payload, bin_cfg, run>>
           /\ Settled' => Settled
           /\ at' # "prep"
  BY <1>1 DEF Buffer, Unread
<1>2. CASE Timer1_IRQHandler
  BY <1>2 DEF Timer1_IRQHandler, Buffer, Settled, Unread
<1>3. CASE DaqFinishes
  BY <1>3 DEF DaqFinishes, Buffer, Settled, Latched
<1>4. CASE StartHk \/ ReadHk \/ EndHk \/ TakeRequest \/ FillHk \/ ClearRequest \/ PrepDaq
  BY <1>1, <1>4 DEF StartHk, ReadHk, EndHk, TakeRequest, FillHk, ClearRequest, PrepDaq,
     Settled
<1>5. CASE EndOfDaqHk
  BY <1>1, <1>5 DEF EndOfDaqHk, Settled
<1>6. CASE StartPrep
  <2>1. CASE PrepDue
    <3>1. /\ at' = "prep" /\ idx' = 0 /\ ~Running /\ end_daq_hk_ready
          /\ UNCHANGED <<daq, run, bin_cfg, send_data_payload, end_daq_hk_ready>>
      BY <1>6, <2>1, Ready DEF StartPrep, PrepDue
    <3>2. bin_cfg \in Nat /\ \A f \in Frames : f \in Nat /\ ~(f < 0)
      BY FramesCover
    <3> QED
      BY <3>1, <3>2 DEF Buffer, Settled
  <2>2. CASE ~PrepDue
    BY <1>1, <1>6, <2>2 DEF StartPrep, Settled
  <2> QED
    BY <2>1, <2>2
<1>7. CASE prep_payload_data
  <2>1. /\ at = "prep" /\ at' = "prep" /\ idx' = idx + 1 /\ idx < bin_cfg
        /\ send_data_payload' = [send_data_payload EXCEPT ![idx] = run]
        /\ UNCHANGED <<daq, run, bin_cfg, end_daq_hk_ready>>
    BY <1>7 DEF prep_payload_data, PrepLen
  <2>2. \A f \in Frames : send_data_payload'[f] = IF f = idx THEN run ELSE send_data_payload[f]
    BY <2>1
  <2>3. \A f \in Frames : f \in Nat
    BY FramesCover
  <2>4. bin_cfg \in Nat
    BY FramesCover
  <2> QED
    BY <2>1, <2>2, <2>3, <2>4 DEF Buffer, Settled
<1>8. CASE EndPrep
  BY <1>8 DEF EndPrep, PrepLen, Buffer
<1>9. CASE citiroc_daq_start
  BY <1>9 DEF citiroc_daq_start, Buffer, Settled
<1>10. CASE EndDaq
  BY <1>10 DEF EndDaq, Buffer, Settled
<1>11. CASE citiroc_daq_stop
  BY <1>11 DEF citiroc_daq_stop, Buffer, Settled, Halfway
<1>12. CASE ActOnCommand
  <2>2. CASE DaqConf
    <3>1. ~Unread /\ UNCHANGED send_data_payload /\ at' # "prep"
      BY <1>12, <2>2 DEF ActOnCommand, DaqConf, Waited
    <3> QED
      BY <3>1 DEF Buffer, Unread
  <2>3. CASE ~DaqConf
    BY <1>1, <1>12, <2>3 DEF ActOnCommand, Settled
  <2> QED
    BY <2>2, <2>3
<1>13. CASE \E op \in Commands : SendCommand(op)
  BY <1>13 DEF SendCommand, Buffer, Settled, Unread
<1>14. CASE Elsewhere
  <2>1. CASE UNCHANGED send_data_payload
    BY <1>14, <2>1, ElsewhereKeeps DEF Buffer, Settled, Unread
  <2>2. CASE msp_expsend_complete /\ resp.op = "REQ_PAYLOAD"
    <3>1. send_data_payload' = Zeros /\ at' # "prep"
      BY <1>14, <2>2, ElsewhereKeeps DEF msp_expsend_complete, Reads, Settled
    <3> QED
      BY <3>1 DEF Buffer, Unread, Zeros
  <2> QED
    BY <1>14, <2>1, <2>2 DEF Elsewhere, msp_expsend_start, msp_expsend_data,
       msp_expsend_complete, msp_expsend_error, dataVars
<1> QED
  BY <1>2, <1>3, <1>4, <1>5, <1>6, <1>7, <1>8, <1>9, <1>10, <1>11, <1>12, <1>13,
     <1>14, StepsElsewhere

\* A response takes what the buffer holds.
LEMMA ReadsStep ==
    ASSUME ObcIsPatient, ReadyAtBoot, DataTypeOK, Halfway, Waited, Buffer, Reads, DataStep
    PROVE  Reads'
<1> USE DEF DataTypeOK, gateware, hkState, config, buffers, loop, pace, history, NextPass
<1>1. CASE UNCHANGED <<resp, bin_cfg, command, send_data_payload>> /\ (Settled => Settled')
  BY <1>1 DEF Reads
<1>2. CASE Timer1_IRQHandler
  BY <1>1, <1>2 DEF Timer1_IRQHandler, Settled
<1>3. CASE DaqFinishes
  BY <1>3 DEF DaqFinishes, Reads, Settled
<1>4. CASE StartHk \/ ReadHk \/ EndHk \/ TakeRequest \/ FillHk \/ ClearRequest \/ PrepDaq
  BY <1>1, <1>4 DEF StartHk, ReadHk, EndHk, TakeRequest, FillHk, ClearRequest, PrepDaq,
     Settled
<1>5. CASE EndOfDaqHk
  BY <1>1, <1>5, Ready DEF EndOfDaqHk, EndOfDaq, Settled
<1>6. CASE StartPrep
  BY <1>1, <1>6, Ready DEF StartPrep, PrepDue, Settled
<1>7. CASE prep_payload_data
  BY <1>7 DEF prep_payload_data, Reads, Settled
<1>8. CASE EndPrep
  BY <1>8 DEF EndPrep, Reads, Settled
<1>9. CASE citiroc_daq_start \/ EndDaq \/ citiroc_daq_stop \/ ActOnCommand
  <2>1. UNCHANGED <<resp, send_data_payload>>
    BY <1>9 DEF citiroc_daq_start, EndDaq, citiroc_daq_stop, ActOnCommand
  <2>2. CASE resp.op = "REQ_PAYLOAD"
    <3>1. command = None /\ at # "start" /\ at # "stop"
      BY <2>2 DEF Reads, Halfway
    <3> QED
      BY <1>1, <1>9, <3>1 DEF ActOnCommand, citiroc_daq_start, EndDaq, citiroc_daq_stop,
         DaqConf, Settled
  <2>3. CASE resp.op # "REQ_PAYLOAD"
    BY <2>1, <2>3 DEF Reads
  <2> QED
    BY <2>2, <2>3
<1>10. CASE \E op \in Commands : SendCommand(op)
  BY <1>10 DEF SendCommand, NoResponse, Reads
<1>11. CASE Elsewhere
  <2>1. ASSUME NEW op \in Requests, msp_expsend_start(op) PROVE Reads'
    <3>1. resp' = [op |-> op, len |-> AnnouncedLen(op), got |-> << >>]
          /\ UNCHANGED <<daq, end_daq_hk_ready, at, bin_cfg, command>>
      BY <2>1 DEF msp_expsend_start
    <3>2. resp'.op = op /\ resp'.len = AnnouncedLen(op) /\ resp'.got = << >>
      BY <3>1
    <3>3. CASE op = "REQ_PAYLOAD"
      <4>1. Settled /\ command = None
        BY <2>1, <3>3, Ready DEF msp_expsend_start, ObcWaits, ObcIsPatient, PrepDue, Settled
      <4>2. bin_cfg \in Nat /\ AnnouncedLen(op) \in {0, bin_cfg}
        BY <3>3, FramesCover DEF AnnouncedLen
      <4> QED
        BY <3>1, <3>2, <4>1, <4>2 DEF Reads, Settled
    <3>4. CASE op # "REQ_PAYLOAD"
      BY <3>2, <3>4 DEF Reads
    <3> QED
      BY <3>3, <3>4
  <2>2. CASE msp_expsend_data
    <3> SUFFICES ASSUME resp'.op = "REQ_PAYLOAD" PROVE Reads'
      BY DEF Reads
    <3> DEFINE k == Len(resp.got)
               entry == IF resp.op = "REQ_HK" THEN 0 ELSE send_data_payload[k]
               got == Append(resp.got, entry)
    <3>1. resp' = [resp EXCEPT !.got = got] /\ k < resp.len
          /\ UNCHANGED <<daq, end_daq_hk_ready, at, bin_cfg, command, send_data_payload>>
      BY <2>2 DEF msp_expsend_data
    <3>2. resp'.got = got /\ resp'.len = resp.len /\ resp.op = "REQ_PAYLOAD"
      BY <3>1
    <3>3. entry = send_data_payload[k]
      BY <3>2
    <3>4. resp.got \in Seq(Nat) /\ k \in Nat /\ resp.len \in Nat
      OBVIOUS
    <3>5. k < bin_cfg /\ k \in Frames
      BY <3>1, <3>2, <3>4, FramesCover DEF Reads
    <3>6. entry \in Nat
      BY <3>3, <3>5
    <3> HIDE DEF entry
    <3>7. Len(got) = k + 1 /\ got[k + 1] = entry
          /\ \A n \in 1..k : got[n] = resp.got[n]
      BY <3>4, <3>6
    <3> HIDE DEF got
    <3>8. \A n \in 1..Len(got) : got[n] = send_data_payload[n - 1]
      <4> SUFFICES ASSUME NEW n \in 1..k+1 PROVE got[n] = send_data_payload[n - 1]
        BY <3>7
      <4>1. CASE n = k + 1
        BY <3>3, <3>4, <3>7, <4>1
      <4>2. CASE n \in 1..k
        BY <3>2, <3>7, <4>2 DEF Reads
      <4>3. n = k + 1 \/ n \in 1..k
        BY ONLY <3>4, n \in 1..k+1
      <4> QED
        BY ONLY <4>1, <4>2, <4>3
    <3>9. Len(got) <= resp.len
      BY <3>1, <3>4, <3>7
    <3> QED
      BY <3>1, <3>2, <3>8, <3>9 DEF Reads, Settled
  <2>3. CASE msp_expsend_complete \/ msp_expsend_error
    BY <2>3 DEF msp_expsend_complete, msp_expsend_error, NoResponse, Reads
  <2>4. CASE UNCHANGED dataVars
    BY <2>4, <1>1 DEF dataVars, Settled
  <2> QED
    BY <1>11, <2>1, <2>2, <2>3, <2>4 DEF Elsewhere
<1> QED
  BY <1>2, <1>3, <1>4, <1>5, <1>6, <1>7, <1>8, <1>9, <1>10, <1>11, StepsElsewhere

LEMMA DataNextIInv ==
    ASSUME ObcIsPatient, ReadyAtBoot, SecondsToSpare, DataIInv, [DataNext]_dataVars
    PROVE  DataIInv'
BY DataSteps, TypeStep, RoundStep, HalfwayStep, LatchedStep, WaitedStep, BufferStep, ReadsStep
   DEF DataIInv
-----------------------------------------------------------------------------
\* A pass serves the mailbox, and fills the buffer if HK is asked for in time.
Served ==
    /\ passes \in 0..2
    /\ passes = 2 => has_send = None
    /\ at \in {"fill", "clear"} => has_send # None
    /\ at \in {"start", "stop"} => has_send = None \/ passes = 0
    /\ spaced => /\ has_send \in {None, "REQ_HK"}
                 /\ has_send = None \/ at = "clear" => ~hk_owed

\* The invariant holds throughout, for any number of DAQs.
THEOREM DataInvariant ==
    ASSUME ObcIsPatient, ReadyAtBoot, SecondsToSpare
    PROVE  DataSpec => []DataIInv
<1>1. DataIInv /\ [DataNext]_dataVars => DataIInv'
  BY DataNextIInv
<1> QED
  BY DataInitIInv, <1>1, PTL DEF DataSpec

\* A response to REQ_PAYLOAD is the whole of the last DAQ, or all zeros, whatever
\* the DAQs, the configurations and the order of the OBC's commands.
THEOREM PayloadIsWhole ==
    ASSUME ObcIsPatient, ReadyAtBoot, SecondsToSpare
    PROVE  DataSpec => []WholePayload
<1>1. DataIInv => WholePayload
  <2> SUFFICES ASSUME DataIInv, resp.op = "REQ_PAYLOAD" PROVE WholePayload
    BY DEF WholePayload, GotFrom
  <2>1. Settled /\ lastDone = run
    BY DEF DataIInv, Reads, Latched, Settled
  <2>2. DOMAIN resp.got = 1..Len(resp.got) /\ Len(resp.got) \in Nat
    BY DEF DataIInv, DataTypeOK
  <2>3. bin_cfg \in Nat /\ Len(resp.got) <= bin_cfg
    BY <2>2, FramesCover DEF DataIInv, Reads, DataTypeOK
  <2>4. \A n \in 1..Len(resp.got) : n - 1 \in Frames /\ n - 1 < bin_cfg
                                      /\ resp.got[n] = send_data_payload[n - 1]
    BY <2>2, <2>3, FramesCover DEF DataIInv, Reads, DataTypeOK
  <2>5. CASE ~Unread
    BY <2>2, <2>4, <2>5 DEF Unread, WholePayload, GotFrom
  <2>6. CASE \A f \in Frames : f < bin_cfg => send_data_payload[f] = run
    BY <2>1, <2>2, <2>4, <2>6 DEF WholePayload, GotFrom
  <2> QED
    BY <2>1, <2>5, <2>6 DEF DataIInv, Buffer
<1> QED
  BY <1>1, DataInvariant, PTL

\* The payload of a DAQ that ran to its end is prepared with HK of its last second in
\* the header, or of the second before when a tick came ahead of the DAQ.
THEOREM HeaderIsOfEndOfDaq ==
    ASSUME ObcIsPatient, ReadyAtBoot, SecondsToSpare
    PROVE  DataSpec => EndOfDaqHkInHeader
<1>1. DataIInv => [(StartPrep /\ at' = "prep" /\ daq = "done")
                     => hdr.run = run /\ hdr.left <= 1 + early]_dataVars
  BY DEF DataIInv, Latched, OfLastSecond, StartPrep, PrepDue
<1> QED
  BY <1>1, DataInvariant, PTL DEF EndOfDaqHkInHeader

\* HK that is asked for in time and read in time is no older than the request and of
\* one round, whatever else the OBC asks for or gives up: no constant is assumed.
THEOREM HkIsCurrent == DataSpec => HkReadyWhenAsked
<1>1. DataInit => Served
  BY DEF DataInit, Served, NoResponse
<1>2. Served /\ [DataNext]_dataVars => Served'
  <2> SUFFICES ASSUME Served, DataStep PROVE Served'
    BY DataSteps
  <2> USE DEF gateware, hkState, config, buffers, loop, pace, history, NextPass, Served
  <2>1. CASE /\ UNCHANGED <<has_send, hk_owed, passes, spaced>>
             /\ at \notin {"fill", "clear", "start", "stop"}
             /\ at' \notin {"fill", "clear", "start", "stop"}
    BY <2>1
  <2>2. CASE TakeRequest
    BY <2>2 DEF TakeRequest
  <2>3. CASE FillHk
    BY <2>3 DEF FillHk, HkFilled
  <2>4. CASE ClearRequest
    BY <2>4 DEF ClearRequest
  <2>5. CASE PrepDaq \/ EndDaq
    BY <2>5 DEF PrepDaq, EndDaq
  <2>6. CASE citiroc_daq_start \/ citiroc_daq_stop
    BY <2>6 DEF citiroc_daq_start, citiroc_daq_stop
  <2>7. CASE ActOnCommand
    BY <2>7 DEF ActOnCommand
  <2>8. ASSUME NEW op \in Requests, msp_expsend_start(op) PROVE Served'
    <3>1. /\ at' = at /\ has_send' = op /\ op # None /\ passes' = 0
          /\ spaced' = (op = "REQ_HK" /\ passes = 2)
      BY <2>8 DEF msp_expsend_start
    <3>2. spaced' => has_send' = "REQ_HK" /\ at' # "clear"
      BY <3>1
    <3> QED
      BY ONLY <3>1, <3>2 DEF Served, None
  <2>9. CASE msp_expsend_complete \/ msp_expsend_error
    BY <2>9 DEF msp_expsend_complete, msp_expsend_error
  <2>10. CASE \/ StartHk \/ ReadHk \/ EndOfDaqHk \/ EndHk \/ StartPrep
              \/ prep_payload_data \/ EndPrep
    BY <2>1, <2>10 DEF StartHk, ReadHk, EndOfDaqHk, EndHk, StartPrep, prep_payload_data,
       EndPrep
  <2>11. CASE UNCHANGED <<has_send, hk_owed, passes, spaced, at>>
    BY <2>11
  <2>12. CASE \/ Timer1_IRQHandler \/ DaqFinishes \/ msp_expsend_data
              \/ (\E op \in Commands : SendCommand(op)) \/ UNCHANGED dataVars
    BY <2>11, <2>12 DEF Timer1_IRQHandler, DaqFinishes, msp_expsend_data, SendCommand,
       dataVars
  <2> QED
    BY <2>2, <2>3, <2>4, <2>5, <2>6, <2>7, <2>8, <2>9, <2>10, <2>12 DEF DataStep
<1>3. Served => [(msp_expsend_data /\ spaced /\ passes = 2) => ~hk_owed]_dataVars
  BY DEF Served
<1> QED
  BY <1>1, <1>2, <1>3, PTL DEF DataSpec, HkReadyWhenAsked
-----------------------------------------------------------------------------
(* Sums over finite sets, as the library's SumFunctionOnSet computes them: the *)
(* function it recurses with exists, and the order of the elements is no matter. *)

\* The element the library's sum takes out of s.
Any(s) == CHOOSE x \in s : TRUE

\* g has the sum of f over each subset of S.
IsSumOf(f, S, g) ==
    g = [s \in SUBSET S |-> IF s = {} THEN 0 ELSE f[Any(s)] + g[s \ {Any(s)}]]

Sums(f, S) == CHOOSE g : IsSumOf(f, S, g)

\* A counterexample among the finite sets can be chosen minimal: the form induction on
\* finite sets takes below.
LEMMA SmallestSet ==
    ASSUME NEW S, NEW T \in SUBSET FiniteSubsetsOf(S), T # {}
    PROVE  \E A \in T : \A B \in T : B \subseteq A => B = A
<1>1. PICK A \in T : \A B \in T : ~ (<<B, A>> \in StrictSubsetOrdering(S))
  <2> DEFINE R == StrictSubsetOrdering(S)
             F == FiniteSubsetsOf(S)
  <2>1. IsWellFoundedOn(R, F)
    BY FS_StrictSubsetOrderingWellFounded
  <2> HIDE DEF R, F
  <2>2. T \subseteq F
    BY DEF F
  <2>3. \E A \in T : \A B \in T : ~ (<<B, A>> \in R)
    BY <2>1, <2>2, WFMin, Zenon
  <2> QED
    BY <2>3 DEF R
<1>2. \A B \in T : B \in SUBSET S
  BY DEF FiniteSubsetsOf
<1>3. ASSUME NEW B \in T, B \subseteq A PROVE B = A
  BY <1>1, <1>2, <1>3 DEF StrictSubsetOrdering
<1> QED
  BY <1>3

\* One element taken out.
LEMMA NotAll ==
    ASSUME NEW s, s # {} PROVE Any(s) \in s /\ s \ {Any(s)} \subseteq s /\ s \ {Any(s)} # s
BY DEF Any

\* What the recursion computes at a subset.
LEMMA SumAt ==
    ASSUME NEW f, NEW S, NEW g, IsSumOf(f, S, g), NEW s \in SUBSET S
    PROVE  g[s] = IF s = {} THEN 0 ELSE f[Any(s)] + g[s \ {Any(s)}]
<1> DEFINE V(t) == IF t = {} THEN 0 ELSE f[Any(t)] + g[t \ {Any(t)}]
<1>1. g = [t \in SUBSET S |-> V(t)]
  BY DEF IsSumOf
<1> HIDE DEF V
<1>2. g[s] = V(s)
  BY <1>1
<1> QED
  BY <1>2 DEF V

\* Two sums agree where both are defined.
LEMMA SumsAgree ==
    ASSUME NEW f, NEW A, NEW B, NEW g, NEW h, IsSumOf(f, A, g), IsSumOf(f, B, h)
    PROVE  \A C \in FiniteSubsetsOf(A \cap B) : g[C] = h[C]
<1> SUFFICES ASSUME NEW D \in FiniteSubsetsOf(A \cap B), g[D] # h[D] PROVE FALSE
  OBVIOUS
<1> DEFINE T == {C \in FiniteSubsetsOf(A \cap B) : g[C] # h[C]}
<1>1. PICK C \in T : \A E \in T : E \subseteq C => E = C
  <2>1. D \in T /\ T \in SUBSET FiniteSubsetsOf(A \cap B)
    OBVIOUS
  <2> HIDE DEF T
  <2> QED
    BY <2>1, SmallestSet
<1>2. C \in SUBSET A /\ C \in SUBSET B /\ IsFiniteSet(C)
  BY DEF FiniteSubsetsOf
<1>3. C # {}
  BY <1>2, SumAt
<1> DEFINE E == C \ {Any(C)}
<1>4. E \in FiniteSubsetsOf(A \cap B)
  BY <1>2, FS_Subset DEF FiniteSubsetsOf
<1>5. g[E] = h[E]
  BY <1>1, <1>3, <1>4, NotAll
<1>6. g[C] = f[Any(C)] + g[E] /\ h[C] = f[Any(C)] + h[E]
  BY <1>2, <1>3, SumAt
<1> QED
  BY <1>5, <1>6

\* The recursion is well-defined on a finite set.
LEMMA SumExists ==
    ASSUME NEW f, NEW S, IsFiniteSet(S)
    PROVE  IsSumOf(f, S, Sums(f, S))
<1> SUFFICES \E g : IsSumOf(f, S, g)
  BY Zenon DEF Sums
<1> SUFFICES ASSUME ~ \E g : IsSumOf(f, S, g) PROVE FALSE
  OBVIOUS
<1> DEFINE T == {C \in FiniteSubsetsOf(S) : ~ \E g : IsSumOf(f, C, g)}
<1>1. PICK A \in T : \A C \in T : C \subseteq A => C = A
  <2>1. S \in T /\ T \in SUBSET FiniteSubsetsOf(S)
    BY DEF FiniteSubsetsOf
  <2> HIDE DEF T
  <2> QED
    BY <2>1, SmallestSet
<1>2. A \in SUBSET S /\ IsFiniteSet(A)
  BY DEF FiniteSubsetsOf
<1>3. \A C \in SUBSET A : IsFiniteSet(C) /\ C \in FiniteSubsetsOf(S)
  BY <1>2, FS_Subset DEF FiniteSubsetsOf
<1>4. ASSUME NEW C \in SUBSET A, C # A PROVE IsSumOf(f, C, Sums(f, C))
  <2>1. \E g : IsSumOf(f, C, g)
    BY <1>1, <1>3, <1>4
  <2> QED
    BY <2>1, Zenon DEF Sums
<1> DEFINE Rest(s) == s \ {Any(s)}
           V(s) == IF s = {} THEN 0 ELSE f[Any(s)] + Sums(f, Rest(s))[Rest(s)]
           g == [s \in SUBSET A |-> V(s)]
<1>5. ASSUME NEW C \in SUBSET A, C # A PROVE V(C) = Sums(f, C)[C]
  <2>1. Sums(f, C)[C] = IF C = {} THEN 0 ELSE f[Any(C)] + Sums(f, C)[Rest(C)]
    BY <1>4, <1>5, SumAt
  <2>2. ASSUME C # {} PROVE Sums(f, C)[Rest(C)] = Sums(f, Rest(C))[Rest(C)]
    <3>1. /\ Rest(C) \in SUBSET A /\ Rest(C) # A
          /\ Rest(C) \in FiniteSubsetsOf(C \cap Rest(C))
      BY <1>3, <1>5, <2>2, NotAll DEF FiniteSubsetsOf
    <3>2. IsSumOf(f, C, Sums(f, C)) /\ IsSumOf(f, Rest(C), Sums(f, Rest(C)))
      BY <1>4, <1>5, <3>1
    <3> HIDE DEF Rest
    <3> QED
      BY <3>1, <3>2, SumsAgree
  <2> QED
    BY <2>1, <2>2
<1>6. ASSUME NEW s \in SUBSET A, s # {} PROVE Sums(f, Rest(s))[Rest(s)] = g[Rest(s)]
  <2>1. Rest(s) \in SUBSET A /\ Rest(s) # A
    BY <1>6, NotAll
  <2> HIDE DEF Rest
  <2>2. V(Rest(s)) = Sums(f, Rest(s))[Rest(s)]
    BY <1>5, <2>1
  <2> HIDE DEF V
  <2> QED
    BY <2>1, <2>2
<1>7. \A s \in SUBSET A : V(s) = IF s = {} THEN 0 ELSE f[Any(s)] + g[s \ {Any(s)}]
  <2> HIDE DEF g
  <2> QED
    BY <1>6
<1>8. IsSumOf(f, A, g)
  <2> DEFINE G == g
             W(s) == IF s = {} THEN 0 ELSE f[Any(s)] + G[s \ {Any(s)}]
  <2>1. \A s \in SUBSET A : V(s) = W(s)
    BY <1>7
  <2>2. G = [s \in SUBSET A |-> V(s)]
    OBVIOUS
  <2> HIDE DEF G, V, W
  <2>3. G = [s \in SUBSET A |-> W(s)]
    BY <2>1, <2>2
  <2> QED
    BY <2>3 DEF IsSumOf, W, G
<1> QED
  BY <1>8

\* The library's fold is that sum.
LEMMA SumIs ==
    ASSUME NEW f, NEW S PROVE SumFunctionOnSet(f, S) = Sums(f, S)[S]
BY DEF Sums, IsSumOf, Any, SumFunctionOnSet, FoldFunctionOnSet, MapThenFoldSet

LEMMA SumOfNone == ASSUME NEW f PROVE SumFunctionOnSet(f, {}) = 0
<1>1. IsSumOf(f, {}, Sums(f, {}))
  BY SumExists, FS_EmptySet
<1> QED
  BY <1>1, SumAt, SumIs

LEMMA SumOfAny ==
    ASSUME NEW f, NEW S, IsFiniteSet(S), S # {}
    PROVE  SumFunctionOnSet(f, S) = f[Any(S)] + SumFunctionOnSet(f, S \ {Any(S)})
<1> DEFINE r == S \ {Any(S)}
<1>1. IsFiniteSet(r) /\ r \in FiniteSubsetsOf(S \cap r)
  BY FS_Subset DEF FiniteSubsetsOf
<1>2. IsSumOf(f, S, Sums(f, S)) /\ IsSumOf(f, r, Sums(f, r))
  BY <1>1, SumExists
<1>3. Sums(f, S)[r] = Sums(f, r)[r]
  <2> HIDE DEF r
  <2> QED
    BY <1>1, <1>2, SumsAgree
<1>4. Sums(f, S)[S] = f[Any(S)] + Sums(f, S)[r]
  BY <1>2, SumAt
<1> QED
  BY <1>3, <1>4, SumIs

LEMMA SumType ==
    ASSUME NEW f, NEW S, IsFiniteSet(S), \A x \in S : f[x] \in Nat
    PROVE  SumFunctionOnSet(f, S) \in Nat
<1> DEFINE T == {C \in FiniteSubsetsOf(S) : SumFunctionOnSet(f, C) \notin Nat}
<1> SUFFICES ASSUME SumFunctionOnSet(f, S) \notin Nat PROVE FALSE
  OBVIOUS
<1>1. PICK A \in T : \A C \in T : C \subseteq A => C = A
  <2>1. S \in T /\ T \in SUBSET FiniteSubsetsOf(S)
    BY DEF FiniteSubsetsOf
  <2> HIDE DEF T
  <2> QED
    BY <2>1, SmallestSet
<1>2. A \in SUBSET S /\ IsFiniteSet(A)
  BY DEF FiniteSubsetsOf
<1>3. A # {}
  BY SumOfNone
<1> DEFINE r == A \ {Any(A)}
<1>4. r \in FiniteSubsetsOf(S) /\ r \subseteq A /\ r # A /\ Any(A) \in S
  BY <1>2, <1>3, FS_Subset, NotAll DEF FiniteSubsetsOf
<1>5. SumFunctionOnSet(f, r) \in Nat
  BY <1>1, <1>4
<1>6. SumFunctionOnSet(f, A) = f[Any(A)] + SumFunctionOnSet(f, r)
  BY <1>2, <1>3, SumOfAny
<1> QED
  BY <1>4, <1>5, <1>6

\* Any element may be taken out first.
LEMMA SumTakesOut ==
    ASSUME NEW f, NEW S, IsFiniteSet(S), \A x \in S : f[x] \in Nat, NEW x \in S
    PROVE  SumFunctionOnSet(f, S) = f[x] + SumFunctionOnSet(f, S \ {x})
<1> DEFINE sum(C) == SumFunctionOnSet(f, C)
           T == {C \in FiniteSubsetsOf(S) : \E y \in C : sum(C) # f[y] + sum(C \ {y})}
<1> SUFFICES ASSUME sum(S) # f[x] + sum(S \ {x}) PROVE FALSE
  OBVIOUS
<1>1. PICK A \in T : \A C \in T : C \subseteq A => C = A
  <2>1. S \in T /\ T \in SUBSET FiniteSubsetsOf(S)
    BY DEF FiniteSubsetsOf
  <2> HIDE DEF T
  <2> QED
    BY <2>1, SmallestSet
<1>2. A \in SUBSET S /\ IsFiniteSet(A)
  BY DEF FiniteSubsetsOf
<1>3. PICK y \in A : sum(A) # f[y] + sum(A \ {y})
  OBVIOUS
<1> DEFINE z == Any(A)
           both == A \ {y, z}
<1>4. z \in A /\ sum(A) = f[z] + sum(A \ {z})
  BY <1>2, <1>3, NotAll, SumOfAny
<1>5. z # y
  BY <1>3, <1>4
<1>6. \A C \in SUBSET A : C \in FiniteSubsetsOf(S) /\ sum(C) \in Nat
  <2> TAKE C \in SUBSET A
  <2>1. IsFiniteSet(C) /\ C \in SUBSET S
    BY <1>2, FS_Subset
  <2>2. \A c \in C : f[c] \in Nat
    BY <2>1
  <2> QED
    BY <2>1, <2>2, SumType DEF FiniteSubsetsOf
<1> HIDE DEF sum, z
<1>7. ASSUME NEW C \in SUBSET A, C # A, NEW c \in C
      PROVE  sum(C) = f[c] + sum(C \ {c})
  <2>1. C \notin T
    BY <1>1, <1>7
  <2>2. C \in FiniteSubsetsOf(S)
    BY <1>6
  <2> QED
    BY <2>1, <2>2
<1> HIDE DEF T
<1>8. /\ sum(A \ {z}) = f[y] + sum((A \ {z}) \ {y})
      /\ sum(A \ {y}) = f[z] + sum((A \ {y}) \ {z})
  <2>1. /\ A \ {z} \in SUBSET A /\ A \ {z} # A /\ y \in A \ {z}
        /\ A \ {y} \in SUBSET A /\ A \ {y} # A /\ z \in A \ {y}
    BY <1>3, <1>4, <1>5
  <2> QED
    BY <1>7, <2>1
<1>9. (A \ {z}) \ {y} = both /\ (A \ {y}) \ {z} = both
  OBVIOUS
<1>10. f[y] \in Nat /\ f[z] \in Nat /\ sum(both) \in Nat
  BY <1>2, <1>4, <1>6
<1> HIDE DEF both
<1> QED
  <2> DEFINE rest == sum(both)
  <2>1. /\ sum(A) = f[z] + (f[y] + rest) /\ sum(A \ {y}) = f[z] + rest
        /\ f[y] \in Nat /\ f[z] \in Nat /\ rest \in Nat
    BY <1>4, <1>8, <1>9, <1>10
  <2> HIDE DEF rest
  <2> QED
    BY <1>3, <2>1

LEMMA SumOfOne ==
    ASSUME NEW f, NEW x, f[x] \in Nat
    PROVE  SumFunctionOnSet(f, {x}) = f[x]
<1>1. SumFunctionOnSet(f, {x}) = f[x] + SumFunctionOnSet(f, {x} \ {x})
  BY SumTakesOut, FS_Singleton
<1>2. {x} \ {x} = {}
  OBVIOUS
<1> QED
  BY <1>1, <1>2, SumOfNone

\* As many terms of at most m.
LEMMA SumBound ==
    ASSUME NEW f, NEW S, IsFiniteSet(S), NEW m \in Nat,
           \A x \in S : f[x] \in Nat /\ f[x] <= m
    PROVE  SumFunctionOnSet(f, S) <= m * Cardinality(S)
<1> DEFINE sum(C) == SumFunctionOnSet(f, C)
           T == {C \in FiniteSubsetsOf(S) : ~ (sum(C) <= m * Cardinality(C))}
<1> SUFFICES ASSUME ~ (sum(S) <= m * Cardinality(S)) PROVE FALSE
  OBVIOUS
<1>1. PICK A \in T : \A C \in T : C \subseteq A => C = A
  <2>1. S \in T /\ T \in SUBSET FiniteSubsetsOf(S)
    BY DEF FiniteSubsetsOf
  <2> HIDE DEF T
  <2> QED
    BY <2>1, SmallestSet
<1>2. A \in SUBSET S /\ IsFiniteSet(A)
  BY DEF FiniteSubsetsOf
<1>3. A # {}
  BY SumOfNone, FS_EmptySet
<1> DEFINE r == A \ {Any(A)}
           k == Cardinality(r)
<1>4. r \in FiniteSubsetsOf(S) /\ r \subseteq A /\ r # A /\ Any(A) \in A /\ IsFiniteSet(r)
  BY <1>2, <1>3, FS_Subset, NotAll DEF FiniteSubsetsOf
<1>5. k \in Nat /\ Cardinality(A) = k + 1
  BY <1>2, <1>4, FS_RemoveElement, FS_CardinalityType
<1>6. sum(r) <= m * k /\ sum(r) \in Nat
  <2>1. \A c \in r : f[c] \in Nat
    BY <1>2, <1>4
  <2> QED
    BY <1>1, <1>4, <2>1, SumType
<1>7. sum(A) = f[Any(A)] + sum(r) /\ f[Any(A)] \in Nat /\ f[Any(A)] <= m
  BY <1>2, <1>3, <1>4, SumOfAny
<1>8. m * (k + 1) = m * k + m /\ m * k \in Nat
  BY <1>5
<1> DEFINE p == m * k
<1>9. p \in Nat /\ sum(r) <= p /\ m * Cardinality(A) = p + m
  BY <1>5, <1>6, <1>8
<1> HIDE DEF p, sum, r, k
<1>10. sum(A) <= p + m
  BY <1>6, <1>7, <1>9
<1>11. ~ (sum(A) <= m * Cardinality(A))
  OBVIOUS
<1> QED
  BY <1>9, <1>10, <1>11
-----------------------------------------------------------------------------
(* The bins of the payload. *)

\* How far the next bin is: in the words of the RAM, and in a table in half words.
Position ==
    /\ j <= get_num_bins(Cfg)
    /\ Cfg = 0 => data_idx = start_idx + j \div 2
    /\ Cfg \in 1..6 => data_idx = start_idx + (j * Size(Cfg)) \div 2
    /\ Cfg \in 11..12 => carry_over = Tables[Cfg][j + 1] % 2

Binnings == 0..6 \cup 11..12

RebinIInv ==
    /\ i \in Nat /\ j \in Nat
    /\ \A h \in 0..(NumHistos - 1) : bin_cfgs[h] \in Binnings
    /\ Active => Position
    /\ BinsPartition

\* The bins that are read for one of the payload, from the limit before it to its own.
LEMMA BinsBetween ==
    ASSUME NEW a \in Nat, NEW b \in Nat, a <= b, NEW h \in Nat
    PROVE  Below(h, b) \ Below(h, a) = h * NumBins + a .. h * NumBins + b - 1
<1> DEFINE base == h * NumBins
<1>1. base \in Nat
  BY SizesAssumption
<1> HIDE DEF base
<1>2. (base .. base + b - 1) \ (base .. base + a - 1) = base + a .. base + b - 1
  BY <1>1
<1> QED
  BY <1>2 DEF Below, base

LEMMA Sizes ==
    ASSUME NEW c \in 1..6
    PROVE  /\ Size(c) \in Nat \ {0} /\ NumBins % Size(c) = 0
           /\ \A n \in Nat : /\ n * Size(c) \in Nat
                             /\ 2 * ((n * Size(c)) \div 2) = n * Size(c)
                             /\ (n + 1) * Size(c) = n * Size(c) + Size(c)
           /\ NumBins \div Size(c) \in Nat
           /\ (NumBins \div Size(c)) * Size(c) = NumBins
<1>1. /\ 2^1 = 2 /\ 2^2 = 4 /\ 2^3 = 8 /\ 2^4 = 16 /\ 2^5 = 32 /\ 2^6 = 64
  OBVIOUS
<1>2. NumBins \in Nat /\ NumBins % Size(c) = 0
  BY SizesAssumption DEF Size
<1>3. c = 1 \/ c = 2 \/ c = 3 \/ c = 4 \/ c = 5 \/ c = 6
  OBVIOUS
<1>4. Size(c) \in {2, 4, 8, 16, 32, 64}
  BY <1>1, <1>3 DEF Size
<1> HIDE DEF Size
<1> DEFINE s == Size(c)
<1>5. s = 2 \/ s = 4 \/ s = 8 \/ s = 16 \/ s = 32 \/ s = 64
  BY <1>4
<1> HIDE DEF s
<1>6. NumBins % s = 0
  BY <1>2 DEF s
<1>7. \A n \in Nat : /\ n * s \in Nat
                     /\ 2 * ((n * s) \div 2) = n * s
                     /\ (n + 1) * s = n * s + s
  BY <1>5
<1>8. NumBins \div s \in Nat /\ (NumBins \div s) * s = NumBins
  BY <1>2, <1>5, <1>6
<1>9. s \in Nat \ {0}
  BY <1>5
<1> QED
  BY <1>6, <1>7, <1>8, <1>9 DEF s

\* A histogram begins with a word.
LEMMA StartsWithWord ==
    ASSUME NEW h \in Nat
    PROVE  /\ h * NumBins \in Nat /\ (h * NumBins) \div 2 \in Nat
           /\ 2 * ((h * NumBins) \div 2) = h * NumBins
<1>1. NumBins \in Nat /\ NumBins % 2 = 0
  <2>1. 2^1 = 2 /\ 1 \in 1..6
    OBVIOUS
  <2>2. NumBins % 2^1 = 0
    BY <2>1, SizesAssumption
  <2> QED
    BY <2>1, <2>2, SizesAssumption
<1>2. PICK k \in Nat : NumBins = 2 * k
  BY <1>1
<1>3. h * NumBins = 2 * (h * k) /\ h * k \in Nat
  BY <1>2
<1> DEFINE p == h * k
<1>4. p \in Nat /\ h * NumBins = 2 * p
  BY <1>3
<1> HIDE DEF p
<1> QED
  BY <1>4

LEMMA TableIs ==
    ASSUME NEW c \in 11..12
    PROVE  /\ Len(Tables[c]) \in Nat /\ Len(Tables[c]) > 1
           /\ Tables[c][1] = 0 /\ Tables[c][Len(Tables[c])] = NumBins
           /\ \A n \in 1..(Len(Tables[c]) - 1) :
                /\ Tables[c][n] \in Nat /\ Tables[c][n + 1] \in Nat
                /\ Tables[c][n] < Tables[c][n + 1]
                /\ Tables[c][n + 1] - Tables[c][n] = 1 => Tables[c][n] = n - 1
                /\ Tables[c][n + 1] - Tables[c][n] # 1 =>
                     /\ (Tables[c][n + 1] - Tables[c][n]) % 2 = 0
                     /\ Tables[c][n] % 2 = 0
<1>1. c = 11 \/ c = 12
  OBVIOUS
<1> DEFINE t == Tables[c]
<1>2. /\ t \in Seq(Nat) /\ Len(t) > 1
      /\ t[1] = 0 /\ t[Len(t)] = NumBins
      /\ \A n \in 1..(Len(t) - 1) :
            /\ t[n + 1] - t[n] \in 1..255
            /\ IF t[n + 1] - t[n] = 1 THEN t[n] = n - 1
               ELSE (t[n + 1] - t[n]) % 2 = 0 /\ t[n] % 2 = 0
  <2>1. c \in {11, 12}
    BY <1>1
  <2>2. /\ t \in Seq(Nat) /\ Len(t) > 1
        /\ t[1] = 0 /\ t[Len(t)] = NumBins
    BY <2>1, TablesAssumption
  <2>3. \A n \in 1..(Len(t) - 1) :
            /\ t[n + 1] - t[n] \in 1..255
            /\ IF t[n + 1] - t[n] = 1 THEN t[n] = n - 1
               ELSE (t[n + 1] - t[n]) % 2 = 0 /\ t[n] % 2 = 0
    BY <2>1, TablesAssumption, Zenon
  <2> QED
    BY <2>2, <2>3
<1> HIDE DEF t
<1>3. Len(t) \in Nat /\ \A n \in 1..Len(t) : t[n] \in Nat
  BY <1>2
<1>4. ASSUME NEW n \in 1..(Len(t) - 1)
      PROVE  /\ t[n] \in Nat /\ t[n + 1] \in Nat
             /\ t[n] < t[n + 1]
             /\ t[n + 1] - t[n] = 1 => t[n] = n - 1
             /\ t[n + 1] - t[n] # 1 => (t[n + 1] - t[n]) % 2 = 0 /\ t[n] % 2 = 0
  <2>1. n \in 1..Len(t) /\ n + 1 \in 1..Len(t)
    BY <1>2, <1>3
  <2>2. t[n] \in Nat /\ t[n + 1] \in Nat
    BY <1>3, <2>1
  <2>3. /\ t[n + 1] - t[n] \in 1..255
        /\ IF t[n + 1] - t[n] = 1 THEN t[n] = n - 1
           ELSE (t[n + 1] - t[n]) % 2 = 0 /\ t[n] % 2 = 0
    BY <1>2
  <2>4. t[n] < t[n + 1]
    <3>1. \A a, b \in Nat : b - a \in 1..255 => a < b
      OBVIOUS
    <3> QED
      BY <2>2, <2>3, <3>1
  <2> QED
    BY <2>2, <2>3, <2>4
<1> QED
  BY <1>2, <1>3, <1>4 DEF t

LEMMA NumBinsOf ==
    ASSUME NEW c \in Binnings
    PROVE  /\ get_num_bins(c) \in Nat
           /\ c = 0 => get_num_bins(c) = NumBins
           /\ c \in 1..6 => get_num_bins(c) = NumBins \div Size(c)
           /\ c \in 11..12 => get_num_bins(c) = Len(Tables[c]) - 1
<1>1. CASE c = 0
  BY <1>1, SizesAssumption DEF get_num_bins
<1>2. CASE c \in 1..6
  <2>1. get_num_bins(c) = NumBins \div Size(c)
    BY <1>2 DEF get_num_bins, Size
  <2>2. NumBins \div Size(c) \in Nat
    BY <1>2, Sizes
  <2> QED
    BY <1>2, <2>1, <2>2
<1>3. CASE c \in 11..12
  <2>1. get_num_bins(c) = Len(Tables[c]) - 1
    BY <1>3 DEF get_num_bins
  <2> QED
    <3>1. Len(Tables[c]) - 1 \in Nat
      BY <1>3, TableIs
    <3> QED
      BY <1>3, <2>1, <3>1
<1> QED
  BY <1>1, <1>2, <1>3 DEF Binnings

\* The limits of a binning ascend to the end of the histogram.
LEMMA Limits ==
    ASSUME RebinIInv, Active
    PROVE  /\ Cfg \in Binnings
           /\ \A n \in 0..get_num_bins(Cfg) : Limit(n) \in Nat
           /\ \A n \in 0..(get_num_bins(Cfg) - 1) : Limit(n) <= Limit(n + 1)
           /\ Limit(get_num_bins(Cfg)) = NumBins
<1>1. Cfg \in Binnings
  <2>1. i \in 0..(NumHistos - 1)
    BY SizesAssumption DEF RebinIInv, Active
  <2> QED
    BY <2>1 DEF RebinIInv, Cfg
<1>2. CASE Cfg = 0
  <2>1. get_num_bins(Cfg) = NumBins /\ NumBins \in Nat
    BY <1>1, <1>2, NumBinsOf, SizesAssumption
  <2>2. \A n : Limit(n) = n
    BY <1>2 DEF Limit
  <2> QED
    BY <1>1, <2>1, <2>2
<1>3. CASE Cfg \in 1..6
  <2>1. \A n : Limit(n) = n * Size(Cfg)
    BY <1>3 DEF Limit, Size
  <2>2. /\ get_num_bins(Cfg) = NumBins \div Size(Cfg) /\ get_num_bins(Cfg) \in Nat
        /\ (NumBins \div Size(Cfg)) * Size(Cfg) = NumBins /\ Size(Cfg) \in Nat
        /\ \A n \in Nat : n * Size(Cfg) \in Nat /\ (n + 1) * Size(Cfg) = n * Size(Cfg) + Size(Cfg)
    BY <1>1, <1>3, NumBinsOf, Sizes
  <2>3. Limit(get_num_bins(Cfg)) = NumBins
    BY <2>1, <2>2
  <2>4. \A n \in Nat : Limit(n) \in Nat /\ Limit(n) <= Limit(n + 1)
    <3> TAKE n \in Nat
    <3>1. Limit(n) = n * Size(Cfg) /\ Limit(n + 1) = (n + 1) * Size(Cfg)
      BY <2>1
    <3>2. n * Size(Cfg) \in Nat /\ (n + 1) * Size(Cfg) = n * Size(Cfg) + Size(Cfg)
      BY <2>2
    <3> DEFINE a == n * Size(Cfg)
               b == (n + 1) * Size(Cfg)
    <3>3. a \in Nat /\ b = a + Size(Cfg) /\ Size(Cfg) \in Nat
      BY <2>2, <3>2
    <3> HIDE DEF a, b
    <3>4. a <= b
      BY <3>3
    <3> QED
      BY <3>1, <3>3, <3>4 DEF a, b
  <2>5. /\ \A n \in 0..get_num_bins(Cfg) : n \in Nat
        /\ \A n \in 0..(get_num_bins(Cfg) - 1) : n \in Nat
    BY <2>2
  <2> QED
    BY <1>1, <2>3, <2>4, <2>5
<1>4. CASE Cfg \in 11..12
  <2> DEFINE t == Tables[Cfg]
  <2>1. \A n : Limit(n) = t[n + 1]
    BY <1>4 DEF Limit
  <2>2. get_num_bins(Cfg) = Len(t) - 1
    BY <1>1, <1>4, NumBinsOf
  <2>3. /\ Len(t) \in Nat /\ Len(t) > 1 /\ t[Len(t)] = NumBins
        /\ \A n \in 1..(Len(t) - 1) : t[n] \in Nat /\ t[n + 1] \in Nat /\ t[n] < t[n + 1]
    BY <1>4, TableIs
  <2> HIDE DEF t
  <2>4. \A n \in 0..(Len(t) - 2) :
            Limit(n) \in Nat /\ Limit(n + 1) \in Nat /\ Limit(n) <= Limit(n + 1)
    <3> TAKE n \in 0..(Len(t) - 2)
    <3>1. n + 1 \in 1..(Len(t) - 1)
      BY <2>3
    <3>2. t[n + 1] \in Nat /\ t[(n + 1) + 1] \in Nat /\ t[n + 1] < t[(n + 1) + 1]
      BY <2>3, <3>1
    <3> QED
      BY <2>1, <3>2
  <2>5. Limit(Len(t) - 1) = NumBins /\ NumBins \in Nat
    <3>1. (Len(t) - 1) + 1 = Len(t)
      BY <2>3
    <3> QED
      BY <2>1, <2>3, <3>1, SizesAssumption
  <2>6. \A n \in 0..(Len(t) - 1) : Limit(n) \in Nat
    <3> TAKE n \in 0..(Len(t) - 1)
    <3>1. n \in 0..(Len(t) - 2) \/ n = Len(t) - 1
      BY <2>3
    <3> QED
      BY <2>4, <2>5, <3>1
  <2>7. \A n \in 0..(get_num_bins(Cfg) - 1) : n \in 0..(Len(t) - 2)
    BY <2>2, <2>3
  <2>8. \A n \in 0..(get_num_bins(Cfg) - 1) : Limit(n) <= Limit(n + 1)
    BY <2>4, <2>7
  <2>9. \A n \in 0..get_num_bins(Cfg) : Limit(n) \in Nat
    BY <2>2, <2>6
  <2>10. Limit(get_num_bins(Cfg)) = NumBins
    BY <2>2, <2>5
  <2> QED
    BY <1>1, <2>8, <2>9, <2>10
<1> QED
  BY <1>1, <1>2, <1>3, <1>4 DEF Binnings

\* A bin is written: the next one begins where it ends.
LEMMA EmitKeeps ==
    ASSUME RebinIInv, Active, j < get_num_bins(Cfg),
           i' = i, bin_cfgs' = bin_cfgs, j' = j + 1,
           emitted'.bins = i * NumBins + Limit(j) .. i * NumBins + Limit(j + 1) - 1,
           Position'
    PROVE  RebinIInv'
<1>1. i \in Nat /\ j \in Nat /\ get_num_bins(Cfg) \in Nat
  BY Limits, NumBinsOf DEF RebinIInv
<1>2. j \in 0..(get_num_bins(Cfg) - 1) /\ j + 1 \in 0..get_num_bins(Cfg)
      /\ j \in 0..get_num_bins(Cfg)
  BY <1>1
<1>3. Limit(j) \in Nat /\ Limit(j + 1) \in Nat /\ Limit(j) <= Limit(j + 1)
  BY <1>2, Limits
<1>4. Below(i, Limit(j + 1)) \ Below(i, Limit(j)) = emitted'.bins
  BY <1>1, <1>3, BinsBetween
<1>5. j + 1 = get_num_bins(Cfg) => Limit(j + 1) = NumBins
  BY Limits
<1>6. j' - 1 = j
  BY <1>1
<1>7. Cfg' = Cfg /\ \A n : Limit(n)' = Limit(n)
  BY DEF Cfg, Limit
<1>8. BinsPartition'
  <2>1. Limit(j)' = Limit(j + 1) /\ Limit(j - 1)' = Limit(j)
    BY <1>6, <1>7 DEF Limit, Cfg
  <2>2. get_num_bins(Cfg)' = get_num_bins(Cfg)
    BY <1>7 DEF get_num_bins
  <2> QED
    BY <1>4, <1>5, <2>1, <2>2 DEF BinsPartition, Below
<1>9. i' \in Nat /\ j' \in Nat /\ \A h \in 0..(NumHistos - 1) : bin_cfgs'[h] \in Binnings
  BY <1>1 DEF RebinIInv
<1> QED
  BY <1>8, <1>9 DEF RebinIInv

LEMMA CopyKeeps == ASSUME RebinIInv, Copy PROVE RebinIInv'
<1> DEFINE base == i * NumBins
<1>1. /\ Active /\ Cfg = 0 /\ j < NumBins
      /\ emitted'.bins = {2 * data_idx + (j % 2)} /\ j' = j + 1
      /\ data_idx' = data_idx + (j % 2)
      /\ UNCHANGED <<bin_cfgs, i>>
  BY DEF Copy, PlainBins, Emit
<1>2. /\ i \in Nat /\ j \in Nat /\ data_idx = start_idx + j \div 2
  BY <1>1 DEF RebinIInv, Position
<1>3. get_num_bins(Cfg) = NumBins /\ NumBins \in Nat
  BY <1>1, SizesAssumption DEF get_num_bins
<1>4. base \in Nat /\ start_idx \in Nat /\ 2 * start_idx = base
  BY <1>2, StartsWithWord DEF start_idx
<1>5. \A n : Limit(n) = n
  BY <1>1 DEF Limit
<1> HIDE DEF base
<1>6. 2 * data_idx + (j % 2) = base + j
  BY <1>2, <1>4
<1>7. base + j .. base + (j + 1) - 1 = {base + j}
  BY <1>2, <1>4
<1>8. emitted'.bins = base + Limit(j) .. base + Limit(j + 1) - 1
  BY <1>1, <1>5, <1>6, <1>7
<1>9. data_idx' = start_idx + (j + 1) \div 2
  <2> DEFINE start == start_idx
  <2>1. start \in Nat /\ data_idx = start + j \div 2
    BY <1>2, <1>4
  <2> HIDE DEF start
  <2>2. start + j \div 2 + (j % 2) = start + (j + 1) \div 2
    BY <1>2, <2>1
  <2> QED
    BY <1>1, <2>1, <2>2 DEF start
<1>10. Position'
  <2>1. Cfg' = 0 /\ start_idx' = start_idx /\ get_num_bins(Cfg)' = NumBins
    BY <1>1, <1>3 DEF Cfg, start_idx, get_num_bins
  <2>2. j + 1 <= NumBins
    BY <1>1, <1>2, <1>3
  <2> QED
    BY <1>1, <1>9, <2>1, <2>2 DEF Position
<1> QED
  BY <1>1, <1>3, <1>8, <1>10, EmitKeeps DEF base

LEMMA EqualKeeps == ASSUME RebinIInv, EqualBin PROVE RebinIInv'
<1> DEFINE base == i * NumBins
           s == Size(Cfg)
           words == ((j + 1) * s) \div 2 - (j * s) \div 2
<1>1. /\ Active /\ Cfg \in 1..6 /\ j < get_num_bins(Cfg)
      /\ emitted'.bins = WordBins(data_idx, data_idx + words) /\ j' = j + 1
      /\ data_idx' = data_idx + words
      /\ UNCHANGED <<bin_cfgs, i>>
  BY DEF EqualBin, Emit
<1>2. /\ i \in Nat /\ j \in Nat /\ data_idx = start_idx + (j * s) \div 2
      /\ get_num_bins(Cfg) \in Nat
  BY <1>1, Limits, NumBinsOf DEF RebinIInv, Position
<1>3. base \in Nat /\ start_idx \in Nat /\ 2 * start_idx = base
  BY <1>2, StartsWithWord DEF start_idx
<1>4. \A n : Limit(n) = n * s
  BY <1>1 DEF Limit, Size
<1> DEFINE a == j * s
           b == (j + 1) * s
<1>5. a \in Nat /\ b \in Nat /\ 2 * (a \div 2) = a /\ 2 * (b \div 2) = b
  <2>1. j \in Nat /\ j + 1 \in Nat
    BY <1>2
  <2>2. \A n \in Nat : n * s \in Nat /\ 2 * ((n * s) \div 2) = n * s
    BY <1>1, Sizes
  <2> HIDE DEF s
  <2> QED
    BY <2>1, <2>2
<1>6. words = b \div 2 - a \div 2
  OBVIOUS
<1> HIDE DEF base, s, words, a, b
<1>7. /\ 2 * data_idx = base + a
      /\ 2 * (data_idx + words) = base + b
      /\ data_idx + words = start_idx + b \div 2
  <2> DEFINE start == start_idx
  <2>1. start \in Nat /\ data_idx = start + a \div 2 /\ 2 * start = base
    BY <1>2, <1>3 DEF a
  <2> HIDE DEF start
  <2>2. data_idx + words = start + b \div 2
    BY <1>5, <1>6, <2>1
  <2>3. /\ 2 * data_idx = base + a
        /\ 2 * (data_idx + words) = base + b
    BY <1>5, <2>1, <2>2
  <2> QED
    BY <2>2, <2>3 DEF start
<1>8. emitted'.bins = base + Limit(j) .. base + Limit(j + 1) - 1
  <2> DEFINE lo == 2 * data_idx
             hi == 2 * (data_idx + words)
  <2>1. emitted'.bins = lo .. hi - 1
    BY <1>1 DEF WordBins
  <2>2. Limit(j) = a /\ Limit(j + 1) = b
    BY <1>4 DEF a, b
  <2>3. lo = base + a /\ hi = base + b
    BY <1>7
  <2> HIDE DEF lo, hi
  <2> QED
    BY <1>3, <1>5, <2>1, <2>2, <2>3
<1>9. Position'
  <2>1. /\ Cfg' = Cfg /\ start_idx' = start_idx /\ Size(Cfg)' = s
        /\ get_num_bins(Cfg)' = get_num_bins(Cfg)
    BY <1>1 DEF Cfg, start_idx, get_num_bins, Size, s
  <2>2. j + 1 <= get_num_bins(Cfg)
    BY <1>1, <1>2
  <2>3. data_idx' = start_idx + ((j + 1) * s) \div 2
    BY <1>1, <1>7 DEF b
  <2>4. Cfg # 0 /\ Cfg \notin 11..12
    BY <1>1
  <2> QED
    BY <1>1, <2>1, <2>2, <2>3, <2>4 DEF Position
<1> QED
  BY <1>1, <1>8, <1>9, EmitKeeps DEF base

\* Where a log-scale bin lies.
LEMMA LogBinIs ==
    ASSUME RebinIInv, LogDue
    PROVE  /\ Active /\ Cfg \in 11..12 /\ j < get_num_bins(Cfg)
           /\ i \in Nat /\ j \in Nat /\ get_num_bins(Cfg) \in Nat
           /\ i * NumBins \in Nat /\ start_idx \in Nat /\ 2 * start_idx = i * NumBins
           /\ from \in Nat /\ to \in Nat /\ from < to
           /\ Limit(j) = from /\ Limit(j + 1) = to
           /\ carry_over = from % 2
           /\ to - from = 1 => from = j
<1>1. Active /\ Cfg \in 11..12 /\ j < get_num_bins(Cfg)
  BY DEF LogDue
<1>2. /\ i \in Nat /\ j \in Nat /\ get_num_bins(Cfg) \in Nat
      /\ carry_over = from % 2
      /\ get_num_bins(Cfg) = Len(Tables[Cfg]) - 1
  BY <1>1, Limits, NumBinsOf DEF RebinIInv, Position, from
<1>3. i * NumBins \in Nat /\ start_idx \in Nat /\ 2 * start_idx = i * NumBins
  BY <1>2, StartsWithWord DEF start_idx
<1>4. j + 1 \in 1..(Len(Tables[Cfg]) - 1) /\ (j + 1) + 1 = j + 2 /\ (j + 1) - 1 = j
  BY <1>1, <1>2
<1>5. Limit(j) = from /\ Limit(j + 1) = to
  BY <1>1, <1>4 DEF Limit, from, to
<1>6. /\ from \in Nat /\ to \in Nat /\ from < to
      /\ to - from = 1 => from = j
  BY <1>1, <1>4, TableIs DEF from, to
<1> QED
  BY <1>1, <1>2, <1>3, <1>5, <1>6

\* What a log-scale bin is to leave behind.
LEMMA LogKeeps ==
    ASSUME RebinIInv, LogDue, i' = i, bin_cfgs' = bin_cfgs, j' = j + 1,
           emitted'.bins = i * NumBins + from .. i * NumBins + to - 1,
           carry_over' = to % 2
    PROVE  RebinIInv'
<1>1. /\ Active /\ Cfg \in 11..12 /\ j < get_num_bins(Cfg)
      /\ j \in Nat /\ get_num_bins(Cfg) \in Nat
      /\ Limit(j) = from /\ Limit(j + 1) = to
  BY LogBinIs
<1>2. Position'
  <2>1. Cfg' = Cfg /\ get_num_bins(Cfg)' = get_num_bins(Cfg)
    BY DEF Cfg, get_num_bins
  <2>2. j + 1 <= get_num_bins(Cfg) /\ (j + 1) + 1 = j + 2
    BY <1>1
  <2>3. Cfg # 0 /\ Cfg \notin 1..6
    BY <1>1
  <2> QED
    BY <2>1, <2>2, <2>3 DEF Position, to
<1> QED
  BY <1>1, <1>2, EmitKeeps

LEMMA LogSteps ==
    ASSUME RebinIInv, LogEven \/ LogFirstHalf \/ LogSecondHalf
    PROVE  RebinIInv'
<1> DEFINE base == i * NumBins
           start == start_idx
           a == from
           b == to
<1>1. /\ LogDue /\ j' = j + 1 /\ UNCHANGED <<bin_cfgs, i>>
  BY DEF LogEven, LogFirstHalf, LogSecondHalf, Emit
<1>2. /\ base \in Nat /\ start \in Nat /\ 2 * start = base
      /\ a \in Nat /\ b \in Nat /\ a < b /\ carry_over = a % 2
  BY <1>1, LogBinIs
<1>3. CASE LogEven
  <2>1. /\ carry_over = 0 /\ carry_over' = 0 /\ (b - a) % 2 = 0
        /\ emitted'.bins = WordBins(start + a \div 2, start + b \div 2)
    BY <1>3 DEF LogEven, Emit
  <2> HIDE DEF base, start, a, b
  <2>2. a % 2 = 0 /\ b % 2 = 0
    BY <1>2, <2>1
  <2>3. 2 * (start + a \div 2) = base + a /\ 2 * (start + b \div 2) = base + b
    BY <1>2, <2>2
  <2>4. emitted'.bins = base + a .. base + b - 1
    <3> DEFINE lo == 2 * (start + a \div 2)
               hi == 2 * (start + b \div 2)
    <3>1. emitted'.bins = lo .. hi - 1
      BY <2>1 DEF WordBins
    <3>2. lo = base + a /\ hi = base + b
      BY <2>3
    <3> HIDE DEF lo, hi
    <3> QED
      BY <1>2, <3>1, <3>2
  <2> QED
    BY <1>1, <2>1, <2>2, <2>4, LogKeeps DEF base, a, b
<1>4. CASE LogFirstHalf
  <2>1. /\ carry_over = 0 /\ carry_over' = 1 /\ b - a = 1
        /\ emitted'.bins = {2 * (start + a \div 2)}
    BY <1>4 DEF LogFirstHalf, Emit
  <2> HIDE DEF base, start, a, b
  <2>2. a % 2 = 0 /\ b = a + 1 /\ b % 2 = 1
    BY <1>2, <2>1
  <2>3. 2 * (start + a \div 2) = base + a
    BY <1>2, <2>2
  <2>4. emitted'.bins = base + a .. base + b - 1
    <3>1. base + b - 1 = base + a
      BY <1>2, <2>2
    <3>2. base + a .. base + a = {base + a}
      BY <1>2
    <3> QED
      BY <2>1, <2>3, <3>1, <3>2
  <2> QED
    BY <1>1, <2>1, <2>2, <2>4, LogKeeps DEF base, a, b
<1>5. CASE LogSecondHalf
  <2>1. /\ carry_over = 1 /\ carry_over' = 0 /\ b - a = 1
        /\ emitted'.bins = {2 * (start + (a - 1) \div 2) + 1}
    BY <1>5 DEF LogSecondHalf, Emit
  <2> HIDE DEF base, start, a, b
  <2>2. a % 2 = 1 /\ b = a + 1 /\ b % 2 = 0
    BY <1>2, <2>1
  <2>3. 2 * (start + (a - 1) \div 2) + 1 = base + a
    BY <1>2, <2>2
  <2>4. emitted'.bins = base + a .. base + b - 1
    <3>1. base + b - 1 = base + a
      BY <1>2, <2>2
    <3>2. base + a .. base + a = {base + a}
      BY <1>2
    <3> QED
      BY <2>1, <2>3, <3>1, <3>2
  <2> QED
    BY <1>1, <2>1, <2>2, <2>4, LogKeeps DEF base, a, b
<1> QED
  BY <1>3, <1>4, <1>5

LEMMA NothingDone == ASSUME NEW c \in 1..6 PROVE (0 * Size(c)) \div 2 = 0
<1>1. Size(c) \in Nat
  BY Sizes
<1>2. 0 * Size(c) = 0 /\ 0 \div 2 = 0
  BY <1>1
<1> QED
  BY <1>2

\* A histogram begins with its first bin, at a word, and with nothing left over.
LEMMA HistoBegins ==
    ASSUME i' \in Nat, j' = 0, carry_over' = 0, data_idx' = start_idx',
           \A h \in 0..(NumHistos - 1) : bin_cfgs'[h] \in Binnings
    PROVE  RebinIInv'
<1>1. ASSUME Active' PROVE Position'
  <2>1. Cfg' \in Binnings
    BY <1>1, SizesAssumption DEF Active, Cfg
  <2>2. get_num_bins(Cfg') \in Nat
    BY <2>1, NumBinsOf
  <2>3. start_idx' \in Nat
    BY StartsWithWord DEF start_idx
  <2>4. Cfg' \in 1..6 => (0 * Size(Cfg')) \div 2 = 0
    BY NothingDone
  <2>5. Cfg' \in 11..12 => Tables[Cfg'][0 + 1] % 2 = 0
    BY TableIs
  <2>6. start_idx' + 0 \div 2 = start_idx' /\ start_idx' + 0 = start_idx'
    <3>1. 0 \div 2 = 0 /\ \A n \in Nat : n + 0 = n
      OBVIOUS
    <3> QED
      BY <2>3, <3>1
  <2>7. /\ 0 <= get_num_bins(Cfg')
        /\ data_idx' = start_idx' + 0 \div 2
        /\ Cfg' \in 1..6 => data_idx' = start_idx' + (0 * Size(Cfg')) \div 2
        /\ Cfg' \in 11..12 => carry_over' = Tables[Cfg'][0 + 1] % 2
    BY <2>2, <2>4, <2>5, <2>6
  <2> QED
    BY <2>7 DEF Position, get_num_bins, Size
<1>2. BinsPartition'
  BY DEF BinsPartition, Emitted
<1> QED
  BY <1>1, <1>2 DEF RebinIInv

LEMMA RebinInvariance == RebinSpec => []RebinIInv
<1>1. ASSUME RebinInit PROVE RebinIInv
  <2>1. /\ i = 0 /\ j = 0 /\ carry_over = 0 /\ data_idx = 0
        /\ \A h \in 0..(NumHistos - 1) : bin_cfgs[h] \in Binnings
    <3>1. PICK raw \in [0..(NumHistos - 1) -> RawCfgs] :
              bin_cfgs = [h \in 0..(NumHistos - 1) |-> Adjusted(raw[h])]
      BY <1>1 DEF RebinInit
    <3>2. \A c \in Nat : Adjusted(c) \in Binnings
      BY DEF Adjusted, Binnings
    <3> QED
      BY <1>1, <3>1, <3>2, RawCfgsAssumption DEF RebinInit
  <2>2. start_idx = 0
    <3>1. 0 * NumBins = 0
      BY SizesAssumption
    <3> QED
      BY <2>1, <3>1 DEF start_idx
  <2>3. ASSUME Active PROVE Position
    <3>1. Cfg \in Binnings
      BY <2>1, <2>3, SizesAssumption DEF Active, Cfg
    <3>2. get_num_bins(Cfg) \in Nat
      BY <3>1, NumBinsOf
    <3>3. Cfg \in 1..6 => (0 * Size(Cfg)) \div 2 = 0
      BY NothingDone
    <3>4. Cfg \in 11..12 => Tables[Cfg][0 + 1] % 2 = 0
      BY TableIs
    <3>5. 0 \div 2 = 0
      OBVIOUS
    <3> QED
      BY <2>1, <2>2, <3>2, <3>3, <3>4, <3>5 DEF Position
  <2> QED
    BY <2>1, <2>3 DEF RebinIInv, BinsPartition, Emitted
<1>2. ASSUME RebinIInv, [RebinNext]_rebinVars PROVE RebinIInv'
  <2>1. CASE NextHisto
    <3>1. /\ i' = i + 1 /\ j' = 0 /\ carry_over' = 0 /\ bin_cfgs' = bin_cfgs
          /\ data_idx' = ((i + 1) * NumBins) \div 2
      BY <2>1 DEF NextHisto
    <3>2. data_idx' = start_idx' /\ i' \in Nat
      BY <1>2, <3>1 DEF start_idx, RebinIInv
    <3> QED
      BY <1>2, <3>1, <3>2, HistoBegins DEF RebinIInv
  <2>2. CASE UNCHANGED rebinVars
    BY <1>2, <2>2 DEF rebinVars, RebinIInv, Active, Position, BinsPartition, Emitted, Cfg,
                      start_idx, Limit
  <2> QED
    BY <1>2, <2>1, <2>2, CopyKeeps, EqualKeeps, LogSteps DEF RebinNext
<1> QED
  BY <1>1, <1>2, PTL DEF RebinSpec

\* The bins of the payload (prep_payload_data) cover the histogram without gap or
\* overlap, for every binning, any tables of the form of main.c, and any number of bins
\* that the widths divide.
THEOREM BinsTile == RebinSpec => []BinsPartition
BY RebinInvariance, PTL DEF RebinIInv
-----------------------------------------------------------------------------
(* The values of the bins, and how many there are. *)

LEMMA IntervalOfNats ==
    ASSUME NEW a \in Nat, NEW b \in Nat PROVE a .. b \in FiniteSubsetsOf(Nat)
<1>1. IsFiniteSet(a .. b)
  BY FS_Interval
<1>2. a .. b \in SUBSET Nat
  OBVIOUS
<1> QED
  BY <1>1, <1>2 DEF FiniteSubsetsOf

\* The limits are those of bins the histogram has.
LEMMA LimitsWithin ==
    ASSUME RebinIInv, Active, NEW n \in 0..get_num_bins(Cfg)
    PROVE  Limit(n) <= NumBins
<1>1. Cfg \in Binnings /\ NumBins \in Nat
  BY Limits, SizesAssumption
<1>2. n \in Nat /\ n <= get_num_bins(Cfg) /\ get_num_bins(Cfg) \in Nat
  BY <1>1, NumBinsOf
<1>3. CASE Cfg = 0
  BY <1>1, <1>2, <1>3, NumBinsOf DEF Limit
<1>4. CASE Cfg \in 1..6
  <2> DEFINE s == Size(Cfg)
             m == NumBins \div s
  <2>1. s \in Nat /\ m \in Nat /\ m * s = NumBins
    BY <1>4, Sizes
  <2>2. Limit(n) = n * s
    BY <1>4 DEF Limit, Size
  <2>3. n <= m
    BY <1>1, <1>2, <1>4, NumBinsOf
  <2> HIDE DEF s, m
  <2>4. n * s <= m * s
    <3>1. PICK d \in Nat : m = n + d
      BY <1>2, <2>1, <2>3
    <3>2. m * s = n * s + d * s /\ n * s \in Nat /\ d * s \in Nat
      BY <1>2, <2>1, <3>1
    <3> DEFINE a == m * s
               b == n * s
               c == d * s
    <3>3. a = b + c /\ b \in Nat /\ c \in Nat
      BY <3>2
    <3> HIDE DEF a, b, c
    <3>4. b <= a
      BY <3>3
    <3> QED
      BY <3>4 DEF a, b
  <2> QED
    BY <2>1, <2>2, <2>4
<1>5. CASE Cfg \in 11..12
  <2> DEFINE t == Tables[Cfg]
             last == Len(Tables[Cfg])
  <2>1. /\ last \in Nat /\ last > 1 /\ t[last] = NumBins
        /\ \A k \in 1..(last - 1) : t[k] \in Nat /\ t[k + 1] \in Nat /\ t[k] < t[k + 1]
    BY <1>5, TableIs
  <2>2. n + 1 \in 1..last /\ Limit(n) = t[n + 1]
    BY <1>1, <1>2, <1>5, NumBinsOf DEF Limit
  <2> HIDE DEF t, last
  <2>3. SUFFICES ASSUME ~ (t[n + 1] <= NumBins) PROVE FALSE
    BY <2>2
  \* The last limit that is too high: the one after it would be higher still.
  <2> DEFINE T == {A \in FiniteSubsetsOf(Nat) :
                     \E k \in 1..last : A = k .. last /\ ~ (t[k] <= NumBins)}
  <2>4. PICK A \in T : \A B \in T : B \subseteq A => B = A
    <3>1. \A k \in 1..last : k .. last \in FiniteSubsetsOf(Nat)
      BY <2>1, IntervalOfNats
    <3>2. n + 1 .. last \in T
      BY <2>2, <2>3, <3>1
    <3>3. T \in SUBSET FiniteSubsetsOf(Nat)
      OBVIOUS
    <3> HIDE DEF T
    <3> QED
      BY <3>2, <3>3, SmallestSet
  <2>5. PICK k \in 1..last : A = k .. last /\ ~ (t[k] <= NumBins)
    OBVIOUS
  <2>6. k # last
    BY <1>1, <2>1, <2>5
  <2>7. k \in 1..(last - 1) /\ k + 1 \in 1..last
    BY <2>1, <2>6
  <2>8. ~ (t[k + 1] <= NumBins)
    BY <1>1, <2>1, <2>5, <2>7
  <2>9. k + 1 .. last \in FiniteSubsetsOf(Nat)
    BY <2>1, <2>7, IntervalOfNats
  <2>10. k + 1 .. last \subseteq A /\ k + 1 .. last # A
    <3>1. k \in A /\ k \notin k + 1 .. last
      BY <2>1, <2>5
    <3>2. k + 1 .. last \subseteq A
      BY <2>1, <2>5
    <3> QED
      BY <3>1, <3>2
  <2> QED
    BY <2>4, <2>7, <2>8, <2>9, <2>10
<1> QED
  BY <1>1, <1>3, <1>4, <1>5 DEF Binnings

\* The bins a bin of the payload stands for have a place in the RAM, with 16 bits.
LEMMA EmittedLies ==
    ASSUME RebinIInv, RebinIInv', Active, j < get_num_bins(Cfg),
           i' = i, bin_cfgs' = bin_cfgs, j' = j + 1,
           NEW r \in DOMAIN Rams
    PROVE  /\ IsFiniteSet(emitted'.bins)
           /\ Cardinality(emitted'.bins) = Limit(j + 1) - Limit(j)
           /\ Limit(j) \in Nat /\ Limit(j + 1) \in Nat
           /\ \A b \in emitted'.bins : Rams[r][b] \in Nat /\ Rams[r][b] < 65536
<1> DEFINE base == i * NumBins
           lo == Limit(j)
           hi == Limit(j + 1)
<1>1. i \in Nat /\ j \in Nat /\ get_num_bins(Cfg) \in Nat
  BY Limits, NumBinsOf DEF RebinIInv
<1>2. j \in 0..(get_num_bins(Cfg) - 1) /\ j + 1 \in 0..get_num_bins(Cfg)
      /\ j \in 0..get_num_bins(Cfg)
  BY <1>1
<1>3. lo \in Nat /\ hi \in Nat /\ lo <= hi /\ hi <= NumBins
  BY <1>2, Limits, LimitsWithin
<1>4. emitted'.bins = base + lo .. base + hi - 1
  <2>1. emitted'.bins = Below(i', Limit(j)') \ Below(i', Limit(j - 1)')
    <3>1. Emitted'
      BY <1>1 DEF Emitted, Active
    <3> QED
      BY <3>1 DEF RebinIInv, BinsPartition
  <2>2. Limit(j)' = Limit(j + 1) /\ Limit(j - 1)' = Limit(j)
    BY <1>1 DEF Limit, Cfg
  <2>3. emitted'.bins = Below(i, hi) \ Below(i, lo)
    BY <2>1, <2>2
  <2> HIDE DEF lo, hi
  <2> QED
    BY <1>1, <1>3, <2>3, BinsBetween
<1>5. base \in Nat /\ base + NumBins <= NumHistos * NumBins
  <2>1. i + 1 <= NumHistos /\ NumHistos \in Nat /\ NumBins \in Nat
    BY <1>1, SizesAssumption DEF Active
  <2>2. PICK d \in Nat : NumHistos = i + 1 + d
    BY <1>1, <2>1
  <2>3. NumHistos * NumBins = i * NumBins + NumBins + d * NumBins /\ d * NumBins \in Nat
    BY <1>1, <2>1, <2>2
  <2>4. i * NumBins \in Nat
    BY <1>1, <2>1
  <2> DEFINE x == d * NumBins
             y == NumHistos * NumBins
  <2>5. y = base + NumBins + x /\ x \in Nat /\ base \in Nat
    BY <2>3, <2>4
  <2> HIDE DEF x, base, y
  <2>6. base + NumBins <= y
    BY <2>1, <2>5
  <2> QED
    BY <2>5, <2>6 DEF y
<1> DEFINE all == NumHistos * NumBins
<1>6. base + NumBins <= all /\ all \in Nat /\ NumBins \in Nat
  BY <1>5, SizesAssumption
<1>7. \A b \in 0..(all - 1) : Rams[r][b] \in Nat /\ Rams[r][b] < 65536
  BY RamsAssumption
<1> HIDE DEF base, lo, hi, all
<1>8. IsFiniteSet(emitted'.bins) /\ Cardinality(emitted'.bins) = hi - lo
  <2>1. base + lo \in Int /\ base + hi - 1 \in Int
    BY <1>3, <1>5
  <2>2. IsFiniteSet(base + lo .. base + hi - 1)
    BY <2>1, FS_Interval
  <2>3. Cardinality(base + lo .. base + hi - 1) =
            IF base + lo > base + hi - 1 THEN 0 ELSE (base + hi - 1) - (base + lo) + 1
    BY <2>1, FS_Interval
  <2> QED
    BY <1>3, <1>4, <1>5, <2>2, <2>3
<1>9. \A b \in emitted'.bins : b \in 0..(all - 1)
  BY <1>3, <1>4, <1>5, <1>6
<1>10. \A b \in emitted'.bins : Rams[r][b] \in Nat /\ Rams[r][b] < 65536
  BY <1>7, <1>9
<1> QED
  BY <1>3, <1>8, <1>10 DEF lo, hi

\* A bin of the payload is an average, of a content the RAM has.
AveragesIInv == ram \in DOMAIN Rams /\ BinsAreAverages

\* A single bin is copied.
LEMMA SingleIsAverage ==
    ASSUME RebinIInv, RebinIInv', Active, j < get_num_bins(Cfg),
           i' = i, bin_cfgs' = bin_cfgs, j' = j + 1,
           ram \in DOMAIN Rams, ram' = ram, NEW k,
           emitted'.bins = {k}, emitted'.val = UInt16(Rams[ram][k])
    PROVE  IsAverage'
<1> DEFINE v == Rams[ram][k]
<1>1. v \in Nat /\ v < 65536
  BY EmittedLies
<1>2. SumFunctionOnSet(Rams[ram], {k}) = v
  BY <1>1, SumOfOne
<1>3. Total(emitted.bins)' = v
  BY <1>2 DEF Total
<1>4. Cardinality(emitted.bins)' = 1
  BY FS_Singleton
<1>5. emitted'.val = v \div 1
  <2>1. emitted'.val = v % 65536
    BY DEF UInt16
  <2> HIDE DEF v
  <2> QED
    BY <1>1, <2>1
<1> QED
  BY <1>3, <1>4, <1>5 DEF IsAverage

\* bin_cfg 0: the half of the word that j selects.
LEMMA CopyAverages ==
    ASSUME RebinIInv, RebinIInv', AveragesIInv, Copy PROVE IsAverage'
<1> DEFINE k == 2 * data_idx + (j % 2)
<1>1. /\ Active /\ Cfg = 0 /\ j < get_num_bins(Cfg)
      /\ i' = i /\ bin_cfgs' = bin_cfgs /\ j' = j + 1 /\ ram' = ram
      /\ emitted'.bins = {k}
      /\ emitted'.val = UInt16(IF j % 2 = 0 THEN Low(data_idx) ELSE High(data_idx))
  BY DEF Copy, PlainBins, Emit, get_num_bins
<1>2. j \in Nat /\ ram \in DOMAIN Rams
  BY DEF RebinIInv, AveragesIInv
<1>3. (IF j % 2 = 0 THEN Low(data_idx) ELSE High(data_idx)) = Rams[ram][k]
  <2>1. CASE j % 2 = 0
    <3>1. data_idx \in Nat
      <4>1. start_idx \in Nat /\ data_idx = start_idx + j \div 2
        BY <1>1, StartsWithWord DEF RebinIInv, Position, start_idx
      <4> QED
        BY <1>2, <4>1
    <3>2. k = 2 * data_idx
      BY <2>1, <3>1
    <3> QED
      BY <2>1, <3>2 DEF Low
  <2>2. CASE j % 2 # 0
    <3>1. j % 2 = 1
      BY <1>2, <2>2
    <3> QED
      BY <2>2, <3>1 DEF High
  <2> QED
    BY <2>1, <2>2
<1> HIDE DEF k
<1> QED
  BY <1>1, <1>2, <1>3, SingleIsAverage

\* The sum of 2^c bins of 16 bits, divided by 2^c, has 16 bits again.
LEMMA EqualAverages ==
    ASSUME RebinIInv, RebinIInv', AveragesIInv, EqualBin PROVE IsAverage'
<1> DEFINE s == Size(Cfg)
           words == ((j + 1) * s) \div 2 - (j * s) \div 2
           B == WordBins(data_idx, data_idx + words)
           sum == SumFunctionOnSet(Rams[ram], B)
<1>1. /\ Active /\ Cfg \in 1..6 /\ j < get_num_bins(Cfg)
      /\ i' = i /\ bin_cfgs' = bin_cfgs /\ j' = j + 1 /\ ram' = ram
      /\ emitted'.bins = B
      /\ emitted'.val = UInt16(sum \div s)
  BY DEF EqualBin, Emit, Words, Total, Size
<1>2. j \in Nat /\ ram \in DOMAIN Rams
  BY DEF RebinIInv, AveragesIInv
<1>3. s \in Nat /\ s > 0 /\ (j + 1) * s = j * s + s /\ j * s \in Nat
  <2>1. s \in Nat \ {0} /\ \A n \in Nat : n * s \in Nat /\ (n + 1) * s = n * s + s
    BY <1>1, Sizes
  <2> HIDE DEF s
  <2> QED
    BY <1>2, <2>1
<1>4. Limit(j + 1) - Limit(j) = s
  <2>1. Limit(j) = j * s /\ Limit(j + 1) = (j + 1) * s
    BY <1>1 DEF Limit, Size
  <2> DEFINE a == j * s
             b == (j + 1) * s
  <2>2. b = a + s /\ a \in Nat
    BY <1>3
  <2> HIDE DEF a, b, s
  <2>3. b - a = s
    BY <1>3, <2>2
  <2> QED
    BY <2>1, <2>3 DEF a, b
<1> HIDE DEF B, s
<1>5. IsFiniteSet(B) /\ Cardinality(B) = s
      /\ \A k \in B : Rams[ram][k] \in Nat /\ Rams[ram][k] < 65536
  BY <1>1, <1>2, <1>4, EmittedLies
<1>6. sum \in Nat
  BY <1>5, SumType
<1>7. sum <= 65535 * s
  <2>1. \A k \in B : Rams[ram][k] \in Nat /\ Rams[ram][k] <= 65535
    <3>1. \A n \in Nat : n < 65536 => n <= 65535
      OBVIOUS
    <3> QED
      BY <1>5, <3>1
  <2>2. 65535 \in Nat
    OBVIOUS
  <2> QED
    BY <1>5, <2>1, <2>2, SumBound
<1>8. (sum \div s) % 65536 = sum \div s
  <2>1. s \in {2, 4, 8, 16, 32, 64}
    <3>1. Cfg = 1 \/ Cfg = 2 \/ Cfg = 3 \/ Cfg = 4 \/ Cfg = 5 \/ Cfg = 6
      BY <1>1
    <3>2. /\ 2^1 = 2 /\ 2^2 = 4 /\ 2^3 = 8 /\ 2^4 = 16 /\ 2^5 = 32 /\ 2^6 = 64
      OBVIOUS
    <3> QED
      BY <3>1, <3>2 DEF s, Size
  <2> HIDE DEF sum
  <2>2. sum \div s \in Nat /\ sum \div s < 65536
    BY <1>6, <1>7, <2>1
  <2> DEFINE q == sum \div s
  <2>3. q \in Nat /\ q < 65536
    BY <2>2
  <2> HIDE DEF q
  <2>4. q % 65536 = q
    BY <2>3
  <2> QED
    BY <2>4 DEF q
<1>9. Total(emitted.bins)' = sum /\ Cardinality(emitted.bins)' = s
  BY <1>1, <1>5 DEF Total
<1> QED
  BY <1>1, <1>8, <1>9 DEF IsAverage, UInt16

\* A log-scale bin of more than one bin is not claimed to be an average.
LEMMA LogAverages ==
    ASSUME RebinIInv, RebinIInv', AveragesIInv, LogEven \/ LogFirstHalf \/ LogSecondHalf
    PROVE  Cardinality(emitted'.bins) = 1 => IsAverage'
<1>1. LogDue /\ i' = i /\ bin_cfgs' = bin_cfgs /\ j' = j + 1 /\ ram' = ram
  BY DEF LogEven, LogFirstHalf, LogSecondHalf, Emit
<1>2. Active /\ j < get_num_bins(Cfg) /\ ram \in DOMAIN Rams
  BY <1>1 DEF LogDue, AveragesIInv
<1>3. CASE LogEven
  <2> DEFINE a == from
             b == to
  <2>1. Cardinality(emitted'.bins) = b - a /\ a \in Nat /\ b \in Nat
    BY <1>1, <1>2, EmittedLies, LogBinIs
  <2>2. (b - a) % 2 = 0
    BY <1>3 DEF LogEven
  <2> HIDE DEF a, b
  <2>3. b - a # 1
    BY <2>1, <2>2
  <2> QED
    BY <2>1, <2>3
<1>4. CASE LogFirstHalf
  <2> DEFINE k == 2 * data_idx'
  <2>1. emitted'.bins = {k} /\ emitted'.val = UInt16(Rams[ram][k])
    BY <1>4 DEF LogFirstHalf, Emit, Single, Low
  <2> HIDE DEF k
  <2> QED
    BY <1>1, <1>2, <2>1, SingleIsAverage
<1>5. CASE LogSecondHalf
  <2> DEFINE k == 2 * data_idx' + 1
  <2>1. emitted'.bins = {k} /\ emitted'.val = UInt16(Rams[ram][k])
    BY <1>5 DEF LogSecondHalf, Emit, High
  <2> HIDE DEF k
  <2> QED
    BY <1>1, <1>2, <2>1, SingleIsAverage
<1> QED
  BY <1>3, <1>4, <1>5

\* A bin of an equal-size re-binning is the average of the bins of the histogram it
\* stands for, and a single bin is the one it stands for (prep_payload_data), for every
\* content of the RAM: no average is cut to 16 bits on its way into the payload.
THEOREM Averages == RebinSpec => []BinsAreAverages
<1>1. ASSUME RebinInit PROVE AveragesIInv
  BY <1>1 DEF RebinInit, AveragesIInv, BinsAreAverages, Emitted
<1>2. ASSUME RebinIInv, RebinIInv', AveragesIInv, [RebinNext]_rebinVars PROVE AveragesIInv'
  <2>1. ram' \in DOMAIN Rams
    BY <1>2 DEF AveragesIInv, RebinNext, rebinVars, Copy, EqualBin, LogEven, LogFirstHalf,
                LogSecondHalf, NextHisto
  <2>2. CASE Copy
    BY <1>2, <2>1, <2>2, CopyAverages DEF AveragesIInv, BinsAreAverages
  <2>3. CASE EqualBin
    BY <1>2, <2>1, <2>3, EqualAverages DEF AveragesIInv, BinsAreAverages
  <2>4. CASE LogEven \/ LogFirstHalf \/ LogSecondHalf
    <3>1. Cfg' \in 11..12
      BY <2>4 DEF LogEven, LogFirstHalf, LogSecondHalf, LogDue, Cfg
    <3>2. ~ (Cfg' < 11)
      BY <3>1
    <3>3. Cardinality(emitted.bins)' = 1 => IsAverage'
      BY <1>2, <2>4, LogAverages
    <3> QED
      BY <2>1, <3>2, <3>3 DEF AveragesIInv, BinsAreAverages
  <2>5. CASE NextHisto
    <3>1. ~ Emitted'
      BY <2>5 DEF NextHisto, Emitted
    <3> QED
      BY <2>1, <3>1 DEF AveragesIInv, BinsAreAverages
  <2>6. CASE UNCHANGED rebinVars
    BY <1>2, <2>6 DEF rebinVars, AveragesIInv, BinsAreAverages, Emitted, Active, Cfg,
                      IsAverage, Total
  <2> QED
    BY <1>2, <2>2, <2>3, <2>4, <2>5, <2>6 DEF RebinNext
<1> QED
  BY <1>1, <1>2, RebinInvariance, PTL DEF RebinSpec, AveragesIInv

\* What the histograms contribute to the payload, in bytes.
Lengths == [h \in DOMAIN bin_cfgs |-> 2 * get_num_bins(bin_cfgs[h])]

\* The bytes written are those of the histograms done and of the bins of this one.
LengthIInv ==
    /\ i <= NumHistos
    /\ DOMAIN bin_cfgs = 0..(NumHistos - 1)
    /\ ~Active => j = 0
    /\ send_idx = SumFunctionOnSet(Lengths, 0..(i - 1)) + 2 * j

\* The next histogram adds its bytes.
LEMMA OneMoreHisto ==
    ASSUME RebinIInv, LengthIInv, Active
    PROVE  SumFunctionOnSet(Lengths, 0..i) =
               2 * get_num_bins(Cfg) + SumFunctionOnSet(Lengths, 0..(i - 1))
<1>1. i \in Nat /\ i \in 0..(NumHistos - 1) /\ NumHistos \in Nat
  BY SizesAssumption DEF RebinIInv, Active
<1>2. \A h \in 0..i : Lengths[h] = 2 * get_num_bins(bin_cfgs[h]) /\ Lengths[h] \in Nat
  <2> TAKE h \in 0..i
  <2>1. h \in 0..(NumHistos - 1)
    BY <1>1
  <2>2. get_num_bins(bin_cfgs[h]) \in Nat
    BY <2>1, NumBinsOf DEF RebinIInv
  <2>3. Lengths[h] = 2 * get_num_bins(bin_cfgs[h])
    BY <2>1 DEF Lengths, LengthIInv
  <2> QED
    BY <2>2, <2>3
<1>3. i \in 0..i /\ (0..i) \ {i} = 0..(i - 1)
  BY <1>1
<1>4. IsFiniteSet(0..i)
  BY <1>1, FS_Interval
<1> HIDE DEF Lengths
<1>5. SumFunctionOnSet(Lengths, 0..i) = Lengths[i] + SumFunctionOnSet(Lengths, (0..i) \ {i})
  <2> DEFINE S == 0..i
  <2>1. IsFiniteSet(S) /\ i \in S
    BY <1>3, <1>4
  <2>2. \A h \in S : Lengths[h] \in Nat
    BY <1>2
  <2> HIDE DEF S
  <2>3. SumFunctionOnSet(Lengths, S) = Lengths[i] + SumFunctionOnSet(Lengths, S \ {i})
    BY <2>1, <2>2, SumTakesOut
  <2> QED
    BY <2>3 DEF S
<1> QED
  BY <1>2, <1>3, <1>5 DEF Cfg

LEMMA LengthsType ==
    ASSUME RebinIInv, LengthIInv
    PROVE  SumFunctionOnSet(Lengths, 0..(i - 1)) \in Nat
<1>1. i \in Nat /\ i <= NumHistos /\ NumHistos \in Nat
  BY SizesAssumption DEF RebinIInv, LengthIInv
<1>2. \A h \in 0..(i - 1) : Lengths[h] \in Nat
  <2> TAKE h \in 0..(i - 1)
  <2>1. h \in 0..(NumHistos - 1)
    BY <1>1
  <2>2. get_num_bins(bin_cfgs[h]) \in Nat
    BY <2>1, NumBinsOf DEF RebinIInv
  <2> QED
    BY <2>1, <2>2 DEF Lengths, LengthIInv
<1>3. IsFiniteSet(0..(i - 1))
  BY <1>1, FS_Interval
<1> QED
  BY <1>2, <1>3, SumType

\* prep_payload_data writes as many bytes as msp_expsend_start announces, for any number
\* of histograms, each with a binning of its own.
THEOREM LengthIsAnnounced == RebinSpec => []LengthAsAnnounced
<1>1. ASSUME RebinInit PROVE LengthIInv
  <2>1. i = 0 /\ j = 0 /\ send_idx = 0 /\ DOMAIN bin_cfgs = 0..(NumHistos - 1)
    BY <1>1 DEF RebinInit
  <2>2. 0..(0 - 1) = {} /\ 0 + 2 * 0 = 0 /\ 0 <= NumHistos
    BY SizesAssumption
  <2>3. SumFunctionOnSet(Lengths, 0..(i - 1)) = 0
    BY <2>1, <2>2, SumOfNone
  <2> QED
    BY <2>1, <2>2, <2>3 DEF LengthIInv
<1>2. ASSUME RebinIInv, LengthIInv, [RebinNext]_rebinVars PROVE LengthIInv'
  <2> DEFINE sum == SumFunctionOnSet(Lengths, 0..(i - 1))
  <2>1. i \in Nat /\ j \in Nat /\ sum \in Nat /\ send_idx = sum + 2 * j
    BY <1>2, LengthsType DEF RebinIInv, LengthIInv
  <2>2. bin_cfgs' = bin_cfgs /\ Lengths' = Lengths
    BY <1>2 DEF RebinNext, rebinVars, Copy, EqualBin, LogEven, LogFirstHalf,
                LogSecondHalf, NextHisto, Lengths, get_num_bins
  <2>3. CASE Copy \/ EqualBin \/ LogEven \/ LogFirstHalf \/ LogSecondHalf
    <3>1. Active /\ i' = i /\ j' = j + 1 /\ send_idx' = send_idx + 2
      BY <2>3 DEF Copy, EqualBin, LogEven, LogFirstHalf, LogSecondHalf, LogDue, Emit
    <3>2. sum' = sum
      BY <2>2, <3>1
    <3> HIDE DEF sum
    <3>3. send_idx' = sum' + 2 * j'
      BY <2>1, <3>1, <3>2
    <3> QED
      BY <1>2, <2>2, <3>1, <3>3 DEF LengthIInv, Active, sum
  <2>4. CASE NextHisto
    <3>1. Active /\ i' = i + 1 /\ j' = 0 /\ send_idx' = send_idx
          /\ j = IF Cfg = 0 THEN PlainBins ELSE get_num_bins(Cfg)
      BY <2>4 DEF NextHisto
    <3>2. j = get_num_bins(Cfg)
      BY <3>1 DEF PlainBins, get_num_bins
    <3>3. i' - 1 = i /\ i' <= NumHistos
      BY <2>1, <3>1, SizesAssumption DEF Active
    <3>4. sum' = 2 * j + sum
      <4>1. sum' = SumFunctionOnSet(Lengths, 0..i)
        BY <2>2, <3>3
      <4> QED
        BY <1>2, <3>1, <3>2, <4>1, OneMoreHisto
    <3> HIDE DEF sum
    <3>5. send_idx' = sum' + 2 * j'
      BY <2>1, <3>1, <3>4
    <3> QED
      BY <1>2, <2>2, <3>1, <3>3, <3>5 DEF LengthIInv, sum
  <2>5. CASE UNCHANGED rebinVars
    BY <1>2, <2>2, <2>5 DEF rebinVars, LengthIInv, Active
  <2> QED
    BY <1>2, <2>3, <2>4, <2>5 DEF RebinNext
<1>3. RebinIInv /\ LengthIInv => LengthAsAnnounced
  <2> SUFFICES ASSUME RebinIInv, LengthIInv, ~Active PROVE send_idx = AnnouncedBytes
    BY DEF LengthAsAnnounced
  <2>1. i = NumHistos /\ j = 0
    BY SizesAssumption DEF RebinIInv, LengthIInv, Active
  <2>2. DOMAIN Lengths = 0..(i - 1)
    BY <2>1 DEF Lengths, LengthIInv
  <2>3. send_idx = SumFunctionOnSet(Lengths, 0..(i - 1))
    BY <2>1, LengthsType DEF LengthIInv
  <2>4. AnnouncedBytes = SumFunctionOnSet(Lengths, DOMAIN Lengths)
    BY DEF AnnouncedBytes, SumFunction, Lengths
  <2> QED
    BY <2>2, <2>3, <2>4
<1> QED
  BY <1>1, <1>2, <1>3, RebinInvariance, PTL DEF RebinSpec
=============================================================================
