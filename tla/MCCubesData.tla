---------------------------- MODULE MCCubesData ----------------------------
(* Two DAQs of two seconds, the shortest that is prepared for certain, and    *)
(* payloads of one or two frames.  With MCOneSecond as Durations              *)
(* PayloadPrepared does not hold: see the README.  MCTwoOrThree has three     *)
(* times the states and shows no more.                                        *)
EXTENDS CubesData

MCDurations == {2}
MCTwoOrThree == {2, 3}
MCOneSecond == {1}
MCBinCfgs == {1, 2}
=============================================================================
