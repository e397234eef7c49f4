------------------------------ MODULE SeqFlags ------------------------------
(***************************************************************************)
(* The MSP sequence flags: for every opcode that has a flag position, the  *)
(* transaction-ID of its last successful transaction, if there was one.    *)
(* The code keeps two arrays of bit masks, "inits" and "values"; a mask is *)
(* modelled here as the set of opcodes whose bit is set.                   *)
(***************************************************************************)
EXTENDS Integers

CONSTANT Flagged   \* the opcodes msp_get_flag_pos() finds a position for

\* msp_seqflags_t
Seqflags == [inits : SUBSET Flagged, values : SUBSET Flagged]

BlankSeqflags == [inits |-> {}, values |-> {}]

FlagValue(flags, op) ==
    IF op \in Flagged THEN IF op \in flags.values THEN 1 ELSE 0 ELSE -1

NextFlag(flags, op) ==
    IF op \notin Flagged THEN -1
    ELSE IF op \in flags.inits /\ op \notin flags.values THEN 1 ELSE 0

FlagIsSet(flags, op, flag) ==
    /\ op \in Flagged
    /\ op \in flags.inits
    /\ FlagValue(flags, op) = flag

SetFlag(flags, op, flag) ==
    IF op \notin Flagged THEN flags
    ELSE [inits  |-> flags.inits \cup {op},
          values |-> IF flag = 0 THEN flags.values \ {op}
                                 ELSE flags.values \cup {op}]
=============================================================================
