------------------------------ MODULE SeqWords ------------------------------
(***************************************************************************)
(* The sequence flags as they are kept (msp_seqflags.c): four words of     *)
(* values and four of inits, sixteen flags in each, and the word and bit   *)
(* of an opcode.  These are the bytes that are saved in the eNVM.          *)
(*                                                                         *)
(* A word is the set of its bits that are 1.  An opcode has seven bits:    *)
(* the eighth of its byte in a frame is the frame-ID.                      *)
(***************************************************************************)
EXTENDS Integers

Opcodes == 0..127

\* MSP_OP_IS_CUSTOM, and MSP_OP_TYPE as 0 to 3.
IsCustom(op) == op % 128 >= 80
Type(op) == (op \div 16) % 4

\* Of the standard opcodes only these have a flag, all in the first word.
ACTIVE == 16
SLEEP == 17
POWER_OFF == 18
REQ_PAYLOAD == 32
REQ_HK == 33
REQ_PUS == 34
SEND_TIME == 48
SEND_PUS == 49

Standard == {ACTIVE, SLEEP, POWER_OFF, REQ_PAYLOAD, REQ_HK, REQ_PUS, SEND_TIME, SEND_PUS}

StandardBit(op) ==
    CASE op = ACTIVE      -> 0
      [] op = SLEEP       -> 1
      [] op = POWER_OFF   -> 2
      [] op = REQ_PAYLOAD -> 3
      [] op = REQ_HK      -> 4
      [] op = REQ_PUS     -> 5
      [] op = SEND_TIME   -> 6
      [] op = SEND_PUS    -> 7

\* The opcodes whose mask is not 0.
Flagged == {op \in Opcodes : IsCustom(op) \/ op \in Standard}

\* msp_get_flag_pos: index and mask of a flagged opcode.
Index(op) == IF IsCustom(op) THEN Type(op) ELSE 0
Bit(op) == IF IsCustom(op) THEN op % 16 ELSE StandardBit(op)
-----------------------------------------------------------------------------
Words == [0..3 -> SUBSET (0..15)]

\* msp_seqflags_t
Seqflags == [values : Words, inits : Words]

msp_seqflags_init == [values |-> [n \in 0..3 |-> {}], inits |-> [n \in 0..3 |-> {}]]

IsInit(flags, op) == Bit(op) \in flags.inits[Index(op)]
IsOne(flags, op) == Bit(op) \in flags.values[Index(op)]

msp_seqflags_get(flags, op) ==
    IF op \notin Flagged THEN -1 ELSE IF IsOne(flags, op) THEN 1 ELSE 0

msp_seqflags_get_next(flags, op) ==
    IF op \notin Flagged THEN -1
    ELSE IF ~IsInit(flags, op) THEN 0
    ELSE IF IsOne(flags, op) THEN 0 ELSE 1

msp_seqflags_is_set(flags, op, flag) ==
    /\ op \in Flagged
    /\ IsInit(flags, op)
    /\ (IF flag = 0 THEN 0 ELSE 1) = msp_seqflags_get(flags, op)

msp_seqflags_set(flags, op, flag) ==
    IF op \notin Flagged THEN flags
    ELSE [inits  |-> [flags.inits EXCEPT ![Index(op)] = @ \cup {Bit(op)}],
          values |-> [flags.values EXCEPT ![Index(op)] =
                         IF flag = 0 THEN @ \ {Bit(op)} ELSE @ \cup {Bit(op)}]]
-----------------------------------------------------------------------------
\* The same flags as sets of opcodes, which is how the other modules have them.
Sets == INSTANCE SeqFlags

OpcodesOf(words) == {op \in Flagged : Bit(op) \in words[Index(op)]}

AsSets(flags) == [inits |-> OpcodesOf(flags.inits), values |-> OpcodesOf(flags.values)]
=============================================================================
