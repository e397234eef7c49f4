------------------------- MODULE PowerCycle_proofs -------------------------
(***************************************************************************)
(* Proofs about the sequence flags across power cycles, for any flagged    *)
(* opcodes, any failures of the saving and the marking, and any supply.    *)
(*                                                                         *)
(* The OBC is silent during the boot and after POWER_OFF, and the clean    *)
(* mark can be cleared: without the one or the other the properties fail.  *)
(*                                                                         *)
(* That nothing is carried out twice follows a lost flag to its cause: the *)
(* boot takes blank flags only if the mark is missing, which it is after a *)
(* POWER_OFF that could not be saved and marked or a power cut without     *)
(* one, unless the OBC waits for no command.                               *)
(***************************************************************************)
EXTENDS PowerCycle, TLAPS

Orderly == {"boot", "power_off"} \subseteq Silent /\ "clear" \notin NvmFails

USE NothingAssumption, PowerOffAssumption
USE DEF Nothing, Booting, PoweringOff, PoweredOff, loop

(* msp_seqflags_set returns a set of sequence flags. *)
LEMMA SetFlagType ==
    ASSUME NEW flags \in Seqflags, NEW op, NEW flag
    PROVE  SetFlag(flags, op, flag) \in Seqflags
BY DEF SetFlag, Seqflags

(* After msp_seqflags_set, msp_seqflags_is_set finds that value and no other. *)
LEMMA SetFlagIsSet ==
    ASSUME NEW flags \in Seqflags, NEW op \in Flagged, NEW flag \in {0, 1}
    PROVE  /\ FlagIsSet(SetFlag(flags, op, flag), op, flag)
           /\ ~FlagIsSet(SetFlag(flags, op, flag), op, 1 - flag)
BY DEF SetFlag, FlagIsSet, FlagValue, Seqflags

(* Setting the flag of an opcode leaves every other flag alone. *)
LEMMA SetFlagOthers ==
    ASSUME NEW flags \in Seqflags, NEW op, NEW flag, NEW other, other # op
    PROVE  /\ other \in SetFlag(flags, op, flag).inits <=> other \in flags.inits
           /\ other \in SetFlag(flags, op, flag).values <=> other \in flags.values
BY DEF SetFlag, Seqflags

(* A flag of blank flags is not set. *)
LEMMA BlankIsNotSet ==
    /\ BlankSeqflags \in Seqflags
    /\ \A op, id : ~FlagIsSet(BlankSeqflags, op, id)
BY DEF BlankSeqflags, Seqflags, FlagIsSet

(* A flag is not set to two values. *)
LEMMA OneValue ==
    ASSUME NEW flags, NEW op, NEW id \in 0..1, FlagIsSet(flags, op, id)
    PROVE  ~FlagIsSet(flags, op, 1 - id)
BY DEF FlagIsSet

(* Setting the flag of one opcode does not set that of another. *)
LEMMA OthersNotSet ==
    ASSUME NEW flags \in Seqflags, NEW op, NEW flag, NEW other, other # op, NEW id,
           FlagIsSet(SetFlag(flags, op, flag), other, id)
    PROVE  FlagIsSet(flags, other, id)
BY SetFlagOthers DEF FlagIsSet, FlagValue

(* The first power-on satisfies the invariant. *)
LEMMA PowerInitIInv == PowerInit => PowerIInv
<1> SUFFICES ASSUME PowerInit PROVE PowerIInv
  OBVIOUS
<1> USE DEF PowerInit
<1>1. PowerTypeOK
  <2>1. initialized \in BOOLEAN /\ has_power_off \in BOOLEAN /\ clean \in BOOLEAN
        /\ told \in BOOLEAN /\ off_done \in BOOLEAN /\ unmarked \in BOOLEAN
    OBVIOUS
  <2>2. at \in Booting \cup {"off", "run", "save", "mark", "done"}
    OBVIOUS
  <2>3. /\ pending \in Flagged \cup {Nothing}
        /\ obcNext \in [Flagged -> 0..1]
        /\ times \in 0..2 /\ supply \in Supplies
    OBVIOUS
  <2> QED
    BY <2>1, <2>2, <2>3, BlankIsNotSet DEF PowerTypeOK
<1>2. FlagsInRam /\ MarkIsTrue /\ NothingNew
  BY DEF FlagsInRam, MarkIsTrue, NothingNew
<1>3. IdsAgree
  BY BlankIsNotSet DEF IdsAgree
<1>4. NothingForgotten /\ CarriedOutOnceOnly
  BY DEF NothingForgotten, CarriedOutOnceOnly
<1> QED
  BY <1>1, <1>2, <1>3, <1>4 DEF PowerIInv

(* A transaction preserves the invariant: it happens only while the loop     *)
(* runs, with the flags in RAM, and after POWER_OFF it is a repetition.      *)
LEMMA TransactIInv ==
    ASSUME Orderly, PowerIInv, Transact
    PROVE  PowerIInv'
<1> DEFINE id == obcNext[pending]
           Known == FlagIsSet(seqflags, pending, id)
<1> USE DEF PowerIInv
<1>1. /\ at \in {"run", "save", "mark", "done"}
      /\ pending \in Flagged /\ id \in 0..1
      /\ Current = seqflags /\ seqflags = truth /\ initialized
  BY DEF Transact, MayRepeat, Orderly, PowerTypeOK, FlagsInRam, Current
<1>2. /\ supply' = supply /\ at' = at /\ saved' = saved /\ clean' = clean
      /\ off_done' = off_done /\ unmarked' = unmarked
      /\ initialized' = TRUE
      /\ told' = (told \/ pending = "POWER_OFF")
  BY DEF Transact, nvm
<1>3. Known => UNCHANGED <<seqflags, truth, times, has_power_off>>
  BY <1>1 DEF Transact
<1>4. ~Known => /\ seqflags' = SetFlag(seqflags, pending, id)
                /\ truth' = SetFlag(truth, pending, id)
                /\ times' = IF times < 2 THEN times + 1 ELSE 2
                /\ has_power_off' = (has_power_off \/ pending = "POWER_OFF")
  BY <1>1 DEF Transact, CarryOut
<1>5. \/ pending' = Nothing /\ obcNext' = [obcNext EXCEPT ![pending] = 1 - @]
      \/ UNCHANGED <<pending, obcNext>>
  BY DEF Transact
<1>6. told => pending = "POWER_OFF"
  BY <1>1 DEF NothingNew
<1>7. /\ FlagIsSet(truth', pending, id)
      /\ \A op \in Flagged : op # pending =>
           (FlagIsSet(truth', op, obcNext[op]) => FlagIsSet(truth, op, obcNext[op]))
      /\ truth' \in Seqflags
  <2>1. CASE Known
    BY <1>1, <1>3, <2>1 DEF PowerTypeOK
  <2>2. CASE ~Known
    BY <1>1, <1>4, <2>2, SetFlagType, SetFlagIsSet, OthersNotSet DEF PowerTypeOK
  <2> QED
    BY <2>1, <2>2
<1>8. times' \in 0..2 /\ times' > 0 /\ has_power_off' \in BOOLEAN
  <2>1. Known => times > 0
    BY <1>1 DEF IdsAgree
  <2>2. times' \in 0..2 /\ times' > 0
    BY <2>1, <1>3, <1>4 DEF PowerTypeOK
  <2>3. has_power_off' \in BOOLEAN
    BY <1>3, <1>4 DEF PowerTypeOK
  <2> QED
    BY <2>2, <2>3
<1>9. PowerTypeOK'
  BY <1>1, <1>2, <1>3, <1>4, <1>5, <1>7, <1>8 DEF PowerTypeOK
<1>10. FlagsInRam'
  BY <1>1, <1>2, <1>3, <1>4 DEF FlagsInRam
<1>11. PoweringOff => Known
  BY <1>1, <1>6 DEF NothingNew
<1>12. MarkIsTrue'
  BY <1>1, <1>2, <1>3, <1>11 DEF MarkIsTrue
<1>13. NothingNew'
  <2>1. told' => pending' \in {Nothing, "POWER_OFF"}
    BY <1>2, <1>5, <1>6
  <2>2. PoweringOff' => told'
    BY <1>1, <1>2, <1>3, <1>4, <1>6 DEF NothingNew
  <2>3. pending' = "POWER_OFF" => FlagIsSet(truth', "POWER_OFF", obcNext'["POWER_OFF"])
    BY <1>5, <1>7
  <2> QED
    BY <1>1, <1>2, <2>1, <2>2, <2>3 DEF NothingNew
<1>14. IdsAgree'
  <2> SUFFICES ASSUME NEW op \in Flagged, FlagIsSet(truth', op, obcNext'[op])
               PROVE  pending' = op /\ times' > 0
    BY DEF IdsAgree
  <2>1. op = pending
    <3> SUFFICES ASSUME op # pending PROVE FALSE
      OBVIOUS
    <3>1. obcNext'[op] = obcNext[op]
      BY <1>5 DEF PowerTypeOK
    <3> QED
      BY <3>1, <1>7 DEF IdsAgree
  <2>2. pending' = pending
    <3> SUFFICES ASSUME pending' # pending PROVE FALSE
      OBVIOUS
    <3>1. obcNext'[pending] = 1 - id
      BY <1>1, <1>5 DEF PowerTypeOK
    <3> QED
      BY <3>1, <2>1, <1>1, <1>7, OneValue
  <2> QED
    BY <2>1, <2>2, <1>8
<1>15. NothingForgotten'
  BY <1>1, <1>2, <1>5, <1>7 DEF NothingForgotten
<1>16. CarriedOutOnceOnly'
  <2>1. times > 0 => unmarked \/ Known
    BY <1>1 DEF NothingForgotten
  <2>2. times' > 1 => unmarked'
    BY <2>1, <1>2, <1>3, <1>4 DEF CarriedOutOnceOnly, PowerTypeOK
  <2>3. supply' = "steady" /\ unmarked' => pending' \in {Nothing, "POWER_OFF"}
    BY <1>2, <1>5 DEF NothingForgotten
  <2> QED
    BY <2>2, <2>3 DEF CarriedOutOnceOnly
<1> QED
  BY <1>9, <1>10, <1>12, <1>13, <1>14, <1>15, <1>16

(* A command the OBC gives preserves the invariant: it is under an ID that is *)
(* not set, and none is given after POWER_OFF.                                *)
LEMMA GiveCommandIInv ==
    ASSUME Orderly, PowerIInv, NEW op \in Flagged, GiveCommand(op)
    PROVE  PowerIInv'
<1> USE DEF PowerIInv
<1>1. /\ UNCHANGED <<supply, at, initialized, seqflags, has_power_off, off_done, saved,
                      clean, obcNext, truth>>
      /\ pending = Nothing /\ pending' = op /\ times' = 0 /\ unmarked' = FALSE
      /\ ~told /\ told' = (op = "POWER_OFF")
      /\ at \in {"run", "save", "mark", "done"}
  BY DEF GiveCommand, MayGive, Orderly, nvm, PowerTypeOK
<1>2. ~PoweringOff
  BY <1>1 DEF NothingNew
<1>3. PowerTypeOK'
  <2>1. told' \in BOOLEAN /\ unmarked' \in BOOLEAN
    BY <1>1
  <2>2. initialized' \in BOOLEAN /\ has_power_off' \in BOOLEAN /\ clean' \in BOOLEAN
        /\ off_done' \in BOOLEAN
    BY <1>1 DEF PowerTypeOK
  <2>3. at' = at /\ seqflags' = seqflags /\ saved' = saved /\ truth' = truth
        /\ obcNext' = obcNext /\ supply' = supply
    BY <1>1
  <2> QED
    BY <1>1, <2>1, <2>2, <2>3 DEF PowerTypeOK
<1>4. FlagsInRam' /\ MarkIsTrue'
  BY <1>1 DEF FlagsInRam, MarkIsTrue
<1>5. NothingNew'
  BY <1>1, <1>2 DEF NothingNew
<1>6. IdsAgree'
  BY <1>1 DEF IdsAgree
<1>7. NothingForgotten' /\ CarriedOutOnceOnly'
  BY <1>1, <1>2 DEF NothingForgotten, CarriedOutOnceOnly
<1> QED
  BY <1>3, <1>4, <1>5, <1>6, <1>7

(* Power preserves the invariant: cut without a mark it leaves a POWER_OFF   *)
(* that was not saved or marked, no command, or a history of the cut.        *)
LEMMA PowerSupplyIInv ==
    ASSUME PowerIInv, PowerOn \/ PowerFails
    PROVE  PowerIInv'
<1> USE DEF PowerIInv, nvm, obc, history
<1>1. CASE PowerOn
  <2>1. PowerTypeOK'
    BY <1>1 DEF PowerOn, PowerTypeOK
  <2>2. FlagsInRam' /\ MarkIsTrue' /\ NothingNew'
    BY <1>1 DEF PowerOn, FlagsInRam, MarkIsTrue, NothingNew
  <2>3. IdsAgree' /\ NothingForgotten' /\ CarriedOutOnceOnly'
    BY <1>1 DEF PowerOn, IdsAgree, NothingForgotten, CarriedOutOnceOnly
  <2> QED
    BY <2>1, <2>2, <2>3
<1>2. CASE PowerFails
  <2>1. PowerTypeOK'
    BY <1>2, BlankIsNotSet DEF PowerFails, PowerTypeOK
  <2>2. FlagsInRam' /\ MarkIsTrue' /\ NothingNew'
    BY <1>2 DEF PowerFails, FlagsInRam, MarkIsTrue, NothingNew
  <2>3. IdsAgree' /\ NothingForgotten' /\ CarriedOutOnceOnly'
    BY <1>2 DEF PowerFails, IdsAgree, NothingForgotten, CarriedOutOnceOnly
  <2> QED
    BY <2>1, <2>2, <2>3
<1> QED
  BY <1>1, <1>2

(* The boot preserves the invariant: new flags are taken only when the mark  *)
(* is not set, and the mark is cleared before a flag can change.             *)
LEMMA BootIInv ==
    ASSUME Orderly, PowerIInv, ReadMark \/ mem_restore_msp_seqflags \/ EndBoot
    PROVE  PowerIInv'
<1> USE DEF PowerIInv, nvm, obc, history
<1>1. CASE ReadMark
  <2>1. PowerTypeOK'
    BY <1>1, BlankIsNotSet DEF ReadMark, PowerTypeOK
  <2>2. FlagsInRam' /\ MarkIsTrue' /\ NothingNew'
    BY <1>1 DEF ReadMark, FlagsInRam, MarkIsTrue, NothingNew
  <2>3. IdsAgree' /\ CarriedOutOnceOnly'
    BY <1>1, BlankIsNotSet DEF ReadMark, IdsAgree, CarriedOutOnceOnly
  <2>4. NothingForgotten'
    <3>1. /\ at = "boot" /\ at' \in {"restore", "run"} /\ ~off_done'
          /\ supply' = supply /\ pending' = pending /\ (unmarked' <=> unmarked)
      BY <1>1 DEF ReadMark, NothingNew
    <3>2. CASE clean
      <4>1. truth' = truth /\ times' = times /\ obcNext' = obcNext
        BY <1>1, <3>2 DEF ReadMark
      <4> QED
        BY <3>1, <4>1 DEF NothingForgotten
    <3>3. CASE ~clean
      <4>1. unmarked \/ pending = Nothing
        BY <3>1, <3>3 DEF NothingForgotten
      <4> QED
        BY <3>1, <4>1 DEF NothingForgotten
    <3> QED
      BY <3>2, <3>3
  <2> QED
    BY <2>1, <2>2, <2>3, <2>4
<1>2. CASE mem_restore_msp_seqflags
  <2>1. PowerTypeOK'
    BY <1>2 DEF mem_restore_msp_seqflags, PowerTypeOK
  <2>2. FlagsInRam' /\ MarkIsTrue' /\ NothingNew'
    BY <1>2 DEF mem_restore_msp_seqflags, FlagsInRam, MarkIsTrue, NothingNew
  <2>3. /\ at' = "clear" /\ supply' = supply /\ pending' = pending /\ obcNext' = obcNext
        /\ times' = times /\ truth' = truth /\ (unmarked' <=> unmarked)
    BY <1>2 DEF mem_restore_msp_seqflags
  <2>4. IdsAgree'
    BY <2>3 DEF IdsAgree
  <2>5. NothingForgotten'
    BY <2>3 DEF NothingForgotten
  <2>6. CarriedOutOnceOnly'
    BY <2>3 DEF CarriedOutOnceOnly
  <2> QED
    BY <2>1, <2>2, <2>4, <2>5, <2>6
<1>3. CASE EndBoot
  <2>1. clean' = FALSE
    BY <1>3 DEF EndBoot, ClearMark, Orderly
  <2>2. PowerTypeOK'
    BY <1>3, <2>1 DEF EndBoot, PowerTypeOK
  <2>3. FlagsInRam' /\ MarkIsTrue' /\ NothingNew'
    BY <1>3, <2>1 DEF EndBoot, FlagsInRam, MarkIsTrue, NothingNew
  <2>4. /\ at' = "run" /\ supply' = supply /\ pending' = pending /\ obcNext' = obcNext
        /\ times' = times /\ truth' = truth /\ (unmarked' <=> unmarked)
    BY <1>3 DEF EndBoot
  <2>5. ~off_done'
    BY <1>3 DEF EndBoot, NothingNew
  <2>6. IdsAgree'
    BY <2>4 DEF IdsAgree
  <2>7. NothingForgotten'
    BY <2>4, <2>5 DEF NothingForgotten
  <2>8. CarriedOutOnceOnly'
    BY <2>4 DEF CarriedOutOnceOnly
  <2> QED
    BY <2>2, <2>3, <2>6, <2>7, <2>8
<1> QED
  BY <1>1, <1>2, <1>3

(* POWER_OFF preserves the invariant: the mark follows a save that succeeded. *)
LEMMA PowerOffIInv ==
    ASSUME PowerIInv, TakePowerOff \/ mem_save_msp_seqflags \/ MarkClean \/ EndPowerOff
    PROVE  PowerIInv'
<1> USE DEF PowerIInv, nvm, obc, history
<1>1. CASE TakePowerOff
  <2>1. PowerTypeOK'
    BY <1>1 DEF TakePowerOff, PowerTypeOK
  <2>2. FlagsInRam' /\ MarkIsTrue' /\ NothingNew'
    BY <1>1 DEF TakePowerOff, FlagsInRam, MarkIsTrue, NothingNew
  <2>3. IdsAgree' /\ NothingForgotten' /\ CarriedOutOnceOnly'
    BY <1>1 DEF TakePowerOff, IdsAgree, NothingForgotten, CarriedOutOnceOnly
  <2> QED
    BY <2>1, <2>2, <2>3
<1>2. CASE mem_save_msp_seqflags
  <2>1. PICK written \in BOOLEAN, ok \in BOOLEAN :
            /\ ok => written
            /\ saved' = IF written THEN Saved(seqflags) ELSE saved
            /\ at' = IF MarkAfter(ok) THEN "mark" ELSE "done"
            /\ unmarked' = (unmarked \/ ~ok)
    BY <1>2 DEF mem_save_msp_seqflags
  <2>2. /\ at = "save" /\ at' \in {"mark", "done"}
        /\ saved' \in {seqflags, saved}
        /\ at' = "mark" => saved' = seqflags
        /\ UNCHANGED <<supply, initialized, seqflags, has_power_off, off_done, clean,
                        pending, obcNext, told, times, truth>>
    BY <1>2, <2>1 DEF mem_save_msp_seqflags, Saved, MarkAfter
  <2>3. /\ at' = "mark" => unmarked' = unmarked
        /\ at' = "done" => unmarked' = TRUE
    <3>1. CASE ok
      BY <2>1, <3>1 DEF MarkAfter, PowerTypeOK
    <3>2. CASE ~ok
      BY <2>1, <3>2 DEF MarkAfter
    <3> QED
      BY <3>1, <3>2
  <2>4. unmarked' \in BOOLEAN
    BY <2>2, <2>3 DEF PowerTypeOK
  <2>5. PowerTypeOK'
    BY <2>2, <2>4 DEF PowerTypeOK
  <2>6. FlagsInRam' /\ MarkIsTrue' /\ NothingNew'
    BY <2>2 DEF FlagsInRam, MarkIsTrue, NothingNew
  <2>7. IdsAgree' /\ CarriedOutOnceOnly'
    BY <2>2, <2>3 DEF IdsAgree, CarriedOutOnceOnly
  <2>8. pending \in {Nothing, "POWER_OFF"}
    BY <2>2 DEF NothingNew
  <2>9. NothingForgotten'
    BY <2>2, <2>3, <2>8 DEF NothingForgotten
  <2> QED
    BY <2>5, <2>6, <2>7, <2>9
<1>3. CASE MarkClean
  <2>1. PowerTypeOK'
    BY <1>3 DEF MarkClean, PowerTypeOK
  <2>2. FlagsInRam' /\ MarkIsTrue' /\ NothingNew'
    BY <1>3 DEF MarkClean, FlagsInRam, MarkIsTrue, NothingNew
  <2>3. /\ at' = "done" /\ supply' = supply /\ pending' = pending /\ obcNext' = obcNext
        /\ times' = times /\ truth' = truth
        /\ (unmarked => unmarked') /\ (clean' \/ unmarked')
    BY <1>3 DEF MarkClean
  <2>4. pending \in {Nothing, "POWER_OFF"}
    BY <1>3 DEF MarkClean, NothingNew
  <2>5. IdsAgree'
    BY <2>3 DEF IdsAgree
  <2>6. NothingForgotten'
    BY <2>3, <2>4 DEF NothingForgotten
  <2>7. CarriedOutOnceOnly'
    BY <2>3 DEF CarriedOutOnceOnly
  <2> QED
    BY <2>1, <2>2, <2>5, <2>6, <2>7
<1>4. CASE EndPowerOff
  <2>1. PowerTypeOK'
    BY <1>4 DEF EndPowerOff, PowerTypeOK
  <2>2. FlagsInRam' /\ MarkIsTrue' /\ NothingNew'
    BY <1>4 DEF EndPowerOff, FlagsInRam, MarkIsTrue, NothingNew
  <2>3. IdsAgree' /\ NothingForgotten' /\ CarriedOutOnceOnly'
    BY <1>4 DEF EndPowerOff, IdsAgree, NothingForgotten, CarriedOutOnceOnly
  <2> QED
    BY <2>1, <2>2, <2>3
<1> QED
  BY <1>1, <1>2, <1>3, <1>4

(* The invariant is inductive. *)
LEMMA PowerNextIInv ==
    ASSUME Orderly, PowerIInv, [PowerNext]_powerVars
    PROVE  PowerIInv'
<1>1. CASE UNCHANGED powerVars
  <2>1. /\ UNCHANGED <<supply, at, initialized, seqflags, has_power_off, saved, clean>>
        /\ UNCHANGED <<off_done, pending, obcNext, told, times, unmarked, truth>>
    BY <1>1 DEF powerVars, nvm, obc, history
  <2>2. PowerTypeOK'
    BY <2>1 DEF PowerIInv, PowerTypeOK
  <2>3. FlagsInRam' /\ MarkIsTrue' /\ NothingNew'
    BY <2>1 DEF PowerIInv, FlagsInRam, MarkIsTrue, NothingNew
  <2>4. IdsAgree' /\ NothingForgotten' /\ CarriedOutOnceOnly'
    BY <2>1 DEF PowerIInv, IdsAgree, NothingForgotten, CarriedOutOnceOnly
  <2> QED
    BY <2>2, <2>3, <2>4 DEF PowerIInv
<1> QED
  BY <1>1, PowerSupplyIInv, BootIInv, PowerOffIInv, GiveCommandIInv, TransactIInv
     DEF PowerNext

(* In all behaviours with an orderly OBC. *)
LEMMA PowerInvariance ==
    ASSUME Orderly
    PROVE  PowerSpec => []PowerIInv
BY PowerInitIInv, PowerNextIInv, PTL DEF PowerSpec
-----------------------------------------------------------------------------
(* RAM, NVM and the OBC keep to their types. *)
THEOREM PowerTypeCorrect ==
    ASSUME Orderly
    PROVE  PowerSpec => []PowerTypeOK
<1>1. PowerIInv => PowerTypeOK
  BY DEF PowerIInv
<1> QED
  BY <1>1, PowerInvariance, PTL

(* Nothing is carried out twice because of a power cycle, but where the flags *)
(* were lost with the mark missing; with a steady supply that is POWER_OFF    *)
(* alone, after a save or a mark that failed (mem_save_msp_seqflags,          *)
(* mem_restore_msp_seqflags, main).                                           *)
THEOREM CarriedOutOnce ==
    ASSUME Orderly
    PROVE  PowerSpec => []CarriedOutOnceOnly
<1>1. PowerIInv => CarriedOutOnceOnly
  BY DEF PowerIInv
<1> QED
  BY <1>1, PowerInvariance, PTL

(* The flags mem_restore_msp_seqflags restores are those of all the          *)
(* transactions carried out before, wherever the power failed.               *)
THEOREM FlagsRestoredAreCurrent ==
    ASSUME Orderly
    PROVE  PowerSpec => RestoredFlagsCurrent
<1>1. PowerIInv /\ [PowerNext]_powerVars
        => [mem_restore_msp_seqflags => seqflags' = truth]_powerVars
  BY DEF PowerIInv, MarkIsTrue, mem_restore_msp_seqflags
<1> QED
  BY <1>1, PowerInvariance, PTL DEF PowerSpec, RestoredFlagsCurrent

(* No flag that was restored makes the experiment acknowledge a command it   *)
(* has not carried out.                                                      *)
THEOREM NothingIsSwallowed ==
    ASSUME Orderly
    PROVE  PowerSpec => NothingSwallowed
<1>1. ASSUME PowerIInv, Transact
      PROVE  times' > 0
  <2>1. /\ at \in {"run", "save", "mark", "done"}
        /\ pending \in Flagged /\ Current = truth /\ times \in 0..2
    BY <1>1 DEF Transact, MayRepeat, Orderly, PowerIInv, PowerTypeOK, FlagsInRam, Current
  <2>2. CASE FlagIsSet(Current, pending, obcNext[pending])
    BY <1>1, <2>1, <2>2 DEF Transact, PowerIInv, IdsAgree
  <2>3. CASE ~FlagIsSet(Current, pending, obcNext[pending])
    BY <1>1, <2>1, <2>3 DEF Transact, CarryOut
  <2> QED
    BY <2>2, <2>3
<1>2. PowerIInv /\ [PowerNext]_powerVars
        => [(Transact /\ pending' = Nothing) => times' > 0]_powerVars
  BY <1>1
<1> QED
  BY <1>2, PowerInvariance, PTL DEF PowerSpec, NothingSwallowed
=============================================================================
