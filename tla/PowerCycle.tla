----------------------------- MODULE PowerCycle -----------------------------
(***************************************************************************)
(* The MSP sequence flags across a power cycle: saved to non-volatile      *)
(* memory on POWER_OFF (main.c, mem/mem.c), restored at boot when the      *)
(* power-off was marked clean.                                             *)
(*                                                                         *)
(* A transaction is one step here: the OBC gives a command under the next  *)
(* transaction-ID and repeats it until it is acknowledged (MspLink has the *)
(* frames).  Power may fail between any two steps.  The OBC and the NVM    *)
(* are not part of this module's code; a write to a page of the NVM is     *)
(* done or not done.                                                       *)
(***************************************************************************)
EXTENDS SeqFlags

CONSTANTS Silent,     \* phases in which the OBC gives no new command
          NvmFails,   \* NVM writes that may fail
          Supplies    \* power supplies considered

ASSUME SilentAssumption == Silent \subseteq {"boot", "power_off"}
ASSUME NvmFailsAssumption == NvmFails \subseteq {"save", "mark", "clear"}
\* "steady": cut by the OBC once main() is done with POWER_OFF, however the writes
\* to the NVM went; "failing": at any time.
ASSUME SuppliesAssumption == Supplies \subseteq {"steady", "failing"}
ASSUME PowerOffAssumption == "POWER_OFF" \in Flagged

VARIABLES
    supply,           \* the power supply
    at,               \* what main() is doing
    initialized,      \* msp_exp_state.initialized
    seqflags,         \* msp_exp_state.seqflags
    has_power_off,    \* has_syscommand = MSP_OP_POWER_OFF
    off_done,         \* main() is done with POWER_OFF since power came on
    saved, clean,     \* NVM: the saved flags, the clean_poweroff mark
    pending, obcNext, \* OBC: the command it waits for; its transaction-IDs
    told,             \* OBC: it has given POWER_OFF since power came on
    times,            \* history: how often pending was carried out, up to 2
    unmarked,         \* history: since pending was given the flags may have been
                      \* lost: a save or mark failed, or power did without a mark
    truth             \* history: the flags of all that was carried out since
                      \* the last boot with new flags

nvm == <<saved, clean>>
obc == <<pending, obcNext, told>>
history == <<times, unmarked, truth>>
loop == <<has_power_off, off_done>>
powerVars == <<supply, at, initialized, seqflags, loop, nvm, obc, history>>

Nothing == "none"
ASSUME NothingAssumption == Nothing \notin Flagged

Booting == {"boot", "restore", "clear"}
-----------------------------------------------------------------------------
(* Seeded faults. *)
ClearMark_Kept == UNCHANGED clean

Saved_Late(flags) == saved

MarkAfter_Anyway(ok) == TRUE
-----------------------------------------------------------------------------
PowerInit ==
    /\ supply \in Supplies
    /\ at = "off"
    /\ initialized = FALSE
    /\ seqflags = BlankSeqflags
    /\ has_power_off = FALSE /\ off_done = FALSE
    /\ saved = BlankSeqflags /\ clean = FALSE
    /\ pending = Nothing
    /\ obcNext = [op \in Flagged |-> 0]
    /\ told = FALSE
    /\ times = 0 /\ unmarked = FALSE
    /\ truth = BlankSeqflags
-----------------------------------------------------------------------------
(* Power. *)

PowerOn ==
    /\ at = "off"
    /\ at' = "boot"
    /\ UNCHANGED <<supply, initialized, seqflags, loop, nvm, obc, history>>

PoweredOff == /\ at = "run" /\ ~has_power_off
              /\ off_done \/ (told /\ pending = Nothing)

\* With a steady supply the OBC cuts the power when POWER_OFF has been carried
\* out, whether or not it saw the T_ACK, or was acknowledged as carried out
\* before.  It cannot see whether the flags were saved and marked.
PowerFails ==
    /\ at # "off"
    /\ supply = "failing" \/ PoweredOff
    /\ at' = "off"
    /\ initialized' = FALSE
    /\ seqflags' = BlankSeqflags
    /\ has_power_off' = FALSE /\ off_done' = FALSE
    /\ told' = FALSE
    /\ unmarked' = (unmarked \/ (~PoweredOff /\ ~clean))
    /\ UNCHANGED <<supply, nvm, pending, obcNext, times, truth>>
-----------------------------------------------------------------------------
(* Boot.  The I2C slave is enabled before the flags are initialized. *)

ReadMark ==
    /\ at = "boot"
    /\ IF clean
       THEN /\ at' = "restore"
            /\ UNCHANGED <<initialized, seqflags, truth>>
       ELSE /\ at' = "run"
            /\ initialized' = TRUE
            /\ seqflags' = BlankSeqflags
            /\ truth' = BlankSeqflags
    /\ UNCHANGED <<supply, loop, nvm, obc, times, unmarked>>

mem_restore_msp_seqflags ==
    /\ at = "restore"
    /\ at' = "clear"
    /\ initialized' = TRUE
    /\ seqflags' = saved
    /\ UNCHANGED <<supply, loop, nvm, obc, history>>

\* The status of the write is ignored.
ClearMark ==
    clean' = FALSE \/ ("clear" \in NvmFails /\ UNCHANGED clean)

EndBoot ==
    /\ at = "clear"
    /\ at' = "run"
    /\ ClearMark
    /\ UNCHANGED <<supply, initialized, seqflags, loop, saved, obc, history>>
-----------------------------------------------------------------------------
(* POWER_OFF, in the loop of main().  Switching off the DAQ and the bias       *)
(* voltage before it is in CubesData and Hvps.                                 *)

TakePowerOff ==
    /\ at = "run" /\ has_power_off
    /\ at' = "save"
    /\ UNCHANGED <<supply, initialized, seqflags, loop, nvm, obc, history>>

Saved(flags) == flags
MarkAfter(ok) == ok

\* A write that succeeds with a warning saves the flags, but is not taken for
\* a success.
mem_save_msp_seqflags ==
    /\ at = "save"
    /\ \E written, ok \in BOOLEAN :
        /\ ok => written
        /\ ~ok => "save" \in NvmFails
        /\ saved' = IF written THEN Saved(seqflags) ELSE saved
        /\ at' = IF MarkAfter(ok) THEN "mark" ELSE "done"
        /\ unmarked' = (unmarked \/ ~ok)
    /\ UNCHANGED <<supply, initialized, seqflags, loop, clean, obc, times, truth>>

MarkClean ==
    /\ at = "mark"
    /\ at' = "done"
    /\ \/ clean' = TRUE /\ UNCHANGED unmarked
       \/ "mark" \in NvmFails /\ UNCHANGED clean /\ unmarked' = TRUE
    /\ UNCHANGED <<supply, initialized, seqflags, loop, saved, obc, times, truth>>

EndPowerOff ==
    /\ at = "done"
    /\ at' = "run"
    /\ has_power_off' = FALSE
    /\ off_done' = TRUE
    /\ UNCHANGED <<supply, initialized, seqflags, nvm, obc, history>>
-----------------------------------------------------------------------------
(* The OBC, and the transaction in the I2C1 interrupt. *)

MayGive ==
    /\ ~(told /\ "power_off" \in Silent)
    /\ ~(at \in Booting \cup {"off"} /\ "boot" \in Silent)

GiveCommand(op) ==
    /\ pending = Nothing
    /\ MayGive
    /\ pending' = op
    /\ times' = 0 /\ unmarked' = FALSE
    /\ told' = (told \/ op = "POWER_OFF")
    /\ UNCHANGED <<supply, at, initialized, seqflags, loop, nvm, obcNext, truth>>

\* A command interrupted by a power failure is given again after the boot.
MayRepeat ==
    /\ at # "off"
    /\ ~(at \in Booting /\ "boot" \in Silent)
    /\ ~(told /\ "power_off" \in Silent /\ pending # "POWER_OFF")

\* An uninitialized state is initialized with blank flags by msp_recv_callback.
Current == IF initialized THEN seqflags ELSE BlankSeqflags

CarryOut(op, id) ==
    /\ seqflags' = SetFlag(Current, op, id)
    /\ truth' = SetFlag(truth, op, id)
    /\ times' = IF times < 2 THEN times + 1 ELSE 2
    /\ has_power_off' = (has_power_off \/ op = "POWER_OFF")

Transact ==
    /\ pending # Nothing
    /\ MayRepeat
    /\ initialized' = TRUE
    /\ told' = (told \/ pending = "POWER_OFF")
    /\ IF FlagIsSet(Current, pending, obcNext[pending])
       THEN seqflags' = Current /\ UNCHANGED <<truth, times, has_power_off>>
       ELSE CarryOut(pending, obcNext[pending])
    /\ \/ pending' = Nothing
          /\ obcNext' = [obcNext EXCEPT ![pending] = 1 - @]
       \/ UNCHANGED <<pending, obcNext>>      \* the T_ACK was lost
    /\ UNCHANGED <<supply, at, nvm, off_done, unmarked>>
-----------------------------------------------------------------------------
PowerNext ==
    \/ PowerOn \/ PowerFails
    \/ ReadMark \/ mem_restore_msp_seqflags \/ EndBoot
    \/ TakePowerOff \/ mem_save_msp_seqflags \/ MarkClean \/ EndPowerOff
    \/ (\E op \in Flagged : GiveCommand(op)) \/ Transact

PowerSpec == PowerInit /\ [][PowerNext]_powerVars
-----------------------------------------------------------------------------
(* Types of what is kept in RAM, in the NVM and by the OBC. *)
PowerTypeOK ==
    /\ at \in Booting \cup {"off", "run", "save", "mark", "done"}
    /\ initialized \in BOOLEAN /\ has_power_off \in BOOLEAN /\ clean \in BOOLEAN
    /\ seqflags \in Seqflags /\ saved \in Seqflags
    /\ truth \in Seqflags
    /\ pending \in Flagged \cup {Nothing}
    /\ obcNext \in [Flagged -> 0..1]
    /\ told \in BOOLEAN /\ times \in 0..2 /\ supply \in Supplies
    /\ off_done \in BOOLEAN /\ unmarked \in BOOLEAN

\* The flags restored at boot are those of all the transactions carried out
\* before, wherever the power failed: none is missing from what was saved.
RestoredFlagsCurrent ==
    [][mem_restore_msp_seqflags => seqflags' = truth]_powerVars

\* A command the OBC takes for carried out has been: no old flag, restored,
\* makes the experiment acknowledge a new command without carrying it out.
NothingSwallowed ==
    [][(Transact /\ pending' = Nothing) => times' > 0]_powerVars

\* Nothing is carried out twice, also when its T_ACK was lost and the OBC repeats
\* it after a power cycle, unless power failed without a mark, or main() could
\* not save and mark the flags; with a steady supply only POWER_OFF itself is then
\* carried out again.
CarriedOutOnceOnly ==
    times > 1 => /\ unmarked
                 /\ supply = "steady" => pending \in {Nothing, "POWER_OFF"}
-----------------------------------------------------------------------------
(* The inductive invariant behind these properties. *)

\* While the loop runs, the flags in RAM are the true ones.
FlagsInRam ==
    at \in {"clear", "run", "save", "mark", "done"} => initialized /\ seqflags = truth

\* The mark, or the step that has read it or is about to write it, speaks for the
\* saved flags.
MarkIsTrue ==
    /\ clean \/ at \in {"restore", "mark"} => saved = truth
    /\ at \in {"save", "mark"} => ~clean
    /\ at = "run" /\ (clean \/ off_done) => ~has_power_off
    /\ at \in {"save", "mark", "done"} => ~off_done

PoweringOff ==
    \/ has_power_off \/ off_done \/ at \in {"save", "mark", "done"}
    \/ clean /\ at = "run"

\* From POWER_OFF on, all the OBC may repeat is that command, and it is done.
NothingNew ==
    /\ told => pending \in {Nothing, "POWER_OFF"}
    /\ PoweringOff /\ at # "off" /\ at \notin Booting =>
         told /\ (pending = "POWER_OFF" =>
                    FlagIsSet(truth, "POWER_OFF", obcNext["POWER_OFF"]))
    /\ at = "off" \/ at \in Booting => ~has_power_off /\ ~off_done /\ ~told

\* The next transaction-ID of the OBC is set only for a command it still waits for.
IdsAgree ==
    \A op \in Flagged :
        FlagIsSet(truth, op, obcNext[op]) => pending = op /\ times > 0

\* A command that was carried out is forgotten only where the flags were not
\* marked as saved, and with a steady supply only POWER_OFF is.
NothingForgotten ==
    /\ at \in {"off", "boot"} => clean \/ unmarked \/ pending = Nothing
    /\ at = "done" \/ (at = "run" /\ off_done) => clean \/ unmarked
    /\ pending # Nothing /\ times > 0
         => unmarked \/ FlagIsSet(truth, pending, obcNext[pending])
    /\ supply = "steady" /\ unmarked => pending \in {Nothing, "POWER_OFF"}

PowerIInv ==
    /\ PowerTypeOK
    /\ FlagsInRam
    /\ MarkIsTrue
    /\ NothingNew
    /\ IdsAgree
    /\ NothingForgotten
    /\ CarriedOutOnceOnly
=============================================================================
