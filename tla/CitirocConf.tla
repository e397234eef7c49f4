----------------------------- MODULE CitirocConf -----------------------------
(***************************************************************************)
(* The configurations of the Citiroc ASIC: the slots in the eNVM, the one  *)
(* that was selected, and the one the ASIC runs (main.c), on the driver    *)
(* that writes the eNVM.                                                   *)
(*                                                                         *)
(* A configuration has its ID in its last byte.  A slot is longer than a   *)
(* page, so it is written in parts, and shares its pages with the slots    *)
(* next to it.  Power may fail at any time.                                *)
(***************************************************************************)
EXTENDS MssNvm

CONSTANTS Ids,                      \* slots that are used
          Bodies,                   \* contents of configurations, but for the ID
          MEM_CITIROC_CONF_LEN,
          MEM_CITIROC_CONF_ADDR_NVM, MEM_CITIROC_CONF_ID_ADDR

ASSUME IdsAssumption == Ids \subseteq 1..254
ASSUME BodiesAssumption ==
    \A body \in Bodies : body \in Seq(Nat) /\ Len(body) = MEM_CITIROC_CONF_LEN - 1

VARIABLES
    at,         \* where main() is: waiting for power, the next command, or a write
    asic,       \* the configuration the ASIC was sent since power came on
    conf_id,    \* what the payload's header says it is
    selected    \* history: the configuration selected last

confVars == <<nvmVars, at, asic, conf_id, selected>>

Default == 0
Temporary == 255
NoConf == <<>>
DefaultConf == <<Default>>      \* CITIROC_DEFCONFIG; only its ID matters
-----------------------------------------------------------------------------
(* Seeded faults. *)
Addr_OneShort(id) == MEM_CITIROC_CONF_ADDR_NVM + (id - 1) * (MEM_CITIROC_CONF_LEN - 1)

SlotValid_InRange(id) == id \in Ids

Select_NotStored(conf, id) ==
    /\ asic' = conf
    /\ conf_id' = id
    /\ at' = "idle"
    /\ UNCHANGED nvmVars

-----------------------------------------------------------------------------
(* The slots. *)

Addr(id) == MEM_CITIROC_CONF_ADDR_NVM + (id - 1) * MEM_CITIROC_CONF_LEN
SlotBytes(id) == Addr(id) .. Addr(id) + MEM_CITIROC_CONF_LEN - 1
Slot(id) == [i \in 1..MEM_CITIROC_CONF_LEN |-> memory[Addr(id) + i - 1]]
-----------------------------------------------------------------------------
ConfInit ==
    /\ NvmInit
    /\ at = "off"
    /\ asic = NoConf
    /\ conf_id = Default
    /\ selected = Default

\* The configuration that was stored in the slot last, if any, is there.
SlotValid(id) == id \in Ids /\ Slot(id)[MEM_CITIROC_CONF_LEN] = id

\* Through the configuration RAM to the ASIC.
Apply(conf, id) ==
    /\ asic' = conf
    /\ conf_id' = id

\* Applied, and its ID stored for the next boot.
Select(conf, id) ==
    /\ Apply(conf, id)
    /\ at' = "storing"
    /\ mem_write_nvm(MEM_CITIROC_CONF_ID_ADDR, <<id>>)
-----------------------------------------------------------------------------
\* The configuration whose ID is stored, or the default if none is.  Neither when the
\* slot of that ID holds another.
Boot ==
    /\ at = "off"
    /\ LET stored == memory[MEM_CITIROC_CONF_ID_ADDR] IN
       \/ SlotValid(stored) /\ Select(Slot(stored), stored)
       \/ stored \notin 1..254 /\ Select(DefaultConf, Default)
       \/ /\ stored \in 1..254 /\ ~SlotValid(stored)
          /\ at' = "idle"
          /\ UNCHANGED <<nvmVars, asic, conf_id>>
    /\ selected' = IF at' = "storing" THEN conf_id' ELSE selected

SEND_CUBES_CITI_CONF(body) ==
    /\ at = "idle"
    /\ Apply(Append(body, Temporary), Temporary)
    /\ UNCHANGED <<nvmVars, at, selected>>

\* Any other ID than that of a slot or of the default is ignored.
SELECT_NVM_CITI_CONF(id) ==
    /\ at = "idle"
    /\ \/ SlotValid(id) /\ Select(Slot(id), id)
       \/ id = Default /\ Select(DefaultConf, Default)
    /\ selected' = id

SEND_NVM_CITI_CONF(body, id) ==
    /\ at = "idle"
    /\ at' = "storing"
    /\ mem_write_nvm(Addr(id), Append(body, id))
    /\ UNCHANGED <<asic, conf_id, selected>>

\* The status is not looked at.
EndStore ==
    /\ at = "storing"
    /\ Returned
    /\ at' = "idle"
    /\ UNCHANGED <<asic, conf_id, selected>>

PowerFails ==
    /\ at # "off"
    /\ NvmOff
    /\ at' = "off"
    /\ asic' = NoConf
    /\ conf_id' = Default       \* the initial value of the variable
    /\ UNCHANGED selected

ConfNext ==
    \/ Boot
    \/ \E body \in Bodies : SEND_CUBES_CITI_CONF(body)
    \/ \E id \in Ids \cup {Default} : SELECT_NVM_CITI_CONF(id)
    \/ \E body \in Bodies, id \in Ids : SEND_NVM_CITI_CONF(body, id)
    \/ NvmNext /\ UNCHANGED <<at, asic, conf_id, selected>>
    \/ EndStore
    \/ PowerFails

ConfSpec == ConfInit /\ [][ConfNext]_confVars
-----------------------------------------------------------------------------
\* The slot named in the header of the payload is one the ASIC runs, also after
\* a write to it was cut off or failed.
ReportedSlotRuns == conf_id \in Ids => asic[MEM_CITIROC_CONF_LEN] = conf_id

\* A slot whose bytes were all stored, and whose pages were not spoilt since, holds
\* one configuration as it was sent, whatever was written to the slots around it.
WholeConf ==
    \A id \in Ids :
        SlotBytes(id) \cap bad = {} =>
            \/ \A b \in SlotBytes(id) : memory[b] = Erased
            \/ \E body \in Bodies : Slot(id) = Append(body, id)

\* After a power cut, anywhere, the ASIC runs the configuration selected last and not
\* one sent for the time being, unless the stored ID or that slot was spoilt.
SelectionKept ==
    [][Boot /\ MEM_CITIROC_CONF_ID_ADDR \notin bad
            /\ (selected \in Ids => SlotBytes(selected) \cap bad = {})
       => conf_id' = selected]_confVars
=============================================================================
