------------------------------- MODULE MssNvm -------------------------------
(***************************************************************************)
(* Writing to the eNVM: mem_write_nvm (mem.c) with NVM_unlock and          *)
(* NVM_write of the driver (mss_nvm.c).  The memory is programmed a page   *)
(* at a time, from the WD buffer, which holds the bytes to be written and  *)
(* what the page held around them; unlocking a page programs it as well.   *)
(*                                                                         *)
(* The memory itself is external: it programs a page, or reports an error  *)
(* with the page as it was (denied) or spoilt (verify), or a warning.      *)
(* Another master may keep it past the time-out.                           *)
(***************************************************************************)
EXTENDS NvmProtection, Sequences

CONSTANTS BYTES_PER_PAGE, NB_OF_BYTES_IN_A_WORD,
          Device,       \* one of Devices
          Protections,  \* values of ENVM_PROTECT_USER considered
          UsedPages,    \* the pages that are written to
          MaxFaults     \* faults of the memory, in a run

ASSUME PageAssumption ==
    /\ BYTES_PER_PAGE \in Nat \ {0} /\ NB_OF_BYTES_IN_A_WORD \in Nat \ {0}
    /\ BYTES_PER_PAGE % NB_OF_BYTES_IN_A_WORD = 0
ASSUME DeviceAssumption == Device \in Devices /\ Protections \subseteq ProtectUser
ASSUME UsedPagesAssumption == UsedPages \subseteq Nat
ASSUME MaxFaultsAssumption == MaxFaults \in Nat

VARIABLES
    memory,     \* the bytes of the pages
    locked,     \* the pages that are locked
    levels,     \* ENVM_PROTECT_USER
    phase,      \* where mem_write_nvm is
    request,    \* its parameters
    done,       \* pages unlocked; bytes written
    status,     \* nvm_status_t, once there was a call since power came on
    held,       \* the controller is held by the Cortex-M3 (REQ_ACCESS)
    faults,     \* faults so far
    trouble,    \* history: a fault during this call
    bad         \* history: bytes that are not what was last stored: a page was
                \* spoilt, or storing them is not completed

nvmVars == <<memory, locked, levels, phase, request, done, status, held, faults,
             trouble, bad>>

Page(offset) == offset \div BYTES_PER_PAGE
BytesOf(page) == page * BYTES_PER_PAGE .. (page + 1) * BYTES_PER_PAGE - 1
Offsets == UNION {BytesOf(page) : page \in UsedPages}

Erased == 255
Spoilt == 200
NoRequest == [addr |-> 0, data |-> <<>>]
NoStatus == "none"
Length == Len(request.data)
Range == request.addr .. request.addr + Length - 1

GoOn(st) == st \in {"NVM_SUCCESS", "NVM_WRITE_THRESHOLD_WARNING"}
-----------------------------------------------------------------------------
(* Seeded faults. *)
get_error_code_WarningFirst(flags) ==
    CASE "WRCNT_OVER" \in flags -> "NVM_WRITE_THRESHOLD_WARNING"
      [] flags = {} -> "NVM_SUCCESS"
      [] OTHER -> "NVM_VERIFY_FAILURE"
-----------------------------------------------------------------------------
NvmInit ==
    /\ memory = [b \in Offsets |-> Erased]
    /\ locked = {}
    /\ levels \in Protections
    /\ phase = "idle"
    /\ request = NoRequest
    /\ done = 0
    /\ status = NoStatus
    /\ held = FALSE
    /\ faults = 0
    /\ trouble = FALSE
    /\ bad = {}
-----------------------------------------------------------------------------
(* The memory. *)

\* What may be left of a page: nothing, or one half of what was to be written.
SpoiltPages(page, image) ==
    LET half(b) == (b % BYTES_PER_PAGE) * 2 < BYTES_PER_PAGE
    IN  { [b \in BytesOf(page) |-> Spoilt],
          [b \in BytesOf(page) |-> IF half(b) THEN image[b] ELSE Spoilt],
          [b \in BytesOf(page) |-> IF half(b) THEN Spoilt ELSE image[b]] }

With(page, image) == [b \in Offsets |-> IF b \in BytesOf(page) THEN image[b] ELSE memory[b]]

\* PROG_ADS (and VERIFY_ADS in write_nvm), with the pages that are locked then, and
\* the flags that the status register shows after it.
Program(page, image, locks, lock, flags) ==
    \/ /\ flags \in {{}, {"WRCNT_OVER"}}
       /\ page \notin locks
       /\ memory' = With(page, image)
       /\ locked' = IF lock THEN locks \cup {page} ELSE locks
       /\ UNCHANGED <<faults, trouble, bad>>
    \/ /\ flags = {"PEFAIL_LOCK"}
       /\ page \in locks
       /\ locked' = locks
       /\ UNCHANGED <<memory, faults, trouble, bad>>
    \/ /\ flags = {"WR_DENIED"}
       /\ faults < MaxFaults
       /\ locked' = locks
       /\ faults' = faults + 1
       /\ trouble' = TRUE
       /\ UNCHANGED <<memory, bad>>
    \/ /\ flags \in {{"VERIFY_FAIL"}, {"VERIFY_FAIL", "WRCNT_OVER"}}
       /\ faults < MaxFaults
       /\ \E spoilt \in SpoiltPages(page, image) : memory' = With(page, spoilt)
       /\ locked' = locks
       /\ faults' = faults + 1
       /\ trouble' = TRUE
       /\ bad' = bad \cup BytesOf(page)

StatusFlags == {{}, {"WRCNT_OVER"}, {"PEFAIL_LOCK"}, {"WR_DENIED"}, {"VERIFY_FAIL"},
                {"VERIFY_FAIL", "WRCNT_OVER"}}

get_error_code(flags) ==
    CASE "WR_DENIED" \in flags -> "NVM_PROTECTION_ERROR"
      [] "PEFAIL_LOCK" \in flags /\ "WR_DENIED" \notin flags -> "NVM_PAGE_LOCK_ERROR"
      [] "VERIFY_FAIL" \in flags -> "NVM_VERIFY_FAILURE"
      [] flags = {"WRCNT_OVER"} -> "NVM_WRITE_THRESHOLD_WARNING"
      [] OTHER -> "NVM_SUCCESS"

\* A warning lasts until the end of the call.
StatusAfter(flags) == IF flags = {} THEN status ELSE get_error_code(flags)
-----------------------------------------------------------------------------
(* One call of mem_write_nvm, whose parameters are those of both calls of the  *)
(* driver.                                                                     *)

Checked(addr, length) == check_protection_reserved_nvm(Device, levels, addr, length)

mem_write_nvm(addr, data) ==
    /\ phase = "idle"
    /\ request' = [addr |-> addr, data |-> data]
    /\ status' = Checked(addr, Len(data))
    /\ phase' = IF status' = "NVM_SUCCESS" THEN "unlock_access" ELSE "end"
    /\ done' = 0
    /\ trouble' = FALSE
    /\ bad' = bad \cup (addr .. addr + Len(data) - 1)
    /\ UNCHANGED <<memory, locked, levels, held, faults>>

\* get_ctrl_access: granted, or given up after the time-out.
GetAccess ==
    /\ phase \in {"unlock_access", "write_access"}
    /\ \/ /\ held' = TRUE
          /\ phase' = IF phase = "unlock_access" THEN "unlock" ELSE "write"
          /\ UNCHANGED <<status, faults, trouble>>
       \/ /\ faults < MaxFaults
          /\ faults' = faults + 1
          /\ trouble' = TRUE
          /\ status' = "NVM_IN_USE_BY_OTHER_MASTER"
          /\ phase' = "end"
          /\ UNCHANGED held
    /\ UNCHANGED <<memory, locked, levels, request, done, bad>>

FirstPage == Page(request.addr)
LastPage == Page(request.addr + Length - 1)

Held(page) == [b \in BytesOf(page) |-> memory[b]]

\* After the last page, or an error: NVM_write if the pages are unlocked.
EndUnlock ==
    /\ held' = FALSE
    /\ done' = 0
    /\ IF GoOn(status') /\ Checked(request.addr, Length) = "NVM_SUCCESS"
       THEN phase' = "write_access"
       ELSE phase' = "end"

UnlockPage ==
    /\ phase = "unlock"
    /\ LET page == FirstPage + done IN
       \E flags \in StatusFlags :
          /\ Program(page, Held(page), locked \ {page}, FALSE, flags)
          /\ status' = StatusAfter(flags)
          /\ IF page < LastPage /\ GoOn(status')
             THEN done' = done + 1 /\ UNCHANGED <<phase, held>>
             ELSE EndUnlock
    /\ UNCHANGED <<levels, request>>
-----------------------------------------------------------------------------
get_remaining_page_length(offset, length) ==
    IF (offset + length) \div BYTES_PER_PAGE >= offset \div BYTES_PER_PAGE + 1
    THEN BYTES_PER_PAGE - (offset % BYTES_PER_PAGE)
    ELSE length

\* The words at the beginning of the page that are not written, as a whole or at all.
NonWrittenWords(offset) ==
    (offset % BYTES_PER_PAGE) \div NB_OF_BYTES_IN_A_WORD
      + (IF offset % NB_OF_BYTES_IN_A_WORD > 0 THEN 1 ELSE 0)

FirstNonWrittenWord(offset, length) ==
    ((offset + length) % BYTES_PER_PAGE) \div NB_OF_BYTES_IN_A_WORD

\* The WD buffer for length bytes of data from offset on: around them the words of
\* the page, and elsewhere what the buffer held before.
fill_wd_buffer(page, data, offset, length) ==
    LET word(b) == (b % BYTES_PER_PAGE) \div NB_OF_BYTES_IN_A_WORD
        kept(b) == /\ length # BYTES_PER_PAGE
                   /\ \/ word(b) < NonWrittenWords(offset)
                      \/ word(b) >= FirstNonWrittenWord(offset, length)
    IN  [b \in DOMAIN page |-> IF offset <= b /\ b < offset + length THEN data[b]
                               ELSE IF kept(b) THEN page[b] ELSE Spoilt]

Data == [b \in Range |-> request.data[b - request.addr + 1]]

\* The status of the write is that of the pages; that they are not locked, although
\* NVM_LOCK_PAGE was asked for, is told only if there is nothing else to tell.
WriteStatus(st) ==
    IF st = "NVM_SUCCESS" /\ ~Locks(Device, levels, request.addr, Length)
    THEN "NVM_PAGE_LOCK_WARNING" ELSE st

\* The status of NVM_write starts anew: a warning of NVM_unlock is dropped.
WriteStatusBefore == IF done = 0 THEN "NVM_SUCCESS" ELSE status

write_nvm ==
    /\ phase = "write"
    /\ LET offset == request.addr + done
           length == get_remaining_page_length(offset, Length - done)
           page == Page(offset)
           image == fill_wd_buffer(Held(page), Data, offset, length)
       IN \E flags \in StatusFlags :
          /\ Program(page, image, locked,
                     Locks(Device, levels, request.addr, Length), flags)
          /\ LET st == IF flags = {} THEN WriteStatusBefore ELSE get_error_code(flags)
             IN  IF Length > done + length /\ GoOn(st)
                 THEN /\ status' = st
                      /\ done' = done + length
                      /\ UNCHANGED <<phase, held>>
                 ELSE /\ status' = WriteStatus(st)
                      /\ done' = 0
                      /\ phase' = "end"
                      /\ held' = FALSE
    /\ UNCHANGED <<levels, request>>

NvmNext == GetAccess \/ UnlockPage \/ write_nvm

\* What the status tells the caller.
Stored == status \in {"NVM_SUCCESS", "NVM_WRITE_THRESHOLD_WARNING", "NVM_PAGE_LOCK_WARNING"}

Returned ==
    /\ phase = "end"
    /\ phase' = "idle"
    /\ request' = NoRequest
    /\ bad' = IF Stored THEN bad \ Range ELSE bad
    /\ UNCHANGED <<memory, locked, levels, done, status, held, faults, trouble>>

\* Power is cut, perhaps while a page is programmed.
NvmOff ==
    /\ phase' = "idle"
    /\ request' = NoRequest
    /\ status' = NoStatus
    /\ held' = FALSE
    /\ done' = 0
    /\ trouble' = FALSE
    /\ UNCHANGED <<locked, levels>>
    /\ \/ UNCHANGED <<memory, bad, faults>>
       \/ /\ phase \in {"unlock", "write"}
          /\ faults < MaxFaults
          /\ faults' = faults + 1
          /\ LET page == IF phase = "unlock" THEN FirstPage + done
                         ELSE Page(request.addr + done)
                 image == IF phase = "unlock" THEN Held(page)
                          ELSE [b \in BytesOf(page) |-> IF b \in Range THEN Data[b]
                                                        ELSE memory[b]]
             IN  /\ \E spoilt \in SpoiltPages(page, image) : memory' = With(page, spoilt)
                 /\ bad' = bad \cup BytesOf(page)
-----------------------------------------------------------------------------
Store == INSTANCE NvmStore WITH
            PageOf <- Page,
            request <- IF phase = "idle" /\ ~held THEN NoRequest ELSE request,
            status <- IF phase = "idle" THEN status ELSE "busy"

\* What mem_write_nvm promises, with faults of the memory and power cuts: the bytes
\* asked for and no others are written, the neighbours in a page are kept, the
\* status is good exactly if that is so, no page stays locked against a later call,
\* and the controller is released.
StoreContract == Store!StoreSpec
=============================================================================
