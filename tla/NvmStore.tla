------------------------------ MODULE NvmStore ------------------------------
(***************************************************************************)
(* What storing bytes in non-volatile memory promises to its caller: the   *)
(* bytes end up where they were asked for and no others change; a status   *)
(* is good only when that is so, and bad only if the memory failed; what a *)
(* failure or a power cut damages lies in one page of those written to.    *)
(***************************************************************************)
EXTENDS Integers, Sequences

CONSTANTS Offsets,      \* the bytes of the memory
          PageOf(_),    \* the page of an offset
          Erased        \* a byte that was never written

VARIABLES
    memory,
    request,    \* what is being stored, an empty string of bytes when nothing is
    trouble,    \* the memory failed during this request
    status      \* of the last request since power came on

storeVars == <<memory, request, trouble, status>>

Nothing == [addr |-> 0, data |-> <<>>]
Good == {"NVM_SUCCESS", "NVM_WRITE_THRESHOLD_WARNING", "NVM_PAGE_LOCK_WARNING"}

Asked == {b \in Offsets : request.addr <= b /\ b < request.addr + Len(request.data)}
Wanted(b) == request.data[b - request.addr + 1]
Pages == {PageOf(b) : b \in Asked}
-----------------------------------------------------------------------------
StoreInit ==
    /\ memory = [b \in Offsets |-> Erased]
    /\ request = Nothing
    /\ trouble = FALSE
    /\ status = "none"

Store ==
    /\ request = Nothing
    /\ request' # Nothing
    /\ trouble' = FALSE
    /\ UNCHANGED memory

\* Any part of it.
Proceed ==
    /\ \A b \in Offsets : \/ memory'[b] = memory[b]
                          \/ b \in Asked /\ memory'[b] = Wanted(b)
    /\ UNCHANGED <<request, trouble, status>>

DamageIn(page) == \A b \in Offsets : PageOf(b) # page => memory'[b] = memory[b]

\* The memory refuses, or spoils a page.
Fail ==
    /\ trouble' = TRUE
    /\ UNCHANGED memory \/ \E page \in Pages : DamageIn(page)
    /\ UNCHANGED <<request, status>>

Answer ==
    /\ request # Nothing
    /\ request' = Nothing
    /\ status' \in Good <=> ~trouble
    /\ status' \in Good => \A b \in Asked : memory[b] = Wanted(b)
    /\ UNCHANGED <<memory, trouble>>

PowerCut ==
    /\ request' = Nothing
    /\ UNCHANGED memory \/ \E page \in Pages : DamageIn(page)
    /\ trouble' = FALSE
    /\ status' = "none"

StoreNext == Store \/ Proceed \/ Fail \/ Answer \/ PowerCut

StoreSpec == StoreInit /\ [][StoreNext]_storeVars
=============================================================================
