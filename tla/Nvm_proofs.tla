----------------------------- MODULE Nvm_proofs -----------------------------
(***************************************************************************)
(* What CUBES keeps in the eNVM.                                           *)
(*                                                                         *)
(* The map: which ranges the driver lets be written, for every family of   *)
(* devices, protection, offset and length; and that all that CUBES keeps   *)
(* in the eNVM of its device is among them, nothing of it twice, and       *)
(* nothing in the page of another, but for the slots of configurations.    *)
(*                                                                         *)
(* The writes: that a part of a page is programmed without a loss around   *)
(* it, for every offset and length with the pages of the device; that the  *)
(* slot that is reported runs; and, for any slots, contents and faults,    *)
(* that storing keeps its contract, that a slot holds one configuration,   *)
(* and that the selection survives the power cuts.                         *)
(*                                                                         *)
(* The words of the sequence flags: that the flags in their words behave   *)
(* as the sets of opcodes the state machine is modelled with.              *)
(***************************************************************************)
EXTENDS CitirocConf, SeqWords, TLAPS

Map == INSTANCE NvmMap

Bytes(offset, length) == offset .. offset + length - 1

ProtectedArea(device, user) == Bottom(device, user) .. Bottom(device, user) + Area - 1

\* The bytes that are not to be written on a device with these protections.
Closed(device, prot) ==
    (Reserved(device) .. Top(device))
    \cup UNION { ProtectedArea(device, user) :
                 user \in {u \in UsersOf(device) : prot[u] # "WRITE_ENABLED"} }
-----------------------------------------------------------------------------
\* Beginning in an area, or below it and reaching it, is to have a byte in it.
LEMMA TouchesMeets ==
    ASSUME NEW bottom \in Int, NEW top \in Int, bottom <= top,
           NEW offset \in Nat, NEW last \in Nat, offset <= last
    PROVE  Touches(bottom, top, offset, last)
             <=> \E b \in offset..last : b \in bottom..top
<1>1. CASE offset \in bottom..top
  BY <1>1 DEF Touches
<1>2. CASE offset < bottom
  <2>1. last >= bottom => bottom \in offset..last /\ bottom \in bottom..top
    BY <1>2
  <2> QED
    BY <1>2, <2>1 DEF Touches
<1>3. CASE offset > top
  BY <1>3 DEF Touches
<1> QED
  BY <1>1, <1>2, <1>3

LEMMA AreasAreInts ==
    ASSUME NEW device \in Devices
    PROVE  /\ Top(device) \in Nat /\ Reserved(device) \in Nat
           /\ Reserved(device) <= Top(device)
           /\ \A user \in UsersOf(device) : Bottom(device, user) \in Nat
<1>1. Area \in Nat \ {0} /\ Area \div 2 \in Nat /\ 2 * (Area \div 2) = Area
  BY AreaAssumption
<1>2. CASE device = "005"
  BY <1>1, <1>2 DEF Top, Reserved, UsersOf, Bottom
<1>3. CASE device = "010"
  BY <1>1, <1>3 DEF Top, Reserved, UsersOf, Bottom
<1>4. CASE device = "060"
  BY <1>1, <1>4 DEF Top, Reserved, UsersOf, Bottom
<1>5. CASE device = "090"
  BY <1>1, <1>5 DEF Top, Reserved, UsersOf, Bottom
<1> QED
  BY <1>2, <1>3, <1>4, <1>5 DEF Devices

\* The driver (check_protection_reserved_nvm) lets a range be written exactly if it
\* lies in the memory and no byte of it is reserved or protected against writing.
THEOREM WritableRanges ==
    ASSUME NEW device \in Devices, NEW prot \in ProtectUser,
           NEW offset \in Nat, NEW length \in Nat \ {0}
    PROVE  check_protection_reserved_nvm(device, prot, offset, length) = "NVM_SUCCESS"
             <=> /\ Bytes(offset, length) \subseteq 0..Top(device)
                 /\ Bytes(offset, length) \cap Closed(device, prot) = {}
<1> DEFINE last == offset + length - 1
           users == {u \in UsersOf(device) : prot[u] # "WRITE_ENABLED"}
<1>1. last \in Nat /\ offset <= last /\ last = LastOffset(offset, length)
  BY DEF LastOffset
<1>2. Bytes(offset, length) = offset..last
  BY DEF Bytes
<1>3. Protected(device, prot, offset, length)
        <=> \E user \in users : \E b \in offset..last : b \in ProtectedArea(device, user)
  <2>1. \A user : protection_check(prot[user], length)
    BY DEF protection_check
  <2>2. \A user \in UsersOf(device) :
           Touches(Bottom(device, user), Bottom(device, user) + Area - 1, offset, last)
             <=> \E b \in offset..last : b \in ProtectedArea(device, user)
    <3> TAKE user \in UsersOf(device)
    <3>1. Bottom(device, user) \in Int /\ Bottom(device, user) + Area - 1 \in Int
          /\ Bottom(device, user) <= Bottom(device, user) + Area - 1
      BY AreasAreInts, AreaAssumption
    <3> HIDE DEF last
    <3> QED
      BY <1>1, <3>1, TouchesMeets DEF ProtectedArea
  <2> QED
    BY <1>1, <2>1, <2>2 DEF Protected
<1>4. last <= Top(device) =>
        (Touches(Reserved(device), Top(device), offset, last)
          <=> \E b \in offset..last : b \in Reserved(device)..Top(device))
  <2>1. Reserved(device) \in Int /\ Top(device) \in Int /\ Reserved(device) <= Top(device)
    BY AreasAreInts
  <2> HIDE DEF last
  <2> QED
    BY <1>1, <2>1, TouchesMeets
<1>5. last <= Top(device) <=> offset..last \subseteq 0..Top(device)
  <2>1. Top(device) \in Nat
    BY AreasAreInts
  <2>2. last \in offset..last
    BY <1>1
  <2> HIDE DEF last
  <2> QED
    BY <1>1, <2>1, <2>2
<1>6. (offset..last) \cap Closed(device, prot) = {}
        <=> /\ ~\E b \in offset..last : b \in Reserved(device)..Top(device)
            /\ ~\E user \in users : \E b \in offset..last : b \in ProtectedArea(device, user)
  BY DEF Closed
<1>7. Top(device) \in Nat
  BY AreasAreInts
<1> HIDE DEF last, users
<1>8. check_protection_reserved_nvm(device, prot, offset, length) = "NVM_SUCCESS"
        <=> /\ ~Protected(device, prot, offset, length)
            /\ last <= Top(device)
            /\ ~Touches(Reserved(device), Top(device), offset, last)
  BY <1>1, <1>7 DEF check_protection_reserved_nvm
<1> QED
  BY <1>2, <1>3, <1>4, <1>5, <1>6, <1>8
-----------------------------------------------------------------------------
LEMMA SlotsAreLow ==
    ASSUME NEW id \in Map!ConfIds
    PROVE  /\ Map!Slot(id) \in Nat /\ Map!Slot(id) >= 65536
           /\ Map!Slot(id) + Map!MEM_CITIROC_CONF_LEN <= 102112
BY DEF Map!ConfIds, Map!Slot, Map!MEM_CITIROC_CONF_NVM, Map!MEM_CITIROC_CONF_LEN

\* Everything lies between the reset counter and the last ID, in the open part of
\* the eNVM.
LEMMA ItemsAreLow ==
    ASSUME NEW item \in Map!Items
    PROVE  /\ item[1] \in Nat /\ item[2] \in Nat \ {0}
           /\ item[1] >= 15 * 4096 /\ item[1] + item[2] <= 32 * 4096
<1> USE DEF Map!MEM_RESET_COUNTER, Map!MEM_SEQFLAGS, Map!MEM_CLEAN_POWEROFF, Map!MEM_CITIROC_CONF_ID
<1>1. CASE \E id \in Map!ConfIds : item = <<Map!Slot(id), Map!MEM_CITIROC_CONF_LEN>>
  BY <1>1, SlotsAreLow DEF Map!MEM_CITIROC_CONF_LEN
<1>2. CASE item \in { <<Map!MEM_RESET_COUNTER, 4>>, <<Map!MEM_SEQFLAGS, 16>>,
                      <<Map!MEM_CLEAN_POWEROFF, 1>>, <<Map!MEM_CITIROC_CONF_ID, 1>> }
  BY <1>2
<1> QED
  BY <1>1, <1>2 DEF Map!Items

\* On the device of CUBES (an M2S010, with areas of 4096 bytes) whatever is protected,
\* all that main.c and mem.c write passes the driver's check.
THEOREM MapIsWritable ==
    ASSUME Area = 4096, NEW prot \in ProtectUser, NEW item \in Map!Items
    PROVE  check_protection_reserved_nvm("010", prot, item[1], item[2]) = "NVM_SUCCESS"
<1>1. item[1] \in Nat /\ item[2] \in Nat \ {0}
      /\ item[1] >= 15 * 4096 /\ item[1] + item[2] <= 32 * 4096
  BY ItemsAreLow
<1>2. LastOffset(item[1], item[2]) = item[1] + item[2] - 1
  BY <1>1 DEF LastOffset
<1>3. ~Protected("010", prot, item[1], item[2])
  <2>1. \A user \in {0, 1} :
           ~Touches(Bottom("010", user), Bottom("010", user) + Area - 1, item[1],
                    item[1] + item[2] - 1)
    BY <1>1 DEF Bottom, Touches
  <2> QED
    BY <1>2, <2>1 DEF Protected, UsersOf
<1>4. ~Touches(Reserved("010"), Top("010"), item[1], item[1] + item[2] - 1)
  <2>1. Reserved("010") = 63 * 4096 + 2048
    BY DEF Reserved
  <2> QED
    BY <1>1, <2>1 DEF Touches
<1>5. item[1] + item[2] - 1 <= Top("010")
  BY <1>1 DEF Top
<1> QED
  BY <1>1, <1>2, <1>3, <1>4, <1>5 DEF check_protection_reserved_nvm, Top

\* The slots of two configurations have no byte in common.
THEOREM SlotsAreApart ==
    ASSUME NEW a \in Map!ConfIds, NEW b \in Map!ConfIds, a < b
    PROVE  Map!Slot(a) + Map!MEM_CITIROC_CONF_LEN <= Map!Slot(b)
BY DEF Map!ConfIds, Map!Slot, Map!MEM_CITIROC_CONF_NVM, Map!MEM_CITIROC_CONF_LEN

\* What a fault of the memory spoils when something is written - at most a page of it
\* - is nothing else that CUBES keeps, unless both are configurations: the sequence
\* flags, their clean mark, the reset counter and the stored ID are on their own.
THEOREM PagesAreApart ==
    ASSUME NEW a \in Map!Items, NEW b \in Map!Items, a # b, Map!SharePage(a, b)
    PROVE  \E i, j \in Map!ConfIds : a[1] = Map!Slot(i) /\ b[1] = Map!Slot(j)
<1> DEFINE Single == { <<Map!MEM_RESET_COUNTER, 4>>, <<Map!MEM_SEQFLAGS, 16>>,
                       <<Map!MEM_CLEAN_POWEROFF, 1>>, <<Map!MEM_CITIROC_CONF_ID, 1>> }
<1>1. Map!FirstPage(<<Map!MEM_RESET_COUNTER, 4>>) = 480 /\ Map!LastPage(<<Map!MEM_RESET_COUNTER, 4>>) = 480
  BY DEF Map!FirstPage, Map!LastPage, Map!Page, Map!BYTES_PER_PAGE, Map!MEM_RESET_COUNTER
<1>2. Map!FirstPage(<<Map!MEM_SEQFLAGS, 16>>) = 482 /\ Map!LastPage(<<Map!MEM_SEQFLAGS, 16>>) = 482
  BY DEF Map!FirstPage, Map!LastPage, Map!Page, Map!BYTES_PER_PAGE, Map!MEM_SEQFLAGS
<1>3. Map!FirstPage(<<Map!MEM_CLEAN_POWEROFF, 1>>) = 484 /\ Map!LastPage(<<Map!MEM_CLEAN_POWEROFF, 1>>) = 484
  BY DEF Map!FirstPage, Map!LastPage, Map!Page, Map!BYTES_PER_PAGE, Map!MEM_CLEAN_POWEROFF
<1>4. Map!FirstPage(<<Map!MEM_CITIROC_CONF_ID, 1>>) = 1023 /\ Map!LastPage(<<Map!MEM_CITIROC_CONF_ID, 1>>) = 1023
  BY DEF Map!FirstPage, Map!LastPage, Map!Page, Map!BYTES_PER_PAGE, Map!MEM_CITIROC_CONF_ID
<1>5. \A id \in Map!ConfIds :
         LET slot == <<Map!Slot(id), Map!MEM_CITIROC_CONF_LEN>>
         IN  Map!FirstPage(slot) >= 512 /\ Map!FirstPage(slot) <= Map!LastPage(slot)
             /\ Map!LastPage(slot) < 1023
  <2> TAKE id \in Map!ConfIds
  <2>1. Map!Slot(id) \in Nat /\ Map!Slot(id) >= 65536 /\ Map!Slot(id) + 144 <= 102112
    BY SlotsAreLow DEF Map!MEM_CITIROC_CONF_LEN
  <2> QED
    BY <2>1 DEF Map!FirstPage, Map!LastPage, Map!Page, Map!BYTES_PER_PAGE, Map!MEM_CITIROC_CONF_LEN
<1>6. a \in Single => ~Map!SharePage(a, b)
  <2> SUFFICES ASSUME a \in Single PROVE ~Map!SharePage(a, b)
    OBVIOUS
  <2>1. CASE b \in Single
    BY <1>1, <1>2, <1>3, <1>4, <2>1 DEF Map!SharePage
  <2>2. CASE \E id \in Map!ConfIds : b = <<Map!Slot(id), Map!MEM_CITIROC_CONF_LEN>>
    <3>1. Map!FirstPage(b) >= 512 /\ Map!LastPage(b) < 1023 /\ Map!FirstPage(b) \in Int /\ Map!LastPage(b) \in Int
      BY <1>5, <2>2, SlotsAreLow DEF Map!FirstPage, Map!LastPage, Map!Page, Map!BYTES_PER_PAGE, Map!MEM_CITIROC_CONF_LEN
    <3> QED
      BY <1>1, <1>2, <1>3, <1>4, <3>1 DEF Map!SharePage
  <2> QED
    BY <2>1, <2>2 DEF Map!Items
<1>7. b \in Single => ~Map!SharePage(a, b)
  <2> SUFFICES ASSUME b \in Single, a \notin Single PROVE ~Map!SharePage(a, b)
    BY <1>6
  <2>1. PICK id \in Map!ConfIds : a = <<Map!Slot(id), Map!MEM_CITIROC_CONF_LEN>>
    BY DEF Map!Items
  <2>2. Map!FirstPage(a) >= 512 /\ Map!LastPage(a) < 1023 /\ Map!FirstPage(a) \in Int /\ Map!LastPage(a) \in Int
    BY <1>5, <2>1, SlotsAreLow DEF Map!FirstPage, Map!LastPage, Map!Page, Map!BYTES_PER_PAGE, Map!MEM_CITIROC_CONF_LEN
  <2> QED
    BY <1>1, <1>2, <1>3, <1>4, <2>2 DEF Map!SharePage
<1> QED
  BY <1>6, <1>7 DEF Map!Items
-----------------------------------------------------------------------------
(* Writing, and the configurations. *)

\* The pieces in which NVM_write programs a range (get_remaining_page_length): each
\* has a byte at least, and ends with the range or at the end of the page.
THEOREM PiecesFit ==
    ASSUME BYTES_PER_PAGE = 128, NEW offset \in Nat, NEW length \in Nat \ {0}
    PROVE  LET piece == get_remaining_page_length(offset, length)
           IN  /\ piece \in 1..length
               /\ Page(offset + piece - 1) = Page(offset)
               /\ piece = length \/ (offset + piece) % BYTES_PER_PAGE = 0
BY DEF get_remaining_page_length, Page

\* The WD buffer (fill_wd_buffer) holds the data where they are to be written, and
\* everywhere else in the page what the page holds: the neighbours are kept, and no
\* byte is left over from an earlier page, however the range lies in its words.
THEOREM BufferIsPage ==
    ASSUME BYTES_PER_PAGE = 128, NB_OF_BYTES_IN_A_WORD = 4,
           NEW offset \in Nat, NEW length \in Nat \ {0},
           Page(offset + length - 1) = Page(offset),
           NEW page, DOMAIN page = BytesOf(Page(offset)), NEW data,
           NEW b \in BytesOf(Page(offset))
    PROVE  fill_wd_buffer(page, data, offset, length)[b]
             = IF b \in offset .. offset + length - 1 THEN data[b] ELSE page[b]
<1> DEFINE k == Page(offset)
           kept == /\ length # 128
                   /\ \/ (b % 128) \div 4 < NonWrittenWords(offset)
                      \/ (b % 128) \div 4 >= FirstNonWrittenWord(offset, length)
<1>1. /\ k \in Nat /\ b \in Nat
      /\ 128 * k <= offset /\ offset + length <= 128 * k + 128
      /\ 128 * k <= b /\ b < 128 * k + 128
  BY DEF Page, BytesOf
<1>2. /\ b % 128 = b - 128 * k /\ offset % 128 = offset - 128 * k
  BY <1>1
<1>3. (offset + length) % 128 = IF offset + length = 128 * k + 128 THEN 0
                                 ELSE offset + length - 128 * k
  <2> DEFINE e == offset + length
  <2>1. e \in Nat /\ 128 * k < e /\ e <= 128 * k + 128
    BY <1>1
  <2> HIDE DEF e, k
  <2>2. CASE e = 128 * k + 128
    <3>1. e % 128 = 0
      BY <1>1, <2>2
    <3> QED
      BY <2>2, <3>1 DEF e
  <2>3. CASE e # 128 * k + 128
    <3>1. e % 128 = e - 128 * k
      BY <1>1, <2>1, <2>3
    <3> QED
      BY <1>1, <2>3, <3>1 DEF e
  <2> QED
    BY <2>2, <2>3
<1>4. offset % 4 = (offset - 128 * k) % 4
  BY <1>1
<1>5. b \notin offset .. offset + length - 1 => kept
  <2> SUFFICES ASSUME b < offset \/ b >= offset + length PROVE kept
    BY <1>1
  <2>1. length # 128
    BY <1>1
  <2>2. CASE b < offset
    <3>1. (b % 128) \div 4 < NonWrittenWords(offset)
      BY <1>1, <1>2, <1>4, <2>2 DEF NonWrittenWords
    <3> QED
      BY <2>1, <3>1
  <2>3. CASE b >= offset + length
    <3>1. (b % 128) \div 4 >= FirstNonWrittenWord(offset, length)
      BY <1>1, <1>2, <1>3, <2>3 DEF FirstNonWrittenWord
    <3> QED
      BY <2>1, <3>1
  <2> QED
    BY <2>2, <2>3
<1>6. b \in offset .. offset + length - 1 <=> offset <= b /\ b < offset + length
  BY <1>1
<1>7. fill_wd_buffer(page, data, offset, length)[b]
        = IF offset <= b /\ b < offset + length THEN data[b]
          ELSE IF kept THEN page[b] ELSE Spoilt
  BY DEF fill_wd_buffer
<1> HIDE DEF kept
<1> QED
  BY <1>5, <1>6, <1>7
-----------------------------------------------------------------------------
LEMMA SelectReports ==
    ASSUME NEW conf, NEW id, Select(conf, id),
           id \in Ids => conf[MEM_CITIROC_CONF_LEN] = id
    PROVE  ReportedSlotRuns'
BY DEF Select, Apply, ReportedSlotRuns

LEMMA ValidSlotHasId ==
    ASSUME NEW id, SlotValid(id)
    PROVE  Slot(id)[MEM_CITIROC_CONF_LEN] = id
BY DEF SlotValid

LEMMA NotASlot == Default \notin Ids /\ Temporary \notin Ids
BY IdsAssumption DEF Default, Temporary

LEMMA StepReports ==
    ASSUME ReportedSlotRuns, [ConfNext]_confVars
    PROVE  ReportedSlotRuns'
<1>1. CASE Boot
  <2> DEFINE stored == memory[MEM_CITIROC_CONF_ID_ADDR]
  <2>1. CASE SlotValid(stored) /\ Select(Slot(stored), stored)
    BY <2>1, SelectReports, ValidSlotHasId
  <2>2. CASE Select(DefaultConf, Default)
    BY <2>2, SelectReports, NotASlot
  <2>3. CASE UNCHANGED <<nvmVars, asic, conf_id>>
    BY <2>3 DEF ReportedSlotRuns
  <2> QED
    BY <1>1, <2>1, <2>2, <2>3 DEF Boot
<1>2. ASSUME NEW body \in Bodies, SEND_CUBES_CITI_CONF(body) PROVE ReportedSlotRuns'
  BY <1>2, NotASlot DEF SEND_CUBES_CITI_CONF, Apply, ReportedSlotRuns
<1>3. ASSUME NEW id \in Ids \cup {Default}, SELECT_NVM_CITI_CONF(id) PROVE ReportedSlotRuns'
  BY <1>3, SelectReports, ValidSlotHasId, NotASlot DEF SELECT_NVM_CITI_CONF
<1>4. ASSUME NEW body \in Bodies, NEW id \in Ids, SEND_NVM_CITI_CONF(body, id)
      PROVE  ReportedSlotRuns'
  BY <1>4 DEF SEND_NVM_CITI_CONF, ReportedSlotRuns
<1>5. CASE NvmNext /\ UNCHANGED <<at, asic, conf_id, selected>>
  BY <1>5 DEF ReportedSlotRuns
<1>6. CASE EndStore
  BY <1>6 DEF EndStore, ReportedSlotRuns
<1>7. CASE PowerFails
  BY <1>7, NotASlot DEF PowerFails, ReportedSlotRuns
<1>8. CASE UNCHANGED confVars
  BY <1>8 DEF confVars, ReportedSlotRuns
<1> QED
  BY <1>1, <1>2, <1>3, <1>4, <1>5, <1>6, <1>7, <1>8 DEF ConfNext

\* Whatever the memory does to a slot, the configuration that the header of the payload
\* names is the one the ASIC was sent.
THEOREM ReportIsTrue == ConfSpec => []ReportedSlotRuns
<1>1. ConfInit => ReportedSlotRuns
  BY NotASlot DEF ConfInit, ReportedSlotRuns
<1>2. ReportedSlotRuns /\ [ConfNext]_confVars => ReportedSlotRuns'
  BY StepReports
<1> QED
  BY <1>1, <1>2, PTL DEF ConfSpec
-----------------------------------------------------------------------------
(* Storing, and what is stored. *)

\* The slots and the stored ID are in memory, apart, and may be written, and pages
\* and words are those of the device.
ItemsFit ==
    /\ BYTES_PER_PAGE = 128 /\ NB_OF_BYTES_IN_A_WORD = 4
    /\ MEM_CITIROC_CONF_LEN \in Nat \ {0}
    /\ MEM_CITIROC_CONF_ID_ADDR \in Offsets
    /\ \A id \in Ids : Addr(id) \in Nat /\ SlotBytes(id) \subseteq Offsets
                       /\ MEM_CITIROC_CONF_ID_ADDR \notin SlotBytes(id)
    /\ \A a, b \in Ids : a # b => SlotBytes(a) \cap SlotBytes(b) = {}
    /\ \A prot \in Protections :
        /\ check_protection_reserved_nvm(Device, prot, MEM_CITIROC_CONF_ID_ADDR, 1) = "NVM_SUCCESS"
        /\ \A id \in Ids :
              check_protection_reserved_nvm(Device, prot, Addr(id), MEM_CITIROC_CONF_LEN)
                = "NVM_SUCCESS"

SlotRequest(body, id) == [addr |-> Addr(id), data |-> Append(body, id)]
IdRequest(id) == [addr |-> MEM_CITIROC_CONF_ID_ADDR, data |-> <<id>>]
Requests == {SlotRequest(body, id) : body \in Bodies, id \in Ids}
            \cup {IdRequest(id) : id \in Ids \cup {Default}}

Busy == {"unlock_access", "unlock", "write_access", "write"}

NvmTypes ==
    /\ phase \in Busy \cup {"idle", "end"}
    /\ held \in BOOLEAN /\ (held <=> phase \in {"unlock", "write"})
    /\ done \in Nat /\ levels \in Protections /\ trouble \in BOOLEAN /\ locked \subseteq Nat
    /\ phase # "idle" => request \in Requests

\* The bytes being stored count as bad until the call has returned.
Unsettled == phase # "idle" => Range \subseteq bad

\* As long as nothing went wrong the call goes on, from page to page.
GoesOn ==
    /\ phase \in Busy => ~trouble /\ GoOn(status)
    /\ phase \in {"unlock_access", "write_access"} => done = 0

Unlocking ==
    phase = "unlock" =>
        /\ FirstPage + done <= LastPage
        /\ \A page \in locked : ~(FirstPage <= page /\ page < FirstPage + done)

\* What is to be written is unlocked, and begins with a page of its own.
Writing ==
    /\ phase \in {"write_access", "write"} =>
        \A page \in locked : ~(Page(request.addr + done) <= page /\ page <= LastPage)
    /\ phase = "write" =>
        /\ done < Length
        /\ done > 0 => (request.addr + done) % BYTES_PER_PAGE = 0
        /\ \A b \in Range : b < request.addr + done => memory[b] = Data[b]

\* The status tells the truth, whatever the memory did.
Ended ==
    phase = "end" =>
        /\ Stored <=> ~trouble
        /\ ~trouble => \A b \in Range : memory[b] = Data[b]

NvmIInv == NvmTypes /\ Unsettled /\ GoesOn /\ Unlocking /\ Writing /\ Ended

Caller ==
    /\ (at = "storing") <=> (phase # "idle")
    /\ selected \in Ids \cup {Default}
    /\ at = "off" => conf_id = Default

\* The ID being stored is that of the selection, and so is the one that was stored.
IdKept ==
    /\ \A id : (phase # "idle" /\ request = IdRequest(id)) => id = selected
    /\ MEM_CITIROC_CONF_ID_ADDR \notin bad =>
        \/ memory[MEM_CITIROC_CONF_ID_ADDR] = selected
        \/ memory[MEM_CITIROC_CONF_ID_ADDR] = Erased /\ selected = Default

\* A slot that was selected holds its own ID, unless it was spoilt.
SelectionValid ==
    (selected \in Ids /\ SlotBytes(selected) \cap bad = {})
        => Slot(selected)[MEM_CITIROC_CONF_LEN] = selected

ConfIInv == NvmIInv /\ Caller /\ IdKept /\ SelectionValid /\ WholeConf
-----------------------------------------------------------------------------
LEMMA BytesOfPage ==
    ASSUME BYTES_PER_PAGE = 128, NEW page \in Nat, NEW b \in Nat
    PROVE  Page(b) \in Nat /\ (b \in BytesOf(page) <=> Page(b) = page)
BY DEF Page, BytesOf

LEMMA OffsetsAreNats == ASSUME BYTES_PER_PAGE = 128 PROVE Offsets \subseteq Nat
BY UsedPagesAssumption DEF Offsets, BytesOf

\* The theorems below assume no more of the map than holds of that of mem.h, on the
\* device of CUBES, for any protections, as long as the pages of what it stores are
\* among those of the model.
THEOREM MapFits ==
    ASSUME Area = 4096, Device = "010", BYTES_PER_PAGE = 128, NB_OF_BYTES_IN_A_WORD = 4,
           MEM_CITIROC_CONF_LEN = Map!MEM_CITIROC_CONF_LEN,
           MEM_CITIROC_CONF_ADDR_NVM = Map!MEM_CITIROC_CONF_NVM,
           MEM_CITIROC_CONF_ID_ADDR = Map!MEM_CITIROC_CONF_ID,
           \A item \in Map!Items :
               \A b \in Bytes(item[1], item[2]) : Map!Page(b) \in UsedPages
    PROVE  ItemsFit
<1>1. /\ MEM_CITIROC_CONF_LEN = 144 /\ MEM_CITIROC_CONF_ADDR_NVM = 65536
      /\ MEM_CITIROC_CONF_ID_ADDR = 131056
  BY DEF Map!MEM_CITIROC_CONF_LEN, Map!MEM_CITIROC_CONF_NVM, Map!MEM_CITIROC_CONF_ID
<1>2. \A id \in Ids : id \in Map!ConfIds /\ id \in Nat /\ Addr(id) = Map!Slot(id)
  BY IdsAssumption DEF Map!ConfIds, Addr, Map!Slot
<1>3. \A id \in Ids : Addr(id) \in Nat /\ Addr(id) + 144 <= 102112
  BY <1>2, SlotsAreLow DEF Map!MEM_CITIROC_CONF_LEN
<1>4. \A id \in Ids : <<Addr(id), MEM_CITIROC_CONF_LEN>> \in Map!Items
  BY <1>2 DEF Map!Items
<1>5. \A id \in Ids : SlotBytes(id) = Bytes(Addr(id), MEM_CITIROC_CONF_LEN)
  BY DEF SlotBytes, Bytes
<1>6. /\ <<MEM_CITIROC_CONF_ID_ADDR, 1>> \in Map!Items
      /\ Bytes(MEM_CITIROC_CONF_ID_ADDR, 1) = {MEM_CITIROC_CONF_ID_ADDR}
  BY <1>1 DEF Map!Items, Bytes
<1>7. ASSUME NEW b \in Nat, Map!Page(b) \in UsedPages PROVE b \in Offsets
  <2>1. Page(b) = Map!Page(b)
    BY DEF Page, Map!Page, Map!BYTES_PER_PAGE
  <2>2. b \in BytesOf(Page(b))
    BY BytesOfPage, <2>1, UsedPagesAssumption
  <2> QED
    BY <1>7, <2>1, <2>2 DEF Offsets
<1>8. MEM_CITIROC_CONF_ID_ADDR \in Offsets
  BY <1>1, <1>6, <1>7
<1>9. \A id \in Ids : /\ SlotBytes(id) \subseteq Offsets
                      /\ MEM_CITIROC_CONF_ID_ADDR \notin SlotBytes(id)
  <2> TAKE id \in Ids
  <2>1. ASSUME NEW b \in SlotBytes(id) PROVE b \in Nat /\ b < 102112
    <3>1. Addr(id) \in Nat /\ Addr(id) + 144 <= 102112
      BY <1>3
    <3>2. b \in Addr(id) .. Addr(id) + 144 - 1
      BY <1>1, <2>1 DEF SlotBytes
    <3> HIDE DEF Addr
    <3> QED
      BY <3>1, <3>2
  <2>2. \A b \in SlotBytes(id) : Map!Page(b) \in UsedPages
    <3> DEFINE item == <<Addr(id), MEM_CITIROC_CONF_LEN>>
    <3>1. item \in Map!Items /\ SlotBytes(id) = Bytes(item[1], item[2])
      BY <1>4, <1>5
    <3> HIDE DEF item
    <3> QED
      BY <3>1
  <2> QED
    BY <1>1, <1>7, <2>1, <2>2
<1>10. \A a, b \in Ids : a < b => SlotBytes(a) \cap SlotBytes(b) = {}
  <2> SUFFICES ASSUME NEW a \in Ids, NEW b \in Ids, a < b
               PROVE  SlotBytes(a) \cap SlotBytes(b) = {}
    OBVIOUS
  <2>1. Addr(a) + 144 <= Addr(b)
    BY <1>1, <1>2, SlotsAreApart DEF Map!MEM_CITIROC_CONF_LEN
  <2>2. /\ Addr(a) \in Nat /\ Addr(b) \in Nat
        /\ SlotBytes(a) = Addr(a) .. Addr(a) + 144 - 1
        /\ SlotBytes(b) = Addr(b) .. Addr(b) + 144 - 1
    BY <1>1, <1>3 DEF SlotBytes
  <2> QED
    BY <2>1, <2>2
<1>11. \A a, b \in Ids : a # b => SlotBytes(a) \cap SlotBytes(b) = {}
  <2>1. \A a, b \in Ids : a # b => a < b \/ b < a
    BY <1>2
  <2> QED
    BY <1>10, <2>1
<1>12. ASSUME NEW prot \in Protections, NEW addr, NEW length, <<addr, length>> \in Map!Items
       PROVE  check_protection_reserved_nvm(Device, prot, addr, length) = "NVM_SUCCESS"
  <2> DEFINE item == <<addr, length>>
  <2>1. item[1] = addr /\ item[2] = length /\ item \in Map!Items
    BY <1>12
  <2>2. prot \in ProtectUser
    BY DeviceAssumption
  <2> HIDE DEF item
  <2> QED
    BY <2>1, <2>2, MapIsWritable
<1>13. \A prot \in Protections :
        /\ check_protection_reserved_nvm(Device, prot, MEM_CITIROC_CONF_ID_ADDR, 1) = "NVM_SUCCESS"
        /\ \A id \in Ids :
              check_protection_reserved_nvm(Device, prot, Addr(id), MEM_CITIROC_CONF_LEN)
                = "NVM_SUCCESS"
  BY <1>6, <1>12, <1>4
<1>14. MEM_CITIROC_CONF_LEN \in Nat \ {0}
  BY <1>1
<1>15. \A id \in Ids : Addr(id) \in Nat
  BY <1>3
<1> QED
  BY <1>8, <1>9, <1>11, <1>13, <1>14, <1>15 DEF ItemsFit

\* A request is for bytes of the memory that may be written.
LEMMA RequestFits ==
    ASSUME ItemsFit, NEW r \in Requests
    PROVE  /\ r.addr \in Nat /\ Len(r.data) \in Nat \ {0}
           /\ r.addr .. r.addr + Len(r.data) - 1 \subseteq Offsets
           /\ \A prot \in Protections :
                check_protection_reserved_nvm(Device, prot, r.addr, Len(r.data)) = "NVM_SUCCESS"
           /\ r # NoRequest
<1>1. ASSUME NEW body \in Bodies, NEW id \in Ids
      PROVE  Len(SlotRequest(body, id).data) = MEM_CITIROC_CONF_LEN
  <2>1. body \in Seq(Nat) /\ Len(body) = MEM_CITIROC_CONF_LEN - 1
    BY BodiesAssumption
  <2>2. Len(Append(body, id)) = Len(body) + 1
    BY <2>1, IdsAssumption
  <2> QED
    BY <2>1, <2>2 DEF SlotRequest, ItemsFit
<1>2. ASSUME NEW id PROVE IdRequest(id).data = <<id>> /\ Len(<<id>>) = 1
  BY DEF IdRequest
<1>3. /\ r.addr \in Nat /\ Len(r.data) \in Nat \ {0}
      /\ r.addr .. r.addr + Len(r.data) - 1 \subseteq Offsets
      /\ \A prot \in Protections :
           check_protection_reserved_nvm(Device, prot, r.addr, Len(r.data)) = "NVM_SUCCESS"
  <2>1. CASE \E body \in Bodies, id \in Ids : r = SlotRequest(body, id)
    <3>1. PICK body \in Bodies, id \in Ids : r = SlotRequest(body, id)
      BY <2>1
    <3>2. r.addr = Addr(id) /\ Len(r.data) = MEM_CITIROC_CONF_LEN
      BY <3>1, <1>1 DEF SlotRequest
    <3> QED
      BY <3>2 DEF ItemsFit, SlotBytes
  <2>2. CASE \E id : r = IdRequest(id)
    <3>1. r.addr = MEM_CITIROC_CONF_ID_ADDR /\ Len(r.data) = 1
      BY <2>2, <1>2 DEF IdRequest
    <3>2. MEM_CITIROC_CONF_ID_ADDR \in Nat
      BY OffsetsAreNats DEF ItemsFit
    <3>3. r.addr .. r.addr + Len(r.data) - 1 = {MEM_CITIROC_CONF_ID_ADDR}
      BY <3>1, <3>2
    <3> QED
      BY <3>1, <3>2, <3>3 DEF ItemsFit
  <2> QED
    BY <2>1, <2>2 DEF Requests
<1>4. r # NoRequest
  <2>1. NoRequest.data = <<>> /\ Len(<<>>) = 0
    BY DEF NoRequest
  <2> QED
    BY <2>1, <1>3
<1> QED
  BY <1>3, <1>4

\* The call that is under way.
LEMMA CallFits ==
    ASSUME ItemsFit, NvmTypes, phase # "idle"
    PROVE  /\ request.addr \in Nat /\ Length \in Nat \ {0}
           /\ Range \subseteq Offsets /\ Range \subseteq Nat
           /\ Checked(request.addr, Length) = "NVM_SUCCESS"
           /\ request # NoRequest
           /\ FirstPage \in Nat /\ LastPage \in Nat /\ FirstPage <= LastPage
           /\ \A b \in Range : Page(b) \in FirstPage .. LastPage
           /\ \A page \in FirstPage .. LastPage : \E b \in Range : Page(b) = page
<1>1. /\ request.addr \in Nat /\ Length \in Nat \ {0}
      /\ Range \subseteq Offsets
      /\ Checked(request.addr, Length) = "NVM_SUCCESS"
      /\ request # NoRequest
  BY RequestFits DEF NvmTypes, Length, Range, Checked
<1>2. Range \subseteq Nat
  BY <1>1 DEF Range
<1>3. BYTES_PER_PAGE = 128
  BY DEF ItemsFit
<1>4. FirstPage \in Nat /\ LastPage \in Nat /\ FirstPage <= LastPage
  BY <1>1, <1>3 DEF FirstPage, LastPage, Page
<1>5. ASSUME NEW b \in Range PROVE Page(b) \in FirstPage .. LastPage
  BY <1>1, <1>3 DEF FirstPage, LastPage, Page, Range
<1>6. ASSUME NEW page \in FirstPage .. LastPage PROVE \E b \in Range : Page(b) = page
  <2>1. page \in Nat
    BY <1>4
  <2>2. CASE page = FirstPage
    BY <1>1, <2>2 DEF FirstPage, Range
  <2>3. CASE page # FirstPage
    <3>1. 128 * page \in Range /\ Page(128 * page) = page
      BY <1>1, <1>3, <2>1, <2>3 DEF FirstPage, LastPage, Page, Range
    <3> QED
      BY <3>1
  <2> QED
    BY <2>2, <2>3
<1> QED
  BY <1>1, <1>2, <1>4, <1>5, <1>6

\* The same as the abstract store sees it.
LEMMA StoreView ==
    ASSUME ItemsFit, NvmTypes, phase # "idle"
    PROVE  /\ Store!Asked = Range
           /\ \A b \in Range : Store!Wanted(b) = Data[b]
           /\ Store!Pages = {Page(b) : b \in Range}
<1>1. /\ request.addr \in Nat /\ Length \in Nat \ {0}
      /\ Range \subseteq Offsets /\ Offsets \subseteq Nat
  BY CallFits, OffsetsAreNats DEF ItemsFit
<1>2. Store!Asked = {b \in Offsets : request.addr <= b /\ b < request.addr + Length}
  BY DEF Store!Asked, Length
<1>3. Store!Asked = Range
  <2>1. \A b \in Offsets : b \in Range <=> request.addr <= b /\ b < request.addr + Length
    BY <1>1 DEF Range
  <2> QED
    BY <1>1, <1>2, <2>1
<1>4. ASSUME NEW b \in Range PROVE Store!Wanted(b) = Data[b]
  BY DEF Store!Wanted, Data
<1> QED
  BY <1>3, <1>4 DEF Store!Pages
-----------------------------------------------------------------------------
(* Programming a page that is not locked. *)

Succeeded(page, image, locks, lock, flags) ==
    /\ flags \in {{}, {"WRCNT_OVER"}}
    /\ UNCHANGED <<trouble, bad>>
    /\ locked' = IF lock THEN locks \cup {page} ELSE locks
    /\ \A b \in Offsets : memory'[b] = IF Page(b) = page THEN image[b] ELSE memory[b]

Failed(page, locks, flags) ==
    /\ flags # {}
    /\ get_error_code(flags) \in {"NVM_PROTECTION_ERROR", "NVM_VERIFY_FAILURE"}
    /\ trouble' = TRUE
    /\ locked' = locks
    /\ \/ UNCHANGED <<memory, bad>>
       \/ /\ bad' = bad \cup BytesOf(page)
          /\ \A b \in Offsets : Page(b) # page => memory'[b] = memory[b]

LEMMA ProgramEnds ==
    ASSUME BYTES_PER_PAGE = 128, NEW page \in Nat, NEW image, NEW locks, NEW lock, NEW flags,
           Program(page, image, locks, lock, flags), page \notin locks
    PROVE  Succeeded(page, image, locks, lock, flags) \/ Failed(page, locks, flags)
<1>1. ASSUME NEW im PROVE \A b \in Offsets : With(page, im)[b] = IF Page(b) = page THEN im[b] ELSE memory[b]
  BY BytesOfPage, OffsetsAreNats DEF With
<1>2. /\ get_error_code({"WR_DENIED"}) = "NVM_PROTECTION_ERROR"
      /\ get_error_code({"VERIFY_FAIL"}) = "NVM_VERIFY_FAILURE"
      /\ get_error_code({"VERIFY_FAIL", "WRCNT_OVER"}) = "NVM_VERIFY_FAILURE"
  BY DEF get_error_code
<1>3. CASE /\ flags \in {{}, {"WRCNT_OVER"}}
           /\ memory' = With(page, image)
           /\ locked' = IF lock THEN locks \cup {page} ELSE locks
           /\ UNCHANGED <<faults, trouble, bad>>
  BY <1>1, <1>3 DEF Succeeded
<1>4. CASE /\ flags = {"WR_DENIED"} /\ locked' = locks /\ trouble' = TRUE
           /\ UNCHANGED <<memory, bad>>
  BY <1>2, <1>4 DEF Failed
<1>5. CASE /\ flags \in {{"VERIFY_FAIL"}, {"VERIFY_FAIL", "WRCNT_OVER"}}
           /\ \E spoilt \in SpoiltPages(page, image) : memory' = With(page, spoilt)
           /\ locked' = locks /\ trouble' = TRUE /\ bad' = bad \cup BytesOf(page)
  BY <1>1, <1>2, <1>5 DEF Failed
<1> QED
  BY <1>3, <1>4, <1>5 DEF Program
-----------------------------------------------------------------------------
\* Bytes change only if they count as bad.
Frame ==
    /\ bad \subseteq bad'
    /\ \A b \in Offsets : b \notin bad' => memory'[b] = memory[b]

LEMMA Begins ==
    ASSUME ItemsFit, NvmIInv, NEW r \in Requests, mem_write_nvm(r.addr, r.data)
    PROVE  /\ NvmIInv' /\ Store!StoreNext /\ Frame
           /\ phase' # "idle" /\ request' = r
<1>1. request' = r
  <2>1. r = [addr |-> r.addr, data |-> r.data]
    BY DEF Requests, SlotRequest, IdRequest
  <2> QED
    BY <2>1 DEF mem_write_nvm
<1>2. phase = "idle" /\ ~held /\ levels' = levels /\ levels \in Protections
  BY DEF mem_write_nvm, NvmIInv, NvmTypes
<1>3. status' = "NVM_SUCCESS" /\ phase' = "unlock_access"
  BY <1>2, RequestFits DEF mem_write_nvm, Checked
<1>4. NvmTypes'
  <2>1. held' \in BOOLEAN /\ (held' <=> phase' \in {"unlock", "write"})
    BY <1>2, <1>3 DEF mem_write_nvm, NvmIInv, NvmTypes
  <2>2. done' = 0 /\ trouble' = FALSE /\ locked' = locked /\ locked \subseteq Nat
    BY DEF mem_write_nvm, NvmIInv, NvmTypes
  <2> QED
    BY <1>1, <1>2, <1>3, <2>1, <2>2 DEF NvmTypes, Busy
<1>5. Unsettled' /\ Frame
  BY <1>1 DEF mem_write_nvm, Unsettled, Frame, Range, Length
<1>6. GoesOn' /\ Unlocking' /\ Writing' /\ Ended'
  BY <1>3 DEF mem_write_nvm, GoesOn, GoOn, Unlocking, Writing, Ended
<1>7. Store!Store
  BY <1>1, <1>2, <1>3, RequestFits DEF mem_write_nvm, Store!Store, Store!Nothing, NoRequest
<1> QED
  BY <1>1, <1>3, <1>4, <1>5, <1>6, <1>7 DEF NvmIInv, Store!StoreNext

\* A step during a call is a part of it, or a failure.
LEMMA Proceeds ==
    ASSUME ItemsFit, NvmIInv, phase # "idle", phase' # "idle",
           request' = request, trouble' = trouble,
           \A b \in Offsets : memory'[b] = memory[b] \/ (b \in Range /\ memory'[b] = Data[b])
    PROVE  Store!StoreNext
<1>1. Store!Asked = Range /\ \A b \in Range : Store!Wanted(b) = Data[b]
  BY StoreView DEF NvmIInv
<1>2. Store!Proceed
  <2>1. \A b \in Offsets : \/ memory'[b] = memory[b]
                           \/ b \in Store!Asked /\ memory'[b] = Store!Wanted(b)
    BY <1>1
  <2> QED
    BY <2>1 DEF Store!Proceed
<1> QED
  BY <1>2 DEF Store!StoreNext

LEMMA Fails ==
    ASSUME ItemsFit, NvmIInv, phase # "idle", phase' # "idle", UNCHANGED request,
           trouble' = TRUE, NEW page \in FirstPage .. LastPage,
           \/ UNCHANGED memory
           \/ \A b \in Offsets : Page(b) # page => memory'[b] = memory[b]
    PROVE  Store!StoreNext
<1>1. page \in Store!Pages
  <2>1. \E b \in Range : Page(b) = page
    BY CallFits DEF NvmIInv
  <2> QED
    BY <2>1, StoreView DEF NvmIInv
<1>2. UNCHANGED memory \/ \E p \in Store!Pages : Store!DamageIn(p)
  BY <1>1 DEF Store!DamageIn
<1>3. Store!Fail
  BY <1>2 DEF Store!Fail
<1> QED
  BY <1>3 DEF Store!StoreNext

LEMMA AccessSteps ==
    ASSUME ItemsFit, NvmIInv, GetAccess
    PROVE  /\ NvmIInv' /\ Store!StoreNext /\ Frame
           /\ phase' # "idle" /\ request' = request
<1> USE DEF NvmIInv
<1>1. /\ phase \in {"unlock_access", "write_access"}
      /\ UNCHANGED <<memory, locked, levels, request, done, bad>>
      /\ ~held /\ done = 0 /\ ~trouble /\ GoOn(status)
  BY DEF GetAccess, NvmTypes, GoesOn, Busy
<1>2. UNCHANGED <<Range, Data, FirstPage, LastPage, Length>>
  BY <1>1 DEF Range, Data, FirstPage, LastPage, Length
<1>3. /\ request.addr \in Nat /\ Length \in Nat \ {0} /\ Range \subseteq Nat
      /\ FirstPage \in FirstPage .. LastPage /\ FirstPage \in Nat /\ LastPage \in Nat
  BY <1>1, CallFits
<1>4. CASE held' = TRUE /\ phase' = (IF phase = "unlock_access" THEN "unlock" ELSE "write")
           /\ UNCHANGED <<status, faults, trouble>>
  <2>1. NvmTypes'
    BY <1>1, <1>4 DEF NvmTypes, Busy
  <2>2. Unsettled' /\ GoesOn'
    BY <1>1, <1>2, <1>4 DEF Unsettled, GoesOn, Busy
  <2>3. Unlocking'
    BY <1>1, <1>2, <1>3, <1>4 DEF Unlocking, NvmTypes
  <2>4. Writing'
    <3>1. \A b \in Range : ~(b < request.addr + done)
      BY <1>1, <1>3 DEF Range
    <3> QED
      BY <1>1, <1>2, <1>3, <1>4, <3>1 DEF Writing
  <2>5. Ended'
    BY <1>1, <1>4 DEF Ended
  <2>6. Store!StoreNext
    <3>1. phase # "idle" /\ phase' # "idle"
      BY <1>1, <1>4
    <3>2. request' = request /\ trouble' = trouble /\ memory' = memory
      BY <1>1, <1>4
    <3> QED
      BY <3>1, <3>2, Proceeds
  <2> QED
    BY <1>1, <1>4, <2>1, <2>2, <2>3, <2>4, <2>5, <2>6 DEF Frame
<1>5. CASE /\ trouble' = TRUE /\ status' = "NVM_IN_USE_BY_OTHER_MASTER" /\ phase' = "end"
           /\ UNCHANGED held
  <2>1. NvmTypes' /\ Unsettled' /\ GoesOn' /\ Unlocking' /\ Writing'
    BY <1>1, <1>2, <1>5 DEF NvmTypes, Busy, Unsettled, GoesOn, Unlocking, Writing
  <2>2. Ended'
    BY <1>1, <1>5 DEF Ended, Stored
  <2>3. Store!StoreNext
    BY <1>1, <1>3, <1>5, Fails
  <2> QED
    BY <1>1, <1>5, <2>1, <2>2, <2>3 DEF Frame
<1> QED
  BY <1>4, <1>5 DEF GetAccess

LEMMA UnlockSteps ==
    ASSUME ItemsFit, NvmIInv, UnlockPage
    PROVE  /\ NvmIInv' /\ Store!StoreNext /\ Frame
           /\ phase' # "idle" /\ request' = request
<1> DEFINE page == FirstPage + done
<1>1. /\ phase = "unlock" /\ UNCHANGED <<levels, request>> /\ BYTES_PER_PAGE = 128
      /\ done \in Nat /\ locked \subseteq Nat /\ ~trouble /\ GoOn(status)
      /\ levels \in Protections /\ request \in Requests /\ Range \subseteq bad
      /\ held \in BOOLEAN /\ held
  BY DEF UnlockPage, NvmIInv, NvmTypes, GoesOn, Busy, ItemsFit, Unsettled
<1>2. /\ request.addr \in Nat /\ Length \in Nat \ {0} /\ Range \subseteq Nat
      /\ Checked(request.addr, Length) = "NVM_SUCCESS"
      /\ FirstPage \in Nat /\ LastPage \in Nat
  BY <1>1, CallFits DEF NvmIInv
<1>3. /\ page \in Nat /\ page \in FirstPage .. LastPage
      /\ \A p \in locked : ~(FirstPage <= p /\ p < page)
  BY <1>1, <1>2 DEF NvmIInv, Unlocking
<1>4. UNCHANGED <<Range, Data, FirstPage, LastPage, Length>>
      /\ Checked(request.addr, Length)' = "NVM_SUCCESS"
  BY <1>1, <1>2 DEF Range, Data, FirstPage, LastPage, Length, Checked
<1>5. PICK flags \in StatusFlags :
          /\ Program(page, Held(page), locked \ {page}, FALSE, flags)
          /\ status' = StatusAfter(flags)
          /\ IF page < LastPage /\ GoOn(status')
             THEN done' = done + 1 /\ UNCHANGED <<phase, held>>
             ELSE EndUnlock
  BY DEF UnlockPage
<1> HIDE DEF page
<1>6. CASE Succeeded(page, Held(page), locked \ {page}, FALSE, flags)
  <2>1. \A b \in Offsets : memory'[b] = memory[b]
    BY <1>1, <1>3, <1>6, BytesOfPage, OffsetsAreNats DEF Succeeded, Held
  <2>2. /\ UNCHANGED <<trouble, bad>> /\ locked' = locked \ {page}
        /\ GoOn(status')
    BY <1>1, <1>5, <1>6 DEF Succeeded, StatusAfter, GoOn, get_error_code
  <2>3. CASE page < LastPage
    <3>1. phase' = "unlock" /\ done' = done + 1 /\ held' = held
      BY <1>1, <1>5, <2>2, <2>3
    <3>2. NvmTypes'
      <4>1. /\ phase' \in Busy /\ done' \in Nat /\ locked' \subseteq Nat
            /\ levels' \in Protections /\ request' \in Requests
        <5>1. locked' \subseteq Nat
          BY <1>1, <2>2
        <5>2. phase' \in Busy /\ done' \in Nat
          BY <1>1, <3>1 DEF Busy
        <5> QED
          BY <1>1, <5>1, <5>2
      <4>2. held' \in BOOLEAN /\ (held' <=> phase' \in {"unlock", "write"})
        BY <1>1, <3>1
      <4>3. trouble' \in BOOLEAN
        BY <2>2 DEF NvmIInv, NvmTypes
      <4> QED
        BY <4>1, <4>2, <4>3 DEF NvmTypes
    <3>3. Unsettled' /\ GoesOn' /\ Writing' /\ Ended'
      BY <1>1, <1>4, <2>2, <3>1 DEF Unsettled, GoesOn, Busy, Writing, Ended
    <3>4. Unlocking'
      <4>1. /\ FirstPage + done' = page + 1 /\ page + 1 <= LastPage
            /\ \A p \in locked' : ~(FirstPage <= p /\ p < page + 1)
        BY <1>1, <1>2, <1>3, <2>2, <2>3, <3>1 DEF page
      <4> QED
        BY <1>4, <4>1 DEF Unlocking
    <3> QED
      BY <3>1, <3>2, <3>3, <3>4, <2>1, <2>2, <1>1, Proceeds DEF NvmIInv, Frame
  <2>4. CASE ~(page < LastPage)
    <3>1. phase' = "write_access" /\ done' = 0 /\ ~held' /\ held' \in BOOLEAN
      BY <1>2, <1>5, <2>2, <2>4 DEF EndUnlock
    <3>2. NvmTypes'
      <4>1. /\ phase' \in Busy /\ done' \in Nat /\ locked' \subseteq Nat
            /\ levels' \in Protections /\ request' \in Requests
        <5>1. locked' \subseteq Nat
          BY <1>1, <2>2
        <5>2. phase' \in Busy /\ done' \in Nat
          BY <1>1, <3>1 DEF Busy
        <5> QED
          BY <1>1, <5>1, <5>2
      <4>2. held' \in BOOLEAN /\ (held' <=> phase' \in {"unlock", "write"})
        BY <1>1, <3>1
      <4>3. trouble' \in BOOLEAN
        BY <2>2 DEF NvmIInv, NvmTypes
      <4> QED
        BY <4>1, <4>2, <4>3 DEF NvmTypes
    <3>3. Unsettled' /\ GoesOn' /\ Unlocking' /\ Ended'
      BY <1>1, <1>4, <2>2, <3>1 DEF Unsettled, GoesOn, Busy, Unlocking, Ended
    <3>4. Writing'
      <4>1. Page(request.addr + done)' = FirstPage
        BY <1>1, <1>2, <3>1 DEF Page, FirstPage
      <4>2. \A p \in locked' : ~(FirstPage <= p /\ p <= LastPage)
        BY <1>1, <1>2, <1>3, <2>2, <2>4
      <4> QED
        BY <1>4, <3>1, <4>1, <4>2 DEF Writing
    <3> QED
      BY <3>1, <3>2, <3>3, <3>4, <2>1, <2>2, <1>1, Proceeds DEF NvmIInv, Frame
  <2> QED
    BY <2>3, <2>4
<1>7. CASE Failed(page, locked \ {page}, flags)
  <2>1. /\ trouble' = TRUE /\ locked' = locked \ {page}
        /\ ~GoOn(status') /\ ~Stored'
    BY <1>5, <1>7 DEF Failed, StatusAfter, GoOn, Stored
  <2>2. phase' = "end" /\ done' = 0 /\ ~held' /\ held' \in BOOLEAN
    BY <1>5, <2>1 DEF EndUnlock
  <2>3. NvmTypes' /\ GoesOn' /\ Unlocking' /\ Writing'
    BY <1>1, <2>1, <2>2 DEF NvmTypes, Busy, GoesOn, Unlocking, Writing
  <2>4. Ended'
    BY <2>1, <2>2 DEF Ended
  <2>5. Frame
    BY <1>1, <1>3, <1>7, BytesOfPage, OffsetsAreNats DEF Failed, Frame
  <2>6. Unsettled'
    BY <1>1, <1>4, <2>5 DEF Unsettled, Frame
  <2>7. Store!StoreNext
    <3>1. UNCHANGED memory \/ \A b \in Offsets : Page(b) # page => memory'[b] = memory[b]
      BY <1>7 DEF Failed
    <3> QED
      BY <1>1, <1>3, <2>1, <2>2, <3>1, Fails
  <2> QED
    BY <1>1, <2>2, <2>3, <2>4, <2>5, <2>6, <2>7 DEF NvmIInv
<1> QED
  BY <1>1, <1>3, <1>5, <1>6, <1>7, ProgramEnds

\* The next piece.
LEMMA PieceFits ==
    ASSUME ItemsFit, NvmIInv, phase = "write"
    PROVE  LET offset == request.addr + done
               n == get_remaining_page_length(offset, Length - done)
               page == Page(offset)
           IN  /\ offset \in Range /\ n \in 1 .. Length - done
               /\ page \in FirstPage .. LastPage /\ page \in Nat /\ page \notin locked
               /\ \A b \in Nat : b \in offset .. offset + n - 1 => Page(b) = page
               /\ n # Length - done => (offset + n) % BYTES_PER_PAGE = 0 /\ Page(offset + n) = page + 1
<1> DEFINE offset == request.addr + done
           n == get_remaining_page_length(offset, Length - done)
           page == Page(offset)
<1>1. /\ BYTES_PER_PAGE = 128 /\ done \in Nat /\ done < Length
      /\ request.addr \in Nat /\ Length \in Nat \ {0}
  BY CallFits DEF ItemsFit, NvmIInv, NvmTypes, Writing
<1>2. offset \in Nat /\ Length - done \in Nat \ {0} /\ offset \in Range
  BY <1>1 DEF Range
<1>3. /\ n \in 1 .. Length - done /\ Page(offset + n - 1) = page
      /\ n = Length - done \/ (offset + n) % BYTES_PER_PAGE = 0
  BY <1>1, <1>2, PiecesFit
<1>4. page \in FirstPage .. LastPage /\ FirstPage \in Nat /\ LastPage \in Nat
  BY <1>2, CallFits DEF NvmIInv
<1>5. page \notin locked
  BY <1>4 DEF NvmIInv, Writing
<1>6. \A b \in Nat : b \in offset .. offset + n - 1 => Page(b) = page
  <2> TAKE b \in Nat
  <2> HIDE DEF n, offset
  <2> QED
    BY <1>1, <1>2, <1>3 DEF Page, page
<1>7. (offset + n) % BYTES_PER_PAGE = 0 => Page(offset + n) = page + 1
  <2>1. n \in Nat
    BY <1>2, <1>3
  <2> HIDE DEF n, offset
  <2> QED
    BY <1>1, <1>2, <1>3, <2>1 DEF Page, page
<1> QED
  BY <1>2, <1>3, <1>4, <1>5, <1>6, <1>7

LEMMA WriteSteps ==
    ASSUME ItemsFit, NvmIInv, write_nvm
    PROVE  /\ NvmIInv' /\ Store!StoreNext /\ Frame
           /\ phase' # "idle" /\ request' = request
<1> DEFINE offset == request.addr + done
           n == get_remaining_page_length(offset, Length - done)
           page == Page(offset)
           image == fill_wd_buffer(Held(page), Data, offset, n)
           lock == Locks(Device, levels, request.addr, Length)
           st(flags) == IF flags = {} THEN WriteStatusBefore ELSE get_error_code(flags)
<1>1. /\ phase = "write" /\ UNCHANGED <<levels, request>>
      /\ BYTES_PER_PAGE = 128 /\ NB_OF_BYTES_IN_A_WORD = 4
      /\ done \in Nat /\ locked \subseteq Nat /\ ~trouble /\ GoOn(status)
      /\ levels \in Protections /\ request \in Requests /\ Range \subseteq bad
      /\ held \in BOOLEAN /\ held /\ trouble \in BOOLEAN
  BY DEF write_nvm, NvmIInv, NvmTypes, GoesOn, Busy, ItemsFit, Unsettled
<1>2. /\ request.addr \in Nat /\ Length \in Nat \ {0}
      /\ Range \subseteq Nat /\ Range \subseteq Offsets
      /\ FirstPage \in Nat /\ LastPage \in Nat
  BY <1>1, CallFits DEF NvmIInv
<1>3. /\ offset \in Range /\ n \in 1 .. Length - done
      /\ page \in FirstPage .. LastPage /\ page \in Nat /\ page \notin locked
      /\ \A b \in Nat : b \in offset .. offset + n - 1 => Page(b) = page
      /\ n # Length - done => (offset + n) % BYTES_PER_PAGE = 0 /\ Page(offset + n) = page + 1
  BY <1>1, PieceFits
<1>4. /\ \A p \in locked : ~(page <= p /\ p <= LastPage)
      /\ \A b \in Range : b < offset => memory[b] = Data[b]
  BY <1>1 DEF NvmIInv, Writing
<1>5. UNCHANGED <<Range, Data, FirstPage, LastPage, Length>>
  BY <1>1 DEF Range, Data, FirstPage, LastPage, Length
<1>6. PICK flags \in StatusFlags :
          /\ Program(page, image, locked, lock, flags)
          /\ IF Length > done + n /\ GoOn(st(flags))
             THEN /\ status' = st(flags)
                  /\ done' = done + n
                  /\ UNCHANGED <<phase, held>>
             ELSE /\ status' = WriteStatus(st(flags))
                  /\ done' = 0
                  /\ phase' = "end"
                  /\ held' = FALSE
  BY DEF write_nvm
<1>7. offset \in Nat /\ n \in Nat \ {0} /\ Length - done \in Nat /\ done + n \in Nat
  BY <1>1, <1>2, <1>3
<1>8. ASSUME NEW b \in Offsets, Page(b) = page
      PROVE  image[b] = IF b \in offset .. offset + n - 1 THEN Data[b] ELSE memory[b]
  <2>1. b \in Nat /\ b \in BytesOf(page)
    BY <1>1, <1>3, <1>8, BytesOfPage, OffsetsAreNats
  <2>2. Page(offset + n - 1) = Page(offset)
    <3>1. offset + n - 1 \in Nat /\ offset + n - 1 \in offset .. offset + n - 1
      <4> HIDE DEF offset, n
      <4> QED
        BY <1>7
    <3> QED
      BY <1>3, <3>1
  <2>3. DOMAIN Held(page) = BytesOf(page) /\ Held(page)[b] = memory[b]
    BY <2>1 DEF Held
  <2> HIDE DEF offset, n
  <2> QED
    BY <1>1, <1>7, <2>1, <2>2, <2>3, BufferIsPage
<1> HIDE DEF offset, n, page, image, lock, st
<1>9. CASE Succeeded(page, image, locked, lock, flags)
  <2>1. \A b \in Offsets : memory'[b] = IF b \in offset .. offset + n - 1 THEN Data[b] ELSE memory[b]
    <3> TAKE b \in Offsets
    <3>1. b \in Nat
      BY <1>1, OffsetsAreNats
    <3> QED
      BY <1>3, <1>8, <1>9, <3>1 DEF Succeeded
  <2>2. \A b \in Offsets : memory'[b] = memory[b] \/ (b \in Range /\ memory'[b] = Data[b])
    <3>1. \A b \in offset .. offset + n - 1 : b \in Range
      BY <1>1, <1>2, <1>3, <1>7 DEF Range, offset
    <3> QED
      BY <2>1, <3>1
  <2>3. \A b \in Range : b < offset + n => memory'[b] = Data[b]
    <3> TAKE b \in Range
    <3>1. b \in Nat /\ b \in Offsets
      BY <1>2
    <3>2. b < offset + n => (b \in offset .. offset + n - 1) \/ b < offset
      BY <1>7, <3>1
    <3> QED
      BY <1>4, <2>1, <3>1, <3>2
  <2>4. UNCHANGED <<trouble, bad>> /\ locked' \subseteq locked \cup {page} /\ locked' \subseteq Nat
    BY <1>1, <1>3, <1>9 DEF Succeeded
  <2>5. Frame
    BY <1>1, <2>2, <2>4 DEF Frame
  <2>6. GoOn(st(flags))
    BY <1>1, <1>9 DEF Succeeded, st, WriteStatusBefore, GoOn, get_error_code
  <2>7. CASE Length > done + n
    <3>1. phase' = "write" /\ done' = done + n /\ held' = held /\ status' = st(flags)
      BY <1>1, <1>6, <2>6, <2>7
    <3>2. NvmTypes'
      <4>1. /\ phase' \in Busy /\ done' \in Nat /\ levels' \in Protections /\ request' \in Requests
        <5>1. phase' \in Busy /\ done' \in Nat
          BY <1>7, <3>1 DEF Busy
        <5> QED
          BY <1>1, <5>1
      <4>2. held' \in BOOLEAN /\ (held' <=> phase' \in {"unlock", "write"})
        BY <1>1, <3>1
      <4>3. trouble' \in BOOLEAN
        BY <1>1, <2>4
      <4> QED
        BY <2>4, <4>1, <4>2, <4>3 DEF NvmTypes
    <3>3. Unsettled' /\ Unlocking' /\ Ended'
      BY <1>1, <1>5, <2>4, <3>1 DEF Unsettled, Unlocking, Ended
    <3>4. GoesOn'
      BY <1>1, <2>4, <2>6, <3>1 DEF GoesOn, GoOn
    <3>5. Writing'
      <4>1. request'.addr + done' = offset + n
        BY <1>1, <1>2, <1>7, <3>1 DEF offset
      <4>2. n # Length - done
        BY <1>1, <1>2, <1>7, <2>7
      <4>3. Page(offset + n) = page + 1 /\ (offset + n) % BYTES_PER_PAGE = 0
        BY <1>3, <4>2
      <4>4. \A p \in locked' : ~(page + 1 <= p /\ p <= LastPage)
        BY <1>1, <1>2, <1>3, <1>4, <2>4
      <4>5. Page(request.addr + done)' = page + 1
        BY <4>1, <4>3 DEF Page
      <4>6. Length' = Length /\ LastPage' = LastPage /\ Range' = Range /\ Data' = Data
        BY <1>5
      <4>7. done' < Length
        BY <2>7, <3>1
      <4> QED
        BY <2>3, <3>1, <4>1, <4>3, <4>4, <4>5, <4>6, <4>7 DEF Writing
    <3>6. Store!StoreNext
      BY <1>1, <2>2, <2>4, <3>1, Proceeds
    <3> QED
      BY <1>1, <2>5, <3>1, <3>2, <3>3, <3>4, <3>5, <3>6 DEF NvmIInv
  <2>8. CASE ~(Length > done + n)
    <3>1. /\ phase' = "end" /\ done' = 0 /\ ~held' /\ held' \in BOOLEAN
          /\ status' = WriteStatus(st(flags))
      BY <1>6, <2>8
    <3>2. NvmTypes' /\ Unsettled' /\ GoesOn' /\ Unlocking' /\ Writing'
      BY <1>1, <1>5, <2>4, <3>1 DEF NvmTypes, Busy, Unsettled, GoesOn, Unlocking, Writing
    <3>3. Ended'
      <4>1. Stored' /\ ~trouble'
        BY <1>1, <2>4, <2>6, <3>1 DEF Stored, WriteStatus, GoOn
      <4>2. \A b \in Range : b < offset + n
        BY <1>1, <1>2, <1>7, <2>8 DEF Range, offset
      <4> QED
        BY <1>5, <2>3, <4>1, <4>2 DEF Ended
    <3>4. Store!StoreNext
      BY <1>1, <2>2, <2>4, <3>1, Proceeds
    <3> QED
      BY <1>1, <2>5, <3>1, <3>2, <3>3, <3>4 DEF NvmIInv
  <2> QED
    BY <2>7, <2>8
<1>10. CASE Failed(page, locked, flags)
  <2>1. /\ trouble' = TRUE /\ locked' = locked
        /\ ~GoOn(st(flags)) /\ st(flags) \in {"NVM_PROTECTION_ERROR", "NVM_VERIFY_FAILURE"}
    BY <1>6, <1>10 DEF Failed, st, GoOn
  <2>2. phase' = "end" /\ done' = 0 /\ ~held' /\ held' \in BOOLEAN /\ ~Stored'
    BY <1>6, <2>1 DEF WriteStatus, Stored
  <2>3. NvmTypes' /\ GoesOn' /\ Unlocking' /\ Writing'
    BY <1>1, <2>1, <2>2 DEF NvmTypes, Busy, GoesOn, Unlocking, Writing
  <2>4. Ended'
    BY <2>1, <2>2 DEF Ended
  <2>5. Frame
    BY <1>1, <1>3, <1>10, BytesOfPage, OffsetsAreNats DEF Failed, Frame
  <2>6. Unsettled'
    BY <1>1, <1>5, <2>5 DEF Unsettled, Frame
  <2>7. Store!StoreNext
    <3>1. UNCHANGED memory \/ \A b \in Offsets : Page(b) # page => memory'[b] = memory[b]
      BY <1>10 DEF Failed
    <3> QED
      BY <1>1, <1>3, <2>1, <2>2, <3>1, Fails
  <2> QED
    BY <1>1, <2>2, <2>3, <2>4, <2>5, <2>6, <2>7 DEF NvmIInv
<1> QED
  BY <1>1, <1>3, <1>6, <1>9, <1>10, ProgramEnds

\* The end of a call: the bytes no longer count as bad if they are what was asked for.
LEMMA ReturnSteps ==
    ASSUME ItemsFit, NvmIInv, Returned
    PROVE  /\ NvmIInv' /\ Store!StoreNext
           /\ memory' = memory /\ phase' = "idle"
           /\ bad \subseteq bad' \cup Range
           /\ \A b \in Range : b \notin bad' => memory[b] = Data[b]
<1>1. /\ phase = "end" /\ phase' = "idle" /\ request' = NoRequest
      /\ UNCHANGED <<memory, locked, levels, done, status, held, trouble>>
      /\ bad' = IF Stored THEN bad \ Range ELSE bad
  BY DEF Returned
<1>2. /\ Stored <=> ~trouble
      /\ Stored => \A b \in Range : memory[b] = Data[b]
      /\ ~held /\ Range \subseteq bad
  BY <1>1 DEF NvmIInv, Ended, NvmTypes, Unsettled
<1>3. NvmTypes'
  BY <1>1, <1>2 DEF NvmIInv, NvmTypes
<1>4. Unsettled' /\ GoesOn' /\ Unlocking' /\ Writing' /\ Ended'
  BY <1>1 DEF Unsettled, GoesOn, Busy, Unlocking, Writing, Ended
<1>5. request # NoRequest /\ Store!Asked = Range /\ \A b \in Range : Store!Wanted(b) = Data[b]
  BY <1>1, CallFits, StoreView DEF NvmIInv
<1>6. Store!Answer
  <2>1. (status \in Store!Good) <=> Stored
    BY DEF Store!Good, Stored
  <2> QED
    BY <1>1, <1>2, <1>5, <2>1 DEF Store!Answer, Store!Nothing, NoRequest
<1> QED
  BY <1>1, <1>2, <1>3, <1>4, <1>6 DEF NvmIInv, Store!StoreNext

\* A power cut spoils the page that is being programmed, and no more.
LEMMA OffSteps ==
    ASSUME ItemsFit, NvmIInv, NvmOff
    PROVE  NvmIInv' /\ Store!StoreNext /\ Frame /\ phase' = "idle"
<1>1. /\ phase' = "idle" /\ request' = NoRequest /\ status' = NoStatus
      /\ held' = FALSE /\ done' = 0 /\ trouble' = FALSE
      /\ UNCHANGED <<locked, levels>>
  BY DEF NvmOff
<1>2. NvmIInv'
  <2>1. NvmTypes'
    BY <1>1 DEF NvmIInv, NvmTypes
  <2>2. Unsettled' /\ GoesOn' /\ Unlocking' /\ Writing' /\ Ended'
    BY <1>1 DEF Unsettled, GoesOn, Busy, Unlocking, Writing, Ended
  <2> QED
    BY <2>1, <2>2 DEF NvmIInv
<1>3. ASSUME UNCHANGED memory \/ \E page \in Store!Pages : Store!DamageIn(page)
      PROVE  Store!StoreNext
  <2>1. Store!PowerCut
    BY <1>1, <1>3 DEF Store!PowerCut, Store!Nothing, NoRequest, NoStatus
  <2> QED
    BY <2>1 DEF Store!StoreNext
<1>4. CASE UNCHANGED <<memory, bad, faults>>
  BY <1>1, <1>2, <1>3, <1>4 DEF Frame
<1>5. ASSUME phase \in {"unlock", "write"}, NEW page, NEW image,
             page = IF phase = "unlock" THEN FirstPage + done ELSE Page(request.addr + done),
             memory' = With(page, image), bad' = bad \cup BytesOf(page)
      PROVE  Store!StoreNext /\ Frame
  <2>1. /\ BYTES_PER_PAGE = 128 /\ phase # "idle"
        /\ FirstPage \in Nat /\ LastPage \in Nat /\ done \in Nat
    BY <1>5, CallFits DEF ItemsFit, NvmIInv, NvmTypes
  <2>2. page \in FirstPage .. LastPage
    <3>1. CASE phase = "unlock"
      BY <1>5, <2>1, <3>1 DEF NvmIInv, Unlocking
    <3>2. CASE phase = "write"
      <4>1. Page(request.addr + done) \in FirstPage .. LastPage
        BY <3>2, PieceFits
      <4> QED
        BY <1>5, <3>2, <4>1
    <3> QED
      BY <1>5, <3>1, <3>2
  <2>3. page \in Nat
    BY <2>1, <2>2
  <2>4. \A b \in Offsets : Page(b) # page => memory'[b] = memory[b]
    BY <1>5, <2>1, <2>3, BytesOfPage, OffsetsAreNats DEF With
  <2>5. page \in Store!Pages
    BY <2>1, <2>2, CallFits, StoreView DEF NvmIInv
  <2>6. Frame
    BY <1>5, <2>1, <2>3, <2>4, BytesOfPage, OffsetsAreNats DEF Frame
  <2> QED
    BY <1>3, <2>4, <2>5, <2>6 DEF Store!DamageIn
<1> QED
  BY <1>1, <1>2, <1>4, <1>5 DEF NvmOff

LEMMA NvmSteps ==
    ASSUME ItemsFit, NvmIInv, NvmNext
    PROVE  /\ NvmIInv' /\ Store!StoreNext /\ Frame
           /\ phase # "idle" /\ phase' # "idle" /\ request' = request
<1>1. phase # "idle"
  BY DEF NvmNext, GetAccess, UnlockPage, write_nvm
<1> QED
  BY <1>1, AccessSteps, UnlockSteps, WriteSteps DEF NvmNext

LEMMA NvmRests ==
    ASSUME NvmIInv, UNCHANGED nvmVars
    PROVE  NvmIInv' /\ UNCHANGED Store!storeVars
<1> USE DEF nvmVars
<1>1. UNCHANGED <<Range, Data, FirstPage, LastPage, Length, Stored>>
  BY DEF Range, Data, FirstPage, LastPage, Length, Stored
<1>2. NvmTypes' /\ Unsettled' /\ GoesOn' /\ Unlocking' /\ Writing' /\ Ended'
  BY <1>1 DEF NvmIInv, NvmTypes, Unsettled, GoesOn, Unlocking, Writing, Ended, Page
<1>3. UNCHANGED Store!storeVars
  BY DEF Store!storeVars
<1> QED
  BY <1>2, <1>3 DEF NvmIInv

LEMMA NvmStarts ==
    ASSUME NvmInit
    PROVE  NvmIInv /\ Store!StoreInit
<1>1. NvmIInv
  BY DEF NvmInit, NvmIInv, NvmTypes, Busy, Unsettled, GoesOn, Unlocking, Writing, Ended
<1>2. Store!StoreInit
  BY DEF NvmInit, Store!StoreInit, Store!Nothing, NoRequest, NoStatus
<1> QED
  BY <1>1, <1>2
-----------------------------------------------------------------------------
(* What is stored. *)

LEMMA RequestsAre ==
    /\ \A body \in Bodies, id \in Ids : SlotRequest(body, id) \in Requests
    /\ \A id \in Ids \cup {Default} : IdRequest(id) \in Requests
BY DEF Requests

LEMMA SlotRequestIs ==
    ASSUME ItemsFit, NEW body \in Bodies, NEW id \in Ids
    PROVE  /\ SlotRequest(body, id).addr = Addr(id)
           /\ SlotRequest(body, id).data = Append(body, id)
           /\ \A x : SlotRequest(body, id) # IdRequest(x)
           /\ Len(Append(body, id)) = MEM_CITIROC_CONF_LEN
           /\ Append(body, id) = [i \in 1 .. MEM_CITIROC_CONF_LEN |-> Append(body, id)[i]]
           /\ Append(body, id)[MEM_CITIROC_CONF_LEN] = id
<1>1. /\ body \in Seq(Nat) /\ Len(body) = MEM_CITIROC_CONF_LEN - 1
      /\ id \in Nat /\ MEM_CITIROC_CONF_LEN \in Nat \ {0}
  <2>1. id \in Nat
    BY IdsAssumption
  <2>2. MEM_CITIROC_CONF_LEN \in Nat \ {0}
    BY DEF ItemsFit
  <2> QED
    BY <2>1, <2>2, BodiesAssumption
<1>2. /\ Append(body, id) \in Seq(Nat)
      /\ Len(Append(body, id)) = MEM_CITIROC_CONF_LEN
      /\ Append(body, id)[MEM_CITIROC_CONF_LEN] = id
  BY <1>1
<1>3. Append(body, id) = [i \in 1 .. MEM_CITIROC_CONF_LEN |-> Append(body, id)[i]]
  <2> DEFINE conf == Append(body, id)
  <2>1. conf \in Seq(Nat)
    BY <1>2
  <2> HIDE DEF conf
  <2>2. conf = [i \in 1 .. Len(conf) |-> conf[i]]
    BY <2>1
  <2> QED
    BY <1>2, <2>2 DEF conf
<1>4. Addr(id) # MEM_CITIROC_CONF_ID_ADDR
  <2>1. Addr(id) \in Nat /\ MEM_CITIROC_CONF_ID_ADDR \notin SlotBytes(id)
    BY DEF ItemsFit
  <2>2. Addr(id) \in SlotBytes(id)
    BY <1>1, <2>1 DEF SlotBytes
  <2> QED
    BY <2>1, <2>2
<1> QED
  BY <1>2, <1>3, <1>4 DEF SlotRequest, IdRequest

\* The address of a configuration's ID is that of one byte.
LEMMA IdRequestIs ==
    ASSUME ItemsFit, NEW id
    PROVE  /\ \A x : IdRequest(x) = IdRequest(id) => x = id
           /\ request = IdRequest(id) =>
                Range = {MEM_CITIROC_CONF_ID_ADDR} /\ Data[MEM_CITIROC_CONF_ID_ADDR] = id
<1>1. /\ IdRequest(id).addr = MEM_CITIROC_CONF_ID_ADDR
      /\ IdRequest(id).data = <<id>> /\ Len(<<id>>) = 1 /\ <<id>>[1] = id
      /\ \A x : IdRequest(x).data = <<x>> /\ <<x>>[1] = x
      /\ MEM_CITIROC_CONF_ID_ADDR \in Nat
  BY OffsetsAreNats DEF IdRequest, ItemsFit
<1>2. \A x : IdRequest(x) = IdRequest(id) => x = id
  BY <1>1
<1>3. ASSUME request = IdRequest(id)
      PROVE  Range = {MEM_CITIROC_CONF_ID_ADDR} /\ Data[MEM_CITIROC_CONF_ID_ADDR] = id
  <2>1. Range = {MEM_CITIROC_CONF_ID_ADDR}
    <3>1. request.addr = MEM_CITIROC_CONF_ID_ADDR /\ Length = 1
      BY <1>1, <1>3 DEF Length
    <3>2. MEM_CITIROC_CONF_ID_ADDR .. MEM_CITIROC_CONF_ID_ADDR + 1 - 1 = {MEM_CITIROC_CONF_ID_ADDR}
      BY <1>1
    <3> QED
      BY <3>1, <3>2 DEF Range
  <2>2. MEM_CITIROC_CONF_ID_ADDR - MEM_CITIROC_CONF_ID_ADDR + 1 = 1
    BY <1>1
  <2> QED
    BY <1>1, <1>3, <2>1, <2>2 DEF Data
<1> QED
  BY <1>2, <1>3

LEMMA SlotIs ==
    ASSUME ItemsFit, NEW id \in Ids
    PROVE  /\ \A b \in SlotBytes(id) : b \in Offsets
           /\ \A i \in 1 .. MEM_CITIROC_CONF_LEN : Addr(id) + i - 1 \in SlotBytes(id)
           /\ MEM_CITIROC_CONF_LEN \in 1 .. MEM_CITIROC_CONF_LEN
           /\ (\A b \in SlotBytes(id) : memory'[b] = memory[b]) => Slot(id)' = Slot(id)
<1>1. /\ Addr(id) \in Nat /\ MEM_CITIROC_CONF_LEN \in Nat \ {0}
      /\ SlotBytes(id) \subseteq Offsets
  BY DEF ItemsFit
<1>2. \A i \in 1 .. MEM_CITIROC_CONF_LEN : Addr(id) + i - 1 \in SlotBytes(id)
  BY <1>1 DEF SlotBytes
<1>3. (\A b \in SlotBytes(id) : memory'[b] = memory[b]) => Slot(id)' = Slot(id)
  BY <1>2 DEF Slot, Addr
<1> QED
  BY <1>1, <1>2, <1>3

\* What does not count as bad stays as it is.
LEMMA Kept ==
    ASSUME ItemsFit, Frame, NEW id \in Ids, SlotBytes(id) \cap bad' = {}
    PROVE  /\ SlotBytes(id) \cap bad = {}
           /\ \A b \in SlotBytes(id) : memory'[b] = memory[b]
           /\ Slot(id)' = Slot(id)
BY SlotIs DEF Frame

LEMMA WholeConfKept == ASSUME ItemsFit, Frame, WholeConf PROVE WholeConf'
<1> SUFFICES ASSUME NEW id \in Ids, SlotBytes(id) \cap bad' = {}
             PROVE  \/ \A b \in SlotBytes(id) : memory'[b] = Erased
                    \/ \E body \in Bodies : Slot(id)' = Append(body, id)
  BY DEF WholeConf, SlotBytes, Addr
<1>1. /\ SlotBytes(id) \cap bad = {} /\ Slot(id)' = Slot(id)
      /\ \A b \in SlotBytes(id) : memory'[b] = memory[b]
  BY Kept
<1>2. \/ \A b \in SlotBytes(id) : memory[b] = Erased
      \/ \E body \in Bodies : Slot(id) = Append(body, id)
  BY <1>1 DEF WholeConf
<1> QED
  BY <1>1, <1>2

LEMMA SelectionValidKept ==
    ASSUME ItemsFit, Frame, SelectionValid, selected' = selected PROVE SelectionValid'
<1> SUFFICES ASSUME selected \in Ids, SlotBytes(selected) \cap bad' = {}
             PROVE  Slot(selected)'[MEM_CITIROC_CONF_LEN] = selected
  BY DEF SelectionValid, SlotBytes, Addr, Slot
<1>1. SlotBytes(selected) \cap bad = {} /\ Slot(selected)' = Slot(selected)
  BY Kept
<1> QED
  BY <1>1 DEF SelectionValid

\* What the stored ID is worth.
IdStored ==
    MEM_CITIROC_CONF_ID_ADDR \notin bad =>
        \/ memory[MEM_CITIROC_CONF_ID_ADDR] = selected
        \/ memory[MEM_CITIROC_CONF_ID_ADDR] = Erased /\ selected = Default

LEMMA IdStoredKept ==
    ASSUME ItemsFit, Frame, IdStored, selected' = selected PROVE IdStored'
<1> MEM_CITIROC_CONF_ID_ADDR \in Offsets
  BY DEF ItemsFit
<1> QED
  BY DEF Frame, IdStored

\* The same operation at a boot and on command.
LEMMA SelectSteps ==
    ASSUME ItemsFit, ConfIInv, NEW id \in Ids \cup {Default}, NEW conf,
           Select(conf, id), id \in Ids => SlotValid(id), selected' = id
    PROVE  ConfIInv' /\ Store!StoreNext /\ conf_id' = id
<1>1. /\ conf_id' = id /\ at' = "storing"
      /\ mem_write_nvm(IdRequest(id).addr, IdRequest(id).data)
      /\ IdRequest(id) \in Requests
  BY RequestsAre DEF Select, Apply, IdRequest
<1>2. /\ NvmIInv' /\ Store!StoreNext /\ Frame
      /\ phase' # "idle" /\ request' = IdRequest(id)
  BY <1>1, Begins DEF ConfIInv
<1>3. Caller'
  BY <1>1, <1>2 DEF Caller
<1>4. MEM_CITIROC_CONF_ID_ADDR \in bad'
  <2>1. bad' = bad \cup (IdRequest(id).addr .. IdRequest(id).addr + Len(IdRequest(id).data) - 1)
    BY <1>1 DEF mem_write_nvm
  <2>2. IdRequest(id).addr = MEM_CITIROC_CONF_ID_ADDR /\ Len(IdRequest(id).data) = 1
    BY DEF IdRequest
  <2>3. MEM_CITIROC_CONF_ID_ADDR \in Nat
    BY OffsetsAreNats DEF ItemsFit
  <2> QED
    BY <2>1, <2>2, <2>3
<1>5. IdKept'
  BY <1>2, <1>4, IdRequestIs DEF IdKept, IdRequest
<1>6. SelectionValid'
  <2>1. ASSUME id \in Ids, SlotBytes(id) \cap bad' = {}
        PROVE  Slot(id)'[MEM_CITIROC_CONF_LEN] = id
    <3>1. Slot(id)' = Slot(id)
      BY <1>2, <2>1, Kept
    <3> QED
      BY <2>1, <3>1 DEF SlotValid
  <2> QED
    BY <2>1 DEF SelectionValid, SlotBytes, Addr, Slot
<1>7. WholeConf'
  BY <1>2, WholeConfKept DEF ConfIInv
<1> QED
  BY <1>1, <1>2, <1>3, <1>5, <1>6, <1>7 DEF ConfIInv

\* Storing has ended: a slot, or the selection's ID, is there if it does not count as bad.
LEMMA EndSteps ==
    ASSUME ItemsFit, ConfIInv, EndStore
    PROVE  ConfIInv' /\ Store!StoreNext
<1>1. /\ at' = "idle" /\ UNCHANGED <<conf_id, selected>> /\ at = "storing" /\ phase # "idle"
      /\ NvmIInv' /\ Store!StoreNext /\ phase' = "idle" /\ memory' = memory
      /\ bad \subseteq bad' \cup Range
      /\ \A b \in Range : b \notin bad' => memory[b] = Data[b]
  BY ReturnSteps DEF EndStore, ConfIInv, Caller
<1>2. Caller'
  BY <1>1 DEF ConfIInv, Caller
<1>3. \A id \in Ids : Slot(id)' = Slot(id)
  BY <1>1 DEF Slot, Addr
<1>4. ASSUME NEW id \in Ids, SlotBytes(id) \cap bad' = {}, SlotBytes(id) \cap Range = {}
      PROVE  /\ SlotBytes(id) \cap bad = {}
             /\ \/ \A b \in SlotBytes(id) : memory'[b] = Erased
                \/ \E body \in Bodies : Slot(id)' = Append(body, id)
             /\ id = selected => Slot(id)'[MEM_CITIROC_CONF_LEN] = id
  <2>1. SlotBytes(id) \cap bad = {}
    BY <1>1, <1>4
  <2> QED
    BY <1>1, <1>3, <2>1 DEF ConfIInv, WholeConf, SelectionValid
<1>5. CASE \E body \in Bodies, id \in Ids : request = SlotRequest(body, id)
  <2>1. PICK body \in Bodies, id \in Ids : request = SlotRequest(body, id)
    BY <1>5
  <2>2. /\ request.addr = Addr(id) /\ Length = MEM_CITIROC_CONF_LEN
        /\ request.data = Append(body, id)
        /\ Append(body, id) = [i \in 1 .. MEM_CITIROC_CONF_LEN |-> Append(body, id)[i]]
        /\ Append(body, id)[MEM_CITIROC_CONF_LEN] = id
    BY <2>1, SlotRequestIs DEF Length
  <2>3. Range = SlotBytes(id)
    BY <2>2 DEF Range, SlotBytes
  <2>4. ASSUME SlotBytes(id) \cap bad' = {} PROVE Slot(id)' = Append(body, id)
    <3>1. ASSUME NEW i \in 1 .. MEM_CITIROC_CONF_LEN
          PROVE  memory[Addr(id) + i - 1] = Append(body, id)[i]
      <4>1. Addr(id) + i - 1 \in Range /\ Addr(id) \in Nat
        BY <2>3, SlotIs DEF ItemsFit
      <4>2. memory[Addr(id) + i - 1] = Data[Addr(id) + i - 1]
        BY <1>1, <2>3, <2>4, <4>1
      <4>3. (Addr(id) + i - 1) - Addr(id) + 1 = i
        <5> Addr(id) \in Int /\ i \in Int
          BY <4>1 DEF ItemsFit
        <5> HIDE DEF Addr
        <5> QED
          OBVIOUS
      <4> QED
        BY <2>2, <4>1, <4>2, <4>3 DEF Data
    <3>2. Slot(id) = [i \in 1 .. MEM_CITIROC_CONF_LEN |-> Append(body, id)[i]]
      BY <3>1 DEF Slot
    <3> QED
      BY <1>3, <2>2, <3>2
  <2>5. \A a \in Ids : a # id => SlotBytes(a) \cap Range = {}
    BY <2>3 DEF ItemsFit
  <2>6. WholeConf'
    <3> SUFFICES ASSUME NEW a \in Ids, SlotBytes(a) \cap bad' = {}
                 PROVE  \/ \A b \in SlotBytes(a) : memory'[b] = Erased
                        \/ \E x \in Bodies : Slot(a)' = Append(x, a)
      BY DEF WholeConf, SlotBytes, Addr
    <3> QED
      BY <1>4, <2>4, <2>5
  <2>7. SelectionValid'
    <3>1. ASSUME NEW a \in Ids, a = selected, SlotBytes(a) \cap bad' = {}
          PROVE  Slot(a)'[MEM_CITIROC_CONF_LEN] = a
      BY <1>4, <2>2, <2>4, <2>5, <3>1
    <3> QED
      BY <1>1, <3>1 DEF SelectionValid, SlotBytes, Addr, Slot
  <2>8. IdKept'
    <3>1. MEM_CITIROC_CONF_ID_ADDR \notin Range
      BY <2>3 DEF ItemsFit
    <3> QED
      BY <1>1, <3>1 DEF ConfIInv, IdKept
  <2> QED
    BY <1>1, <1>2, <2>6, <2>7, <2>8 DEF ConfIInv
<1>6. CASE \E id : request = IdRequest(id)
  <2>1. PICK id : request = IdRequest(id)
    BY <1>6
  <2>2. /\ id = selected
        /\ Range = {MEM_CITIROC_CONF_ID_ADDR} /\ Data[MEM_CITIROC_CONF_ID_ADDR] = id
    BY <1>1, <2>1, IdRequestIs DEF ConfIInv, IdKept
  <2>3. \A a \in Ids : SlotBytes(a) \cap Range = {}
    BY <2>2 DEF ItemsFit
  <2>4. WholeConf'
    <3> SUFFICES ASSUME NEW a \in Ids, SlotBytes(a) \cap bad' = {}
                 PROVE  \/ \A b \in SlotBytes(a) : memory'[b] = Erased
                        \/ \E x \in Bodies : Slot(a)' = Append(x, a)
      BY DEF WholeConf, SlotBytes, Addr
    <3> QED
      BY <1>4, <2>3
  <2>5. SelectionValid'
    <3>1. ASSUME NEW a \in Ids, a = selected, SlotBytes(a) \cap bad' = {}
          PROVE  Slot(a)'[MEM_CITIROC_CONF_LEN] = a
      BY <1>4, <2>3, <3>1
    <3> QED
      BY <1>1, <3>1 DEF SelectionValid, SlotBytes, Addr, Slot
  <2>6. IdKept'
    BY <1>1, <2>2 DEF IdKept
  <2> QED
    BY <1>1, <1>2, <2>4, <2>5, <2>6 DEF ConfIInv
<1>7. request \in Requests
  BY <1>1 DEF ConfIInv, NvmIInv, NvmTypes
<1> QED
  BY <1>5, <1>6, <1>7 DEF Requests

LEMMA ConfStarts == ASSUME ItemsFit, ConfInit PROVE ConfIInv /\ Store!StoreInit
<1>1. /\ NvmIInv /\ Store!StoreInit
      /\ at = "off" /\ conf_id = Default /\ selected = Default
      /\ phase = "idle" /\ memory = [b \in Offsets |-> Erased] /\ bad = {}
  BY NvmStarts DEF ConfInit, NvmInit
<1>2. WholeConf
  BY <1>1, SlotIs DEF WholeConf
<1>3. IdKept
  BY <1>1 DEF IdKept, ItemsFit
<1>4. SelectionValid
  BY <1>1, IdsAssumption DEF SelectionValid, Default
<1> QED
  BY <1>1, <1>2, <1>3, <1>4 DEF ConfIInv, Caller

LEMMA ConfSteps ==
    ASSUME ItemsFit, ConfIInv, [ConfNext]_confVars
    PROVE  ConfIInv' /\ [Store!StoreNext]_Store!storeVars
<1>1. ASSUME NvmIInv', Frame, selected' = selected, Caller',
             \A id : (phase' # "idle" /\ request' = IdRequest(id)) => id = selected
      PROVE  ConfIInv'
  <2>1. WholeConf' /\ SelectionValid' /\ IdStored'
    BY <1>1, WholeConfKept, SelectionValidKept, IdStoredKept DEF ConfIInv, IdKept, IdStored
  <2> QED
    BY <1>1, <2>1 DEF ConfIInv, IdKept, IdStored, IdRequest
<1>2. ASSUME UNCHANGED <<nvmVars, selected>>, Caller'
      PROVE  ConfIInv' /\ UNCHANGED Store!storeVars
  <2>1. NvmIInv' /\ UNCHANGED Store!storeVars
    BY <1>2, NvmRests DEF ConfIInv
  <2>2. Frame /\ phase' = phase /\ request' = request
    BY <1>2 DEF Frame, nvmVars
  <2> QED
    BY <1>1, <1>2, <2>1, <2>2 DEF ConfIInv, IdKept
<1>3. CASE Boot
  <2> DEFINE stored == memory[MEM_CITIROC_CONF_ID_ADDR]
  <2>1. at = "off" /\ phase = "idle"
    BY <1>3 DEF Boot, ConfIInv, Caller
  <2>2. CASE SlotValid(stored) /\ Select(Slot(stored), stored)
    <3>1. stored \in Ids
      BY <2>2 DEF SlotValid
    <3>2. conf_id' = stored /\ at' = "storing"
      BY <2>2 DEF Select, Apply
    <3>3. selected' = stored
      BY <1>3, <3>2 DEF Boot
    <3> QED
      BY <2>2, <3>1, <3>3, SelectSteps
  <2>3. CASE stored \notin 1..254 /\ Select(DefaultConf, Default)
    <3>1. conf_id' = Default /\ at' = "storing"
      BY <2>3 DEF Select, Apply
    <3>2. selected' = Default
      BY <1>3, <3>1 DEF Boot
    <3>3. Default \notin Ids
      BY NotASlot
    <3> QED
      BY <2>3, <3>2, <3>3, SelectSteps
  <2>4. CASE at' = "idle" /\ UNCHANGED <<nvmVars, asic, conf_id>>
    <3>1. selected' = selected
      BY <1>3, <2>4 DEF Boot
    <3>2. Caller'
      BY <2>1, <2>4, <3>1 DEF ConfIInv, Caller, nvmVars
    <3> QED
      BY <1>2, <2>4, <3>1, <3>2
  <2> QED
    BY <1>3, <2>2, <2>3, <2>4 DEF Boot
<1>4. ASSUME NEW body \in Bodies, SEND_CUBES_CITI_CONF(body)
      PROVE  ConfIInv' /\ UNCHANGED Store!storeVars
  <2>1. UNCHANGED <<nvmVars, at, selected>> /\ at = "idle"
    BY <1>4 DEF SEND_CUBES_CITI_CONF
  <2>2. Caller'
    BY <2>1 DEF ConfIInv, Caller, nvmVars
  <2> QED
    BY <1>2, <2>1, <2>2
<1>5. ASSUME NEW id \in Ids \cup {Default}, SELECT_NVM_CITI_CONF(id)
      PROVE  ConfIInv' /\ Store!StoreNext
  <2>1. CASE SlotValid(id) /\ Select(Slot(id), id)
    BY <1>5, <2>1, SelectSteps DEF SELECT_NVM_CITI_CONF
  <2>2. CASE id = Default /\ Select(DefaultConf, Default)
    BY <1>5, <2>2, NotASlot, SelectSteps DEF SELECT_NVM_CITI_CONF
  <2> QED
    BY <1>5, <2>1, <2>2 DEF SELECT_NVM_CITI_CONF
<1>6. ASSUME NEW body \in Bodies, NEW id \in Ids, SEND_NVM_CITI_CONF(body, id)
      PROVE  ConfIInv' /\ Store!StoreNext
  <2>1. /\ at' = "storing" /\ UNCHANGED <<conf_id, selected>>
        /\ mem_write_nvm(SlotRequest(body, id).addr, SlotRequest(body, id).data)
        /\ SlotRequest(body, id) \in Requests
    BY <1>6, RequestsAre DEF SEND_NVM_CITI_CONF, SlotRequest
  <2>2. /\ NvmIInv' /\ Store!StoreNext /\ Frame
        /\ phase' # "idle" /\ request' = SlotRequest(body, id)
    BY <2>1, Begins DEF ConfIInv
  <2>3. Caller'
    BY <2>1, <2>2 DEF ConfIInv, Caller
  <2>4. \A x : request' # IdRequest(x)
    BY <2>2, SlotRequestIs
  <2> QED
    BY <1>1, <2>1, <2>2, <2>3, <2>4
<1>7. ASSUME NvmNext, UNCHANGED <<at, asic, conf_id, selected>>
      PROVE  ConfIInv' /\ Store!StoreNext
  <2>1. /\ NvmIInv' /\ Store!StoreNext /\ Frame
        /\ phase # "idle" /\ phase' # "idle" /\ request' = request
    BY <1>7, NvmSteps DEF ConfIInv
  <2>2. Caller'
    BY <1>7, <2>1 DEF ConfIInv, Caller
  <2> QED
    BY <1>1, <1>7, <2>1, <2>2 DEF ConfIInv, IdKept
<1>8. CASE EndStore
  BY <1>8, EndSteps
<1>9. CASE PowerFails
  <2>1. /\ at' = "off" /\ conf_id' = Default /\ selected' = selected
        /\ NvmIInv' /\ Store!StoreNext /\ Frame /\ phase' = "idle"
    BY <1>9, OffSteps DEF PowerFails, ConfIInv
  <2>2. Caller'
    BY <2>1 DEF ConfIInv, Caller
  <2> QED
    BY <1>1, <2>1, <2>2
<1>10. CASE UNCHANGED confVars
  <2>1. UNCHANGED <<nvmVars, at, conf_id, selected>>
    BY <1>10 DEF confVars
  <2>2. Caller'
    BY <2>1 DEF ConfIInv, Caller, nvmVars
  <2> QED
    BY <1>2, <2>1, <2>2
<1> QED
  BY <1>3, <1>4, <1>5, <1>6, <1>7, <1>8, <1>9, <1>10 DEF ConfNext

\* The inductive invariant, for any slots, contents, protections and faults.
LEMMA ConfInvariance == ASSUME ItemsFit PROVE ConfSpec => []ConfIInv
BY ConfStarts, ConfSteps, PTL DEF ConfSpec

\* What mem_write_nvm promises its callers (NvmStore): every step of the driver, of the
\* memory with its faults, and of a power cut, is one that the abstract store allows.
THEOREM StoreKeepsContract == ASSUME ItemsFit PROVE ConfSpec => StoreContract
<1>1. ConfInit => Store!StoreInit
  BY ConfStarts
<1>2. ConfIInv /\ [ConfNext]_confVars => [Store!StoreNext]_Store!storeVars
  BY ConfSteps
<1> QED
  BY <1>1, <1>2, ConfInvariance, PTL DEF ConfSpec, StoreContract, Store!StoreSpec

\* A slot that was stored, and not spoilt since, holds one configuration as it was sent,
\* although slots share pages and a slot is written in parts (SEND_NVM_CITI_CONF).
THEOREM ConfsAreWhole == ASSUME ItemsFit PROVE ConfSpec => []WholeConf
BY ConfInvariance, PTL DEF ConfIInv

\* The boot applies the configuration selected last, whenever the power was cut, unless
\* its slot or the stored ID was spoilt (SELECT_NVM_CITI_CONF and the start of main).
THEOREM SelectionIsKept == ASSUME ItemsFit PROVE ConfSpec => SelectionKept
<1> DEFINE stored == memory[MEM_CITIROC_CONF_ID_ADDR]
<1>1. ASSUME ConfIInv, Boot, MEM_CITIROC_CONF_ID_ADDR \notin bad,
             selected \in Ids => SlotBytes(selected) \cap bad = {}
      PROVE  conf_id' = selected
  <2>1. /\ stored = selected \/ (stored = Erased /\ selected = Default)
        /\ selected \in Ids \cup {Default}
    BY <1>1 DEF ConfIInv, IdKept, Caller
  <2>2. CASE selected \in Ids
    <3>1. stored = selected /\ SlotValid(stored) /\ stored \in 1..254
      BY <1>1, <2>1, <2>2, NotASlot, IdsAssumption DEF ConfIInv, SelectionValid, SlotValid
    <3> QED
      BY <1>1, <3>1 DEF Boot, Select, Apply
  <2>3. CASE selected = Default
    <3>1. stored \notin 1..254
      BY <2>1, <2>3 DEF Default, Erased
    <3>2. ~SlotValid(stored)
      BY <3>1, IdsAssumption DEF SlotValid
    <3> QED
      BY <1>1, <2>3, <3>1, <3>2 DEF Boot, Select, Apply
  <2> QED
    BY <2>1, <2>2, <2>3
<1>2. ConfIInv /\ [ConfNext]_confVars
        => [Boot /\ MEM_CITIROC_CONF_ID_ADDR \notin bad
                 /\ (selected \in Ids => SlotBytes(selected) \cap bad = {})
            => conf_id' = selected]_confVars
  BY <1>1
<1> QED
  BY <1>2, ConfInvariance, PTL DEF ConfSpec, SelectionKept
-----------------------------------------------------------------------------
(* The words of the sequence flags. *)

(* A flagged opcode has a word and a bit: msp_get_flag_pos leaves neither   *)
(* of them undefined.                                                       *)
LEMMA PositionExists ==
    ASSUME NEW op \in Flagged
    PROVE  Index(op) \in 0..3 /\ Bit(op) \in 0..15
<1>1. CASE IsCustom(op)
  BY <1>1 DEF Index, Bit, Type, Flagged, Opcodes
<1>2. CASE ~IsCustom(op)
  <2>1. op \in Standard
    BY <1>2 DEF Flagged
  <2>2. StandardBit(op) \in 0..7
    BY <2>1 DEF StandardBit, Standard, ACTIVE, SLEEP, POWER_OFF, REQ_PAYLOAD, REQ_HK,
                REQ_PUS, SEND_TIME, SEND_PUS
  <2>. QED
    BY <1>2, <2>2 DEF Index, Bit
<1>. QED
  BY <1>1, <1>2

(* No two flagged opcodes share a flag: the transaction-ID of one command   *)
(* can never be taken for that of another.                                  *)
THEOREM PositionsDiffer ==
    ASSUME NEW a \in Flagged, NEW b \in Flagged,
           Index(a) = Index(b), Bit(a) = Bit(b)
    PROVE  a = b
<1>1. CASE IsCustom(a) /\ IsCustom(b)
  <2>1. a \in 80..127 /\ b \in 80..127
    BY <1>1 DEF IsCustom, Flagged, Opcodes
  <2>2. a \div 16 \in 5..7 /\ b \div 16 \in 5..7
    BY <2>1
  <2>3. (a \div 16) % 4 = (b \div 16) % 4
    BY <1>1 DEF Index, Type
  <2>4. a \div 16 = b \div 16
    BY <2>2, <2>3
  <2>5. a % 16 = b % 16
    BY <1>1 DEF Bit
  <2>. QED
    BY <2>1, <2>4, <2>5
<1>2. ASSUME NEW c \in Flagged, IsCustom(c) PROVE Index(c) \in 1..3
  <2>1. c \in 80..127
    BY <1>2 DEF IsCustom, Flagged, Opcodes
  <2>2. (c \div 16) % 4 \in 1..3
    BY <2>1
  <2>. QED
    BY <1>2, <2>2 DEF Index, Type
<1>3. CASE IsCustom(a) /\ ~IsCustom(b)
  BY <1>2, <1>3 DEF Index
<1>4. CASE ~IsCustom(a) /\ IsCustom(b)
  BY <1>2, <1>4 DEF Index
<1>5. CASE ~IsCustom(a) /\ ~IsCustom(b)
  <2>1. a \in Standard /\ b \in Standard
    BY <1>5 DEF Flagged
  <2>2. StandardBit(a) = StandardBit(b)
    BY <1>5 DEF Bit
  <2>. QED
    BY <2>1, <2>2 DEF StandardBit, Standard, ACTIVE, SLEEP, POWER_OFF, REQ_PAYLOAD,
                      REQ_HK, REQ_PUS, SEND_TIME, SEND_PUS
<1>. QED
  BY <1>1, <1>3, <1>4, <1>5

(* In a word, adding the bit of an opcode adds that opcode and no other.    *)
LEMMA AddBit ==
    ASSUME NEW words \in Words, NEW op \in Flagged
    PROVE  OpcodesOf([words EXCEPT ![Index(op)] = @ \cup {Bit(op)}])
              = OpcodesOf(words) \cup {op}
<1>1. Index(op) \in 0..3
  BY PositionExists
<1>2. ASSUME NEW other \in Flagged
      PROVE  Bit(other) \in [words EXCEPT ![Index(op)] = @ \cup {Bit(op)}][Index(other)]
               <=> Bit(other) \in words[Index(other)] \/ other = op
  <2>1. Index(other) \in 0..3
    BY PositionExists
  <2>2. CASE Index(other) = Index(op)
    BY <1>1, <2>1, <2>2, PositionsDiffer DEF Words
  <2>3. CASE Index(other) # Index(op)
    BY <1>1, <2>1, <2>3 DEF Words
  <2>. QED
    BY <2>2, <2>3
<1>. QED
  BY <1>2 DEF OpcodesOf

(* And removing it removes that opcode and no other.                        *)
LEMMA RemoveBit ==
    ASSUME NEW words \in Words, NEW op \in Flagged
    PROVE  OpcodesOf([words EXCEPT ![Index(op)] = @ \ {Bit(op)}])
              = OpcodesOf(words) \ {op}
<1>1. Index(op) \in 0..3
  BY PositionExists
<1>2. ASSUME NEW other \in Flagged
      PROVE  Bit(other) \in [words EXCEPT ![Index(op)] = @ \ {Bit(op)}][Index(other)]
               <=> Bit(other) \in words[Index(other)] /\ other # op
  <2>1. Index(other) \in 0..3
    BY PositionExists
  <2>2. CASE Index(other) = Index(op)
    BY <1>1, <2>1, <2>2, PositionsDiffer DEF Words
  <2>3. CASE Index(other) # Index(op)
    BY <1>1, <2>1, <2>3 DEF Words
  <2>. QED
    BY <2>2, <2>3
<1>. QED
  BY <1>2 DEF OpcodesOf

(* msp_seqflags_init and msp_seqflags_set on words are what BlankSeqflags   *)
(* and SetFlag are on sets, and they keep the words in range.               *)
THEOREM WritesAgree ==
    /\ msp_seqflags_init \in Seqflags
    /\ AsSets(msp_seqflags_init) = Sets!BlankSeqflags
    /\ \A flags \in Seqflags, op \in Opcodes, flag \in 0..255 :
          /\ msp_seqflags_set(flags, op, flag) \in Seqflags
          /\ AsSets(msp_seqflags_set(flags, op, flag))
                = Sets!SetFlag(AsSets(flags), op, flag)
<1>1. msp_seqflags_init \in Seqflags
  BY DEF msp_seqflags_init, Seqflags, Words
<1>2. AsSets(msp_seqflags_init) = Sets!BlankSeqflags
  <2>1. \A op \in Flagged : Index(op) \in 0..3
    BY PositionExists
  <2>2. OpcodesOf([n \in 0..3 |-> {}]) = {}
    BY <2>1 DEF OpcodesOf
  <2>. QED
    BY <2>2 DEF AsSets, msp_seqflags_init, Sets!BlankSeqflags
<1>3. ASSUME NEW flags \in Seqflags, NEW op \in Opcodes, NEW flag \in 0..255
      PROVE  /\ msp_seqflags_set(flags, op, flag) \in Seqflags
             /\ AsSets(msp_seqflags_set(flags, op, flag))
                   = Sets!SetFlag(AsSets(flags), op, flag)
  <2>. DEFINE inits == [flags.inits EXCEPT ![Index(op)] = @ \cup {Bit(op)}]
              ones == [flags.values EXCEPT ![Index(op)] = @ \cup {Bit(op)}]
              zeros == [flags.values EXCEPT ![Index(op)] = @ \ {Bit(op)}]
  <2>1. CASE op \notin Flagged
    BY <2>1 DEF msp_seqflags_set, Sets!SetFlag
  <2>2. CASE op \in Flagged
    <3>1. Index(op) \in 0..3 /\ Bit(op) \in 0..15
      BY <2>2, PositionExists
    <3>2. flags.inits \in Words /\ flags.values \in Words
      BY DEF Seqflags
    <3>3. inits \in Words /\ ones \in Words /\ zeros \in Words
      BY <3>1, <3>2 DEF Words
    <3>4. msp_seqflags_set(flags, op, flag)
            = [inits |-> inits, values |-> IF flag = 0 THEN zeros ELSE ones]
      BY <2>2 DEF msp_seqflags_set
    <3>5. msp_seqflags_set(flags, op, flag) \in Seqflags
      BY <3>3, <3>4 DEF Seqflags
    <3>6. OpcodesOf(inits) = OpcodesOf(flags.inits) \cup {op}
      BY <2>2, <3>2, AddBit
    <3>7. OpcodesOf(ones) = OpcodesOf(flags.values) \cup {op}
      BY <2>2, <3>2, AddBit
    <3>8. OpcodesOf(zeros) = OpcodesOf(flags.values) \ {op}
      BY <2>2, <3>2, RemoveBit
    <3>9. AsSets(msp_seqflags_set(flags, op, flag))
            = [inits |-> OpcodesOf(inits),
               values |-> IF flag = 0 THEN OpcodesOf(zeros) ELSE OpcodesOf(ones)]
      BY <3>4 DEF AsSets
    <3>. HIDE DEF inits, ones, zeros
    <3>. QED
      BY <2>2, <3>5, <3>6, <3>7, <3>8, <3>9 DEF Sets!SetFlag, AsSets
  <2>. QED
    BY <2>1, <2>2
<1>. QED
  BY <1>1, <1>2, <1>3

(* msp_seqflags_get, _get_next and _is_set read from the words what         *)
(* FlagValue, NextFlag and FlagIsSet read from the sets.                    *)
THEOREM ReadsAgree ==
    ASSUME NEW flags \in Seqflags, NEW op \in Opcodes, NEW flag \in {0, 1}
    PROVE  /\ msp_seqflags_get(flags, op) = Sets!FlagValue(AsSets(flags), op)
           /\ msp_seqflags_get_next(flags, op) = Sets!NextFlag(AsSets(flags), op)
           /\ msp_seqflags_is_set(flags, op, flag) <=> Sets!FlagIsSet(AsSets(flags), op, flag)
<1>1. op \in AsSets(flags).inits <=> op \in Flagged /\ IsInit(flags, op)
  BY DEF AsSets, OpcodesOf, IsInit
<1>2. op \in AsSets(flags).values <=> op \in Flagged /\ IsOne(flags, op)
  BY DEF AsSets, OpcodesOf, IsOne
<1>3. msp_seqflags_get(flags, op) = Sets!FlagValue(AsSets(flags), op)
  BY <1>2 DEF msp_seqflags_get, Sets!FlagValue
<1>4. msp_seqflags_get_next(flags, op) = Sets!NextFlag(AsSets(flags), op)
  BY <1>1, <1>2 DEF msp_seqflags_get_next, Sets!NextFlag
<1>5. msp_seqflags_is_set(flags, op, flag) <=> Sets!FlagIsSet(AsSets(flags), op, flag)
  BY <1>1, <1>3 DEF msp_seqflags_is_set, Sets!FlagIsSet
<1>. QED
  BY <1>3, <1>4, <1>5
=============================================================================
