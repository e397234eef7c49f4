---------------------------- MODULE NvmProtection ----------------------------
(***************************************************************************)
(* Where the eNVM driver may write: check_protection_reserved_nvm, which   *)
(* keeps NVM_write, NVM_unlock and NVM_read_page_write_count out of the    *)
(* protected and the reserved areas of each family of devices, and the     *)
(* rules for locking pages (mss_nvm.c).                                    *)
(*                                                                         *)
(* Offsets are multiples of Area, the size of a protected area: 4096.      *)
(* Offsets have 19 bits and the lengths are short: 32 bits do not wrap.    *)
(***************************************************************************)
EXTENDS Integers

CONSTANT Area           \* bytes in an area with a protection of its own

ASSUME AreaAssumption == Area \in Nat \ {0} /\ Area % 2 = 0

\* The families that are told apart, by the device of each with the least number.
Devices == {"005", "010", "060", "090"}

\* A field of ENVM_PROTECT_USER, under PROTECT_USER_MASK.
Levels == {"NO_READ_WRITE", "READ_ONLY", "WRITE_ONLY", "WRITE_ENABLED"}
Users == 0..3
ProtectUser == [Users -> Levels]
-----------------------------------------------------------------------------
(* The areas of each family. *)

Top(device) ==
    CASE device = "005" -> 32 * Area - 1
      [] device \in {"010", "060"} -> 64 * Area - 1
      [] device = "090" -> 128 * Area - 1

Reserved(device) ==
    CASE device = "005" -> 31 * Area + Area \div 2
      [] device = "010" -> 63 * Area + Area \div 2
      [] device = "060" -> 62 * Area
      [] device = "090" -> 126 * Area

NVM1_BOTTOM_OFFSET == 64 * Area

\* The fields that are looked at: what the others protect is reserved, or is not there.
UsersOf(device) ==
    CASE device \in {"005", "010"} -> {0, 1}
      [] device = "060" -> {0, 3}
      [] device = "090" -> {0, 1, 2, 3}

Bottom(device, user) ==
    CASE user = 0 -> 0
      [] user = 1 -> (CASE device = "005" -> 31 * Area
                        [] device = "010" -> 63 * Area
                        [] OTHER -> 125 * Area)
      [] user = 2 -> 124 * Area
      [] user = 3 -> IF device = "060" THEN 61 * Area ELSE 123 * Area
-----------------------------------------------------------------------------
\* The last offset of a range; length 0 is for reading the write count of a page.
LastOffset(offset, length) == offset + (IF length = 0 THEN 0 ELSE length - 1)

\* The range begins in the area, or begins below and reaches it.
Touches(bottom, top, offset, last) ==
    offset \in bottom..top \/ (last >= bottom /\ offset < bottom)

protection_check(level, length) == ~(level = "READ_ONLY" /\ length = 0)

Protected(device, levels, offset, length) ==
    \E user \in UsersOf(device) :
        /\ levels[user] # "WRITE_ENABLED"
        /\ Touches(Bottom(device, user), Bottom(device, user) + Area - 1,
                   offset, LastOffset(offset, length))
        /\ protection_check(levels[user], length)

check_protection_reserved_nvm(device, levels, offset, length) ==
    IF Protected(device, levels, offset, length) THEN "NVM_PROTECTION_ERROR"
    ELSE IF LastOffset(offset, length) > Top(device) THEN "NVM_INVALID_PARAMETER"
    ELSE IF Touches(Reserved(device), Top(device), offset, LastOffset(offset, length))
    THEN "NVM_PROTECTION_ERROR"
    ELSE "NVM_SUCCESS"
-----------------------------------------------------------------------------
\* Pages that are write-only, or neither read nor written, are not locked.
Unreadable(levels, user) == levels[user] \in {"WRITE_ONLY", "NO_READ_WRITE"}

g_do_not_lock_page(device, levels, offset) ==
    CASE device \in {"005", "010"} -> Unreadable(levels, 0) \/ Unreadable(levels, 1)
      [] device = "060" -> FALSE
      [] device = "090" -> Unreadable(levels, 0) /\ offset < NVM1_BOTTOM_OFFSET

\* NVM_write locks the pages it writes, if it can.  (The first two silicon versions
\* of the 050, whose pages cannot be unlocked, are left out.)
Locks(device, levels, offset, length) ==
    /\ ~g_do_not_lock_page(device, levels, offset)
    /\ device = "090" => offset + length <= NVM1_BOTTOM_OFFSET
    /\ device # "060"
=============================================================================
