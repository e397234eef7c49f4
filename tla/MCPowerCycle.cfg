SPECIFICATION PowerSpec
CONSTANTS
  Flagged <- MCFlagged
  Silent = {"boot", "power_off"}
  NvmFails = {"save", "mark"}
  Supplies = {"steady", "failing"}
INVARIANTS CarriedOutOnceOnly
PROPERTIES RestoredFlagsCurrent NothingSwallowed
