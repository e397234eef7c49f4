SPECIFICATION ConfSpec
CONSTANTS
  Area = 8
  BYTES_PER_PAGE = 8
  NB_OF_BYTES_IN_A_WORD = 2
  Device = "010"
  Protections <- MCProtections
  UsedPages <- MCUsedPages
  MaxFaults = 1
  Ids = {1, 2}
  Bodies <- MCBodies
  MEM_CITIROC_CONF_LEN = 9
  MEM_CITIROC_CONF_ADDR_NVM = 8
  MEM_CITIROC_CONF_ID_ADDR = 37
INVARIANTS WholeConf ReportedSlotRuns
PROPERTIES StoreContract SelectionKept
