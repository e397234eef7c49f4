SPECIFICATION HvpsSpec
CONSTANTS
  MaxCmds = 3
  TX_FIFO_SIZE = 2
  HVPS_REPLY_SIZE = 3
  EarlyReply = FALSE
  LostCR = FALSE
  StrayDigits = FALSE
CHECK_DEADLOCK FALSE
INVARIANT NoOvervoltage
