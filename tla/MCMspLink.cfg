SPECIFICATION LinkSpec
CONSTANTS
  SysOps <- MCSysOps
  ReqOps <- MCReqOps
  SendOps <- MCSendOps
  Flagged <- MCFlagged
  Lengths <- MCLengths
  MTU = 2
  MaxCommands = 3
  MaxRestarts = 1
PROPERTIES ExactlyOnceDelivery BytesInPlace CompleteAfterDelivery EveryCommandConfirmed
CHECK_DEADLOCK FALSE
