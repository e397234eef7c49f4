SPECIFICATION Spec
CONSTANTS
  SysOps <- MCSysOps
  ReqOps <- MCReqOps
  SendOps <- MCSendOps
  Flagged <- MCFlagged
  Lengths <- MCLengths
  MTU = 2
INVARIANTS TypeOK AcknowledgedIsDone InProgressIsNew
PROPERTIES HandlerContract CarriedOutOnce
