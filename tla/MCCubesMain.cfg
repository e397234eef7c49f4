SPECIFICATION MainSpec
CONSTANTS
  SysOps <- MCSysOps
  ReqOps <- MCReqOps
  SendOps <- MCSendOps
  Lengths <- MCLengths
  MTU = 2
  RECV_MAXLEN = 2
  MaxCommands = 2
  Disciplines = {"none", "mailbox", "idle"}
INVARIANTS AtMostOnce ProcessesWhatCompleted NoneLost InOrder
PROPERTY EveryCommandExecuted
