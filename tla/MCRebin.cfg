SPECIFICATION RebinSpec
CONSTANTS
  NumBins = 2048
  NumHistos = 2
  Tables <- MCTables
  RawCfgs <- MCCfgs
  Rams <- MCRams
CHECK_DEADLOCK FALSE
INVARIANTS BinsAreAverages BinsPartition LengthAsAnnounced
