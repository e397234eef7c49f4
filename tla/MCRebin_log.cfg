SPECIFICATION RebinSpec
CONSTANTS
  NumBins = 2048
  NumHistos = 1
  Tables <- MCTables
  RawCfgs <- MCCfgs
  Rams <- MCRams
CHECK_DEADLOCK FALSE
INVARIANT LogBinsAreAverages
