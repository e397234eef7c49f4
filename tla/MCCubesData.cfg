SPECIFICATION DataSpec
CONSTANTS
  Durations <- MCDurations
  BinCfgs <- MCBinCfgs
  MaxDaqs = 2
  RdyAtBoot = TRUE
  Patient = TRUE
INVARIANT WholePayload
PROPERTIES HkReadyWhenAsked EndOfDaqHkInHeader PayloadPrepared
