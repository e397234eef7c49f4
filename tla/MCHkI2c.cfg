SPECIFICATION HkI2cSpec
CONSTANTS
  Samples = 3
  MaxRounds = 2
  MaxFaults = 2
CHECK_DEADLOCK FALSE
PROPERTIES HkContract GoodSamplesGenuine RoundsEnd
