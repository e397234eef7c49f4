SPECIFICATION MspI2cSpec
CONSTANTS
  Size = 3
  Bytes = {1, 2}
  MaxWrites = 3
  MaxFaults = 1
INVARIANTS HandedOver ReadsFromStart SlaveListens
