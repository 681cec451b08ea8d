SPECIFICATION SumSpec
CHECK_DEADLOCK FALSE
CONSTANTS
  Image <- MCImage
  Programs <- MCPrograms
  Resting <- MCResting
  Base = 4
  MaxCycles = 6
  DeviceBytes = {0, 255}
  MaxCallstack = 2
  Clocks = 24
  MaxSlices = 2
  MaxInterrupts = 2
  RxDepth = 1
  QDepth = 1
  TxDepth = 1
  Slice = 1
  MaxSend = 2
PROPERTY
  DecimalSum
