SPECIFICATION Spec
CONSTANTS
  RxDepth = 2
  QDepth = 2
  TxDepth = 1
  Slice = 1
  MaxSend = 4
INVARIANTS
  NothingVanishes
  IInv
PROPERTIES
  ImplementsChannel
