SPECIFICATION Spec
CONSTANTS
  BufSize = 3
  HalfWord = 4
  WSizes = {2}
  RSizes = {2}
  InitBook = {0, 5}
  MaxBytes = 12
INVARIANTS SpaceRespected InOrder
PROPERTY TransferCompletes
