SPECIFICATION Spec
CONSTANTS
  BufSize = 4
  HalfWord = 8
  WSizes = {2}
  RSizes = {2}
  InitBook = {0, 5}
  MaxBytes = 12
INVARIANTS InOrder
