SPECIFICATION Spec
CONSTANTS
  Procs = {p1, p2}
  Blocks = {a, b}
  Vals = {0, 1}
  None = None
  MaxOpBlocks = 2
  LogSize = 4
  Size = 3
INVARIANT ReservationKept
PROPERTIES ImplementsAtomicDisk WaiterRetries
