\* Two processes, fewer buffers than blocks, and descriptor tables that hold one
\* request or two.
CONSTANTS
  Procs = {1, 2}
  NBUF = 2
  Blocks = {1, 2, 3}
  Nums = {4, 8}
SPECIFICATION Spec
INVARIANTS ReadsLatest RefcountExact DeviceOwnsBuffer SleepersNotForgotten
PROPERTY RequestsReturn
