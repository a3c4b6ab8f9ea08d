\* Three slots and two CPUs: init, a child and a grandchild or a second child, which
\* may get the slot of the first once that has been waited for.
CONSTANTS
  NPROC = 3
  NCPU = 2
  MaxPid = 3
  TickMod = 2
  Naps = {1}
SPECIFICATION Safe
INVARIANTS NoLostWakeup OneStack InterruptsRestored NoSpinCycle
