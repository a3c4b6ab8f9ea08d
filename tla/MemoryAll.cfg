\* Two processes, pages of four bytes and copies by twos, and memory for one large
\* process or two small ones; a size wraps at 64.
CONSTANTS
  NPages = 11
  NVA = 12
  Region = 4
  PG = 4
  Word = 64
  UNIT = 2
  NPgs = 3
  MaxLen = 6
  Procs = {1, 2}
  Deltas <- MCDeltas
  Programs <- MCPrograms
  MaxArg = 1
SPECIFICATION Spec
INVARIANTS PagesConserved NoVmPanic CopyExact
PROPERTY FailureChangesNothing
