SPECIFICATION Spec
CONSTANTS
  Writers = {w1, w2}
  Readers = {r1, r2}
  PipeSize = 2
  Laps = 2
  WriteSizes = {3}
  ReadSizes = {2}
  Killable = {w1, r1}
  MaxBytes = 4
  NoProc = NoProc
INVARIANTS NoUseAfterFree SleepersNotForgotten
PROPERTIES ImplementsChannel CallsReturn
