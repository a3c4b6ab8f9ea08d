\* Three slots and two regions, so that both fill up.  Clients may all have left,
\* or the kernel stopped: the system may stop.
SPECIFICATION Spec
CONSTANTS
  k = k
  p1 = p1
  p2 = p2
  p3 = p3
  f3 = f3
  f4 = f4
  Procs = {k, p1, p2, p3}
  NoPid = NoPid
  MaxRingbufs = 3
  NRegions = 2
  Frames = {f1, f2, f3, f4}
  NoFrame = NoFrame
  Names = {"", "a", "b", "longname"}
  LongNames = {"longname"}
  Prefix = "prefix"
  OverlongNames = {"longname"}
  MaxDesc = 2
  MaxCount = 3
  Clients <- MCClients
INVARIANTS NoFault RefcountExact SameNameSameRing EndsCounted
SYMMETRY Symmetry
CHECK_DEADLOCK FALSE
