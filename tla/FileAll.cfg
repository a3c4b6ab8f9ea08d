\* Two files of up to four blocks, one of them open twice, and a disk that can
\* run full.
CONSTANTS
  p1 = p1
  p2 = p2
  Procs = {p1, p2}
  Lens <- MCLens
  MkfsByte = 3
  Files = {1, 2, 3}
  InodeOf <- MCInodeOf
  BSIZE = 4
  NDIRECT = 2
  NINDIRECT = 2
  NBlocks = 11
  MAXOPBLOCKS = 6
  UNIT = 2
  Word = 64
  WLengths = {3, 10}
  RLengths = {5, 63}
  MaxCalls = 3
SPECIFICATION Spec
INVARIANTS BitmapExact TransactionFits
SYMMETRY MCSymmetry
PROPERTY ImplementsFiles
