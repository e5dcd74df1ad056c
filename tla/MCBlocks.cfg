CONSTANTS
  p1 = p1
  p2 = p2
  Procs = {p1, p2}
  NINODES = 2
  NBLOCKS = 5
  BPB = 1
  BSIZE = 2
  NDIRECT = 2
  MAXOPBLOCKS = 8
  Sizes = {7}
  Images = {1}
  MaxOpens = 3
  NoProc = NoProc
SPECIFICATION Spec
SYMMETRY MCSymmetry
INVARIANTS BlocksExact ReadBack TransactionFits NoPanic
