CONSTANTS
  Procs = {p1, p2}
  NoProc = NoProc
  Blocks = {b1, b2, b3, b4}
  NoBlock = NoBlock
  Vals = {0, 1}
  NBUF = 3
  MaxPinned = 1
SPECIFICATION Spec
SYMMETRY Perms
INVARIANTS RightBuffer  SleepersHaveWaker
PROPERTY OneValuePerBlock
