CONSTANTS
  Procs = {p1, p2, p3}
  First = p1
  NoProc = NoProc
  Bytes = {0, 1}
  PIPESIZE = 2
  UINT = 4
  Sizes = {3}
  MaxKills = 1
SPECIFICATION Spec
SYMMETRY Perms
INVARIANTS SleepersJustified NoUseAfterFree
PROPERTY Fifo
CHECK_DEADLOCK FALSE
