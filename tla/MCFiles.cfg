CONSTANTS
  a = a
  b = b
  Procs = {p1, p2}
  NoProc = NoProc
  NINUM = 3
  NINODE = 3
  NFILE = 1
  Names <- MCNames
  Calls <- MCCalls
  MaxDenied = 1
  MaxLink = 2
SPECIFICATION Spec
SYMMETRY Perms
INVARIANTS RefExact  NamedIsAllocated
CHECK_DEADLOCK FALSE
