CONSTANTS
  Procs = {p1, p2}
  Blocks = {b1, b2, b3}
  Vals = {v1, v2}
  NoBlock = NoBlock
  MAXOPBLOCKS = 2
  LOGSIZE = 4
  NLOG = 4
  OpBlocks = 1
  MaxCrashes = 2
SPECIFICATION LiveSpec
INVARIANTS CommitExclusive NoPanic
PROPERTIES AtomicCommit SleepersWake
