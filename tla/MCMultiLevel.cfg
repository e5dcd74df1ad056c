CONSTANTS
  NPROC = 3
  NCPU = 1
  MaxPid = 5
SPECIFICATION LiveSpec
PROPERTIES EvenThenOldest RoundRobin TurnComes
