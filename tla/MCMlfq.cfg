CONSTANTS
  NPROC = 3
  NCPU = 1
  MLFQ_K = 2
  BOOST = 2
  Prios = {0, 1}
SPECIFICATION Spec
INVARIANTS NumprocExact  NoLostExit
 
