CONSTANTS
  NPROC = 4
  Programs <- MCPrograms
SPECIFICATION LiveSpec
INVARIANTS
  
  
  
  
  ThreadsWithinProcess
  
 
CHECK_DEADLOCK FALSE
