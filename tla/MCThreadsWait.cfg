CONSTANTS
  NPROC = 3
  Programs <- MCWaitPrograms
SPECIFICATION Spec
INVARIANT PgdirAlive
CHECK_DEADLOCK FALSE
