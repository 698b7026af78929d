SPECIFICATION MutexSpec
CONSTANTS
  PROCESS_TABLE_SIZE = 3
  MAXPRIO = 2
  RETVALS = {1}
  NBSEMS = 1
  VAL_MAX = 2
  VAL_MIN <- MCValMin
  COUNTS <- MCCounts
  MAXCREATE = 1
INVARIANT OneInside
CHECK_DEADLOCK FALSE
