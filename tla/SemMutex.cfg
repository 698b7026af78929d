SPECIFICATION MutexSpec
CONSTANTS
  PROCESS_TABLE_SIZE = 4
  MAXPRIO = 2
  RETVALS = {1}
  NBSEMS = 1
  VAL_MAX = 2
  VAL_MIN <- MCValMin
  COUNTS <- MCCounts
  MAXCREATE = 1
INVARIANT MutualExclusion
CONSTRAINT Untorn
CHECK_DEADLOCK FALSE
