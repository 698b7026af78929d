SPECIFICATION Spec
CONSTANTS
  PROCESS_TABLE_SIZE = 4
  MAXPRIO = 3
  RETVALS = {1}
INVARIANT StartNamesItsChild
CHECK_DEADLOCK FALSE
