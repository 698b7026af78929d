SPECIFICATION QuietSpec
CONSTANTS
  PROCESS_TABLE_SIZE = 4
  MAXPRIO = 2
  RETVALS = {1}
PROPERTIES WaitpidEnds
CHECK_DEADLOCK FALSE
