SPECIFICATION ProgramsSpec
CONSTANTS
  PROCESS_TABLE_SIZE = 4
  MAXPRIO = 3
  MANYPRIO = 2
  FEW = 2
  RETVALS = {1}
PROPERTIES HighestRuns FewWaitpidEnds
CHECK_DEADLOCK FALSE
