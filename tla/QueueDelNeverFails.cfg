SPECIFICATION Spec
CONSTANTS
  PROCESS_TABLE_SIZE = 4
  MAXPRIO = 2
  RETVALS = {1}
INVARIANT QueueDelNeverFails
CHECK_DEADLOCK FALSE
