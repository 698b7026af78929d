SPECIFICATION Spec
CONSTANTS
  PROCESS_TABLE_SIZE = 4
  MAXPRIO = 2
  RETVALS = {1}
INVARIANTS TypeOK Conservation IdleReady
PROPERTIES DeadForever OnlyZombiesUnsort
CHECK_DEADLOCK FALSE
