SPECIFICATION SemSpec
CONSTANTS
  PROCESS_TABLE_SIZE = 3
  MAXPRIO = 2
  RETVALS = {0}
  NBSEMS = 1
  VAL_MAX = 2
  VAL_MIN <- MCValMin
  COUNTS <- MCCounts
  MAXCREATE = 2
INVARIANTS SemTypeOK Conservation DebtIsBlocked
PROPERTIES CollectsTheDead ImplementsLifecycle
CONSTRAINT RefusedWhileUntorn
CHECK_DEADLOCK FALSE
