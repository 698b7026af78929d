SPECIFICATION Spec
CONSTANTS
  PAGE = 1
  NPTES = 2
  FAR = 255
  PD <- MCPD
  Commands <- MCCommands
  Values = {0}
  TRAPNOS = {13}
  FAULTS = 1
  MAXTRAPS = 2
  MAXCMDS = 2
  MAXREPORTS = 1
  COPIES = 2
INVARIANTS CommandsPairUp BeliefsHold HeldForGdbOnly
PROPERTIES ResumesAsMeant Answered Released
CHECK_DEADLOCK FALSE
