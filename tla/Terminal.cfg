SPECIFICATION Spec
CONSTANTS
  Keys <- MCKeys
  MaxHeld = 3
  MaxPlain = 1
  MaxLost = 1
  IntSize = 16
  CharSize = 8
  Writers = {w1, w2}
  NB_LIG = 2
  NB_COL = 3
  TabLast = 0
  TabStep = 2
  Corner = {2}
  WordSize = 16
  MaxChars = 4
INVARIANTS DriverFollowsKeys PadIsDelivered TextIsShown FaultsAreRaces
PROPERTIES OnlyPressesCount TypesWhatIsHeld
CHECK_DEADLOCK FALSE
