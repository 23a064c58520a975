SPECIFICATION FairSpec
CONSTANTS
  Node <- Three
  BootCounters = {0}
  StaleHighBytes = {0}
  MaxConnects = 5
  MaxAccidents = 3
  MaxReboots = 0
  MaxSize = 4
  Calm = TRUE
INVARIANTS SizeAgreement IdAgreement
PROPERTY ComesToRest
CHECK_DEADLOCK FALSE
