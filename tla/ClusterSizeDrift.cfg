SPECIFICATION Spec
CONSTANTS
  Node <- Four
  BootCounters = {0}
  StaleHighBytes = {0}
  MaxConnects = 3
  MaxAccidents = 0
  MaxReboots = 0
  MaxSize = 4
  Calm = FALSE
INVARIANTS SizeAgreement
CHECK_DEADLOCK FALSE
