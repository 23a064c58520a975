SPECIFICATION Spec
CONSTANTS
  Node <- Three
  BootCounters = {0}
  StaleHighBytes = {0}
  MaxConnects = 4
  MaxAccidents = 1
  MaxReboots = 1
  MaxSize = 4
  Calm = FALSE
INVARIANTS TypeOK SizeLedger NothingBehindUnfinished HandshakeOrder Forest
CHECK_DEADLOCK FALSE
