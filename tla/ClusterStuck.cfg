SPECIFICATION FairSpec
CONSTANTS
  Node <- Three
  BootCounters = {0}
  StaleHighBytes = {0}
  MaxConnects = 3
  MaxAccidents = 1
  MaxReboots = 0
  MaxSize = 4
  Calm = FALSE
PROPERTIES HandshakeEnds
CHECK_DEADLOCK FALSE
