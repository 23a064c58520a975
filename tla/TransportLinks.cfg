SPECIFICATION Spec
CONSTANTS
  Link = {1, 2}
  Packet <- Split
  MaxWrite = 3
  TxBuffers = 1
  TimeoutsHappen = TRUE
  MaxQueue = 1
  MaxInbox = 1
  MaxSetUps = 3
INVARIANT PendingCovers
CHECK_DEADLOCK FALSE
