SPECIFICATION FairSpec
CONSTANTS
  Link = {1}
  Packet <- Mixed
  MaxWrite = 3
  TxBuffers = 2
  TimeoutsHappen = FALSE
  MaxQueue = 2
  MaxInbox = 2
  MaxSetUps = 2
INVARIANTS TypeOK BuffersComeBack
PROPERTIES FifoSpec Flow
CHECK_DEADLOCK FALSE
