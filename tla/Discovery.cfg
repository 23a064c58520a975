SPECIFICATION FairSpec
CONSTANTS
  Out = 2
  HighToLow = 1
  BufferSize = 1
  Me = 5
  Standing <- Standings
  Advert <- Heard
  MaxEvents = 2
INVARIANTS TypeOK SlotsBalance AttemptKnown HangsIfStopped PairedByHandle Reachable OneConnects
PROPERTY KeepsLooking
