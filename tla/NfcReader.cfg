SPECIFICATION FairSpec
CONSTANTS
  FrameBytes = 5
  IdDigits = 2
  Tag <- TwoTags
  MaxMoves = 1
  MaxFaults = 1
INVARIANT TypeOK
PROPERTIES DumpFits RightId TagIsTaken
