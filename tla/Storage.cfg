SPECIFICATION FairSpec
CONSTANTS
  Id = {"default", "blank", "enrolled"}
  Key = {"default", "blank", "given"}
  DefaultId = "default"
  DefaultKey = "default"
  Blank = "blank"
  BufferSlots = 5
  MaxSaves = 7
  MaxFailures = 1
  MaxResets = 2
INVARIANTS TypeOK QueueLayout OneTaskAtATime StoreOnErased
PROPERTIES CellSpec SavesEnd
CHECK_DEADLOCK FALSE
