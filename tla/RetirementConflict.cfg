SPECIFICATION LiveSpec
CONSTANTS
  Op = {1}
  Origins = {"fresh"}
  Kinds = {"delete"}
  MaxEdits = 0
  MaxInventory = 0
  MaxFaults = 0
PROPERTIES ConflictBlocks
CHECK_DEADLOCK FALSE
