SPECIFICATION Spec
CONSTANTS
  Op = {1}
  Origins = {"fresh"}
  Kinds = {"delete"}
  MaxEdits = 0
  MaxInventory = 0
  MaxFaults = 2
INVARIANTS RefusalProvesNoMutation
CHECK_DEADLOCK FALSE
