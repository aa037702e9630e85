SPECIFICATION MCSpec
CONSTANTS
  Op = {1, 2}
  Origins = {"fresh", "retained", "busy", "open"}
  Kinds = {"delete", "archive"}
  MaxEdits = 1
  MaxInventory = 1
  MaxFaults = 1
INVARIANTS JournalHonest FlightProtected ForgottenLast
PROPERTIES ReviewedOnly RemovalEnds
CHECK_DEADLOCK FALSE
