SPECIFICATION SynchronizerSpec
CONSTANTS
  Source = {1, 2}
  Interval = {1}
  Calendar = {"daily"}
  Slots <- DailySlots
  Stale = 1
  MaxTime = 3
  MaxEdits = 1
  MaxFaults = 1
  FirstYear = 2023
  Years = 4
  FirstWeekday = 7
  From = 8016
  To = 17500
  Step = 5
  Rules <- AllRules
  Site = "s1"
  Cluster = "c1"
  Spec_ = "t"
  Unusable = {"lo"}
  KeyOrder <- MCKeyOrder
  NodeOf <- MCNodeOf
  Scenes <- MCScenesOrNone
  Records <- MCRecords
  MaxTrouble = 1
  None = None
  Ids = {"k1", "k2", "d1", "v1", "v2", "n1", "n2"}
  KindOf <- MCKind
  Sources = {"s1", "s2"}
  Requests <- MCRequests
  p1 = p1
  p2 = p2
  i1 = i1
  i2 = i2
  Nonces = {i1, i2}
  Procs = {p1, p2}
  Worlds <- MCWorlds
SYMMETRY Interchangeable
CHECK_DEADLOCK FALSE
INVARIANTS
  CadenceKept
  NextIsFirst
  PlanHolds
  Repeatable
  IdentitiesExact
  ClosedIsEmpty
PROPERTIES
  OffIsSeen
  OthersKept
  DeletesOwned
