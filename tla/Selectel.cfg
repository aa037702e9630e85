SPECIFICATION MCSpec
CONSTANTS
  None = None
  MaxRuns = 2
  Accounts = {"a1", "a2"}
  Requests = {"q1"}
  Scenes <- MCScenes
  Nil = Nil
  Keys = {"d1", "d2", "v1"}
  Kind <- MCKind
  Uuid = {"d2"}
  Global = {"g1", "g2", "g3"}
  Cases <- MCCases
INVARIANTS
  HonestAccount
  CardsSound
PROPERTIES
  ImportIsCurrent
  OnlyOwnDeleted
  RunningEnds
CHECK_DEADLOCK FALSE
