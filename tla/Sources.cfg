\* Two operations and one lost session; two plans, two runs, one token at a time, one
\* crash and one lost finish_run.
SPECIFICATION MCSpec
CONSTANTS
  OpSource = {s1}
  Kind = {"PLAN"}
  Proc = {p1, p2, p3}
  None = None
  MaxOps = 2
  MaxSessionsLost = 1
  Source = {s1}
  MaxRuns = 2
  MaxPlans = 2
  MaxTokens = 1
  MaxCrashes = 1
  MaxLost = 1
INVARIANTS
  ReviewedCurrent
  ClosedQuiet
  HonestOutcome
  PlanOnce
  RemovedSettled
PROPERTIES
  SlotContract
  WritersCleared
  NothingHangs
