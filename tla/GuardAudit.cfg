SPECIFICATION GuardSpec
CONSTANTS
  None = None
  Ids = {"k1", "k2", "d1", "v1", "v2", "n1", "n2"}
  KindOf <- MCKind
  Sources = {"s1", "s2"}
  Requests <- MCRequests
  p1 = p1
  p2 = p2
  i1 = i1
  i2 = i2
  Nonces = {i1, i2}
  Procs = {p1, p2}
  Worlds <- MCWorlds
SYMMETRY Interchangeable
INVARIANT AuditAnswers
CHECK_DEADLOCK FALSE
