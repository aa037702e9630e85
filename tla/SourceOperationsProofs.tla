----------------------- MODULE SourceOperationsProofs -----------------------
(***************************************************************************)
(* Proofs about SourceOperations for any number of sources, processes,     *)
(* operations and lost sessions: type correctness, the inductive invariant *)
(* IInv, and that the table implements OperationSlot.                      *)
(***************************************************************************)
EXTENDS SourceOperations, TLAPS
USE ZenonT(30)

\* A write of one row leaves the others.
LEMMA OneRow == ASSUME NEW S, NEW r, r = [t \in S |-> r[t]], NEW j \in S, NEW v, NEW q, q = [r EXCEPT ![j] = v]
                PROVE  q[j] = v /\ \A t \in S \ {j} : q[t] = r[t]
  OBVIOUS

\* A slot is its source and its kind.
LEMMA SlotParts == ASSUME NEW s \in Slot
                   PROVE  s[1] \in OpSource /\ s[2] \in Kind /\ s = <<s[1], s[2]>>
  BY SMTT(30) DEF Slot

\* The PLAN slot of a source is a slot.
LEMMA PlanSlot == ASSUME NEW s \in OpSource
                  PROVE  <<s, "PLAN">> \in Slot
  BY OpsAssumption DEF Slot

\* An idle process is parked on some slot.
LEMMA NoJobType == NoJob \in Slot
<1>1. PICK s \in OpSource : TRUE
  BY OpsAssumption
<1>2. \E t \in Slot : TRUE
  BY <1>1, PlanSlot
<1> QED
  BY <1>2 DEF NoJob

\* Operation numbers are bounded naturals.
LEMMA OpType == 0 \in Op /\ \A o \in Op : o \in Nat /\ o <= MaxOps
  BY OpsAssumption, SMTT(30) DEF Op

\* The UPDATEs of latest(), invalidate_plan() and the clock keep a row a row.
LEMMA RowUpdates == ASSUME NEW r \in OpRow, NEW st \in Status
                    PROVE  /\ [r EXCEPT !.age = "late"] \in OpRow
                           /\ [r EXCEPT !.status = st, !.result = "null"] \in OpRow
                           /\ [r EXCEPT !.status = st, !.result = "null", !.age = "fresh"] \in OpRow
  BY DEF OpRow

\* A row with a new status, result or age is still a row.
LEMMA RowFields == ASSUME NEW r \in OpRow, NEW st \in Status
                   PROVE  /\ [r EXCEPT !.status = st, !.result = "null"].op = r.op
                          /\ [r EXCEPT !.status = st, !.result = "null"].status = st
                          /\ [r EXCEPT !.status = st, !.result = "null"].age = r.age
                          /\ [r EXCEPT !.status = st, !.result = "null", !.age = "fresh"].op = r.op
                          /\ [r EXCEPT !.status = st, !.result = "null", !.age = "fresh"].status = st
                          /\ [r EXCEPT !.status = st, !.result = "null", !.age = "fresh"].age = "fresh"
  BY DEF OpRow

\* Rows, owners and local state of processes keep their types under every action.
THEOREM TypeCorrect == OpsSpec => []OpsTypeOK
<1> USE OpsAssumption, NoJobType, OpType
<1>1. OpsInit => OpsTypeOK
  BY SMTT(30) DEF OpsInit, OpsTypeOK, OpRow, Status, Step, Op
<1>2. OpsTypeOK /\ [OpsNext]_opsVars => OpsTypeOK'
  <2> SUFFICES ASSUME OpsTypeOK, [OpsNext]_opsVars PROVE OpsTypeOK'
    OBVIOUS
  <2> USE DEF OpsTypeOK, Goto, Return, FreedLocks, FreedGates, store, opLocks, local
  <2>1. ASSUME NEW p \in Proc, ApiRequest(p) PROVE OpsTypeOK'
    <3>1. ASSUME NEW s \in OpSource, Operations(p, s) PROVE OpsTypeOK'
      BY <3>1, PlanSlot DEF Operations, Step
    <3>2. ASSUME NEW s \in OpSource, NEW k \in Kind, StartRequest(p, s, k) PROVE OpsTypeOK'
      BY <3>2 DEF StartRequest, Step, Slot
    <3>3. ASSUME NEW s \in OpSource, NEW o \in 1..lastOp, ReviewGate(p, s, o) PROVE OpsTypeOK'
      BY <3>3, PlanSlot, SMTT(30) DEF ReviewGate, Step, Op
    <3> QED
      BY <2>1, <3>1, <3>2, <3>3 DEF ApiRequest
  <2>2. ASSUME NEW p \in Proc, LatestRead(p) PROVE OpsTypeOK'
    <3>1. LookupWork(SrcOf(p)) \in SUBSET Todo
      BY SlotParts, SMTT(30) DEF LookupWork, Todo, SrcOf, OpRow, Slot, Op
    <3> QED
      BY <2>2, <3>1 DEF LatestRead, Step
  <2>3. ASSUME NEW p \in Proc, NEW i \in todo[p], LatestTryLock(p, i) PROVE OpsTypeOK'
    <3>1. i \in Todo /\ [i EXCEPT !.act = "fail"] \in Todo /\ i.slot \in Slot
      BY SMTT(30) DEF Todo
    <3> QED
      BY <2>3, <3>1, SMTT(30) DEF LatestTryLock
  <2>4. ASSUME NEW p \in Proc, LatestCommit(p) PROVE OpsTypeOK'
    <3>1. \A s \in Slot : AfterLookup(p, s) \in OpRow
      <4>1. "FAILED" \in Status /\ \A s \in Slot : ExpiredStatus(s) \in Status /\ row[s] \in OpRow
        BY DEF ExpiredStatus, Status
      <4> QED
        BY <4>1, RowUpdates DEF AfterLookup
    <3>2. row' \in [Slot -> OpRow]
      <4>1. row' = [s \in Slot |-> AfterLookup(p, s)]
        BY <2>4 DEF LatestCommit
      <4> QED
        BY <3>1, <4>1
    <3>5. executor' \in [Slot -> Proc \cup {None}]
      BY <2>4 DEF LatestCommit
    <3>3. at' \in [Proc -> Step] /\ todo' \in [Proc -> SUBSET Todo]
      BY <2>4 DEF LatestCommit, Step
    <3>4. job' \in [Proc -> Slot] /\ ours' \in [Proc -> Op] /\ ret' \in [Proc -> {"idle", "start"}]
      BY <2>4, SMTT(30) DEF LatestCommit
    <3> QED
      BY <2>4, <3>2, <3>3, <3>4, <3>5 DEF LatestCommit
  <2>5. ASSUME NEW p \in Proc, Start(p) PROVE OpsTypeOK'
    <3>1. CASE StartRefused(p)
      BY <3>1 DEF StartRefused, Step
    <3>2. CASE StartCreated(p)
      BY <3>2, SMTT(30) DEF StartCreated, Step, OpRow, Op, Status
    <3> QED
      BY <2>5, <3>1, <3>2 DEF Start
  <2>6. ASSUME NEW p \in Proc, TryLock(p) PROVE OpsTypeOK'
    BY <2>6, SMTT(30) DEF TryLock, Step
  <2>7. ASSUME NEW p \in Proc, Check(p) PROVE OpsTypeOK'
    BY <2>7 DEF Check, Step
  <2>8. ASSUME NEW p \in Proc, Complete(p) PROVE OpsTypeOK'
    <3>1. \A c \in Completion(job[p]) : c.status \in Status /\ c.result \in {"set", "null"}
      BY SMTT(30) DEF Completion, Status
    <3>2. row' \in [Slot -> OpRow]
      <4>1. \A c \in Completion(job[p]) : [op |-> ours[p], status |-> c.status,
                                           result |-> c.result, age |-> "fresh"] \in OpRow
        BY <3>1 DEF OpRow
      <4> QED
        BY <2>8, <4>1, SMTT(30) DEF Complete
    <3> QED
      BY <2>8, <3>2 DEF Complete, Step
  <2>9. ASSUME NEW p \in Proc, Unlock(p) PROVE OpsTypeOK'
    BY <2>9 DEF Unlock, Step
  <2>10. ASSUME NEW p \in Proc, CurrentPlan(p) \/ ReviewEnd(p) PROVE OpsTypeOK'
    BY <2>10, SMTT(30) DEF CurrentPlan, ReviewEnd, Step
  <2>11. ASSUME NEW p \in Proc, Lose(p) PROVE OpsTypeOK'
    BY <2>11, SMTT(30) DEF Lose, Step
  <2>12. ASSUME NEW s \in OpSource, Control(s) PROVE OpsTypeOK'
    <3>1. Withdrawn(<<s, "PLAN">>) \in [Slot -> OpRow]
      <4>1. \A t \in Slot : [row[t] EXCEPT !.status = "STALE", !.result = "null"] \in OpRow
        BY RowUpdates DEF Status
      <4> QED
        BY <4>1, PlanSlot DEF Withdrawn
    <3>2. ASSUME NEW o \in 1..lastOp, InvalidatePlan(s, o) PROVE OpsTypeOK'
      BY <3>1, <3>2 DEF InvalidatePlan
    <3>3. CASE Enqueue(s) \/ RemoveSource(s)
      BY <3>3 DEF Enqueue, RemoveSource
    <3>4. CASE Recover(s)
      BY <3>1, <3>4 DEF Recover
    <3> QED
      BY <2>12, <3>2, <3>3, <3>4 DEF Control
  <2>13. ASSUME NEW s \in Slot, Elapse(s) PROVE OpsTypeOK'
    <3>1. row' \in [Slot -> OpRow]
      <4>1. [row[s] EXCEPT !.age = "late"] \in OpRow
        BY RowUpdates DEF Status
      <4> QED
        BY <2>13, <4>1 DEF Elapse
    <3> QED
      BY <2>13, <3>1 DEF Elapse
  <2>14. CASE UNCHANGED opsVars
    BY <2>14 DEF opsVars
  <2>15. ASSUME NEW p \in Proc, Progress(p) PROVE OpsTypeOK'
    BY <2>15, <2>2, <2>3, <2>4, <2>5, <2>6, <2>7, <2>8, <2>9, <2>10 DEF Progress
  <2> QED
    BY <2>1, <2>15, <2>11, <2>12, <2>13, <2>14 DEF OpsNext
<1> QED
  BY <1>1, <1>2, PTL DEF OpsSpec

\* A step that frees what p holds and sends p home keeps the invariant: the
\* refusals, the unlock, the end of a review and a lost session.
LEMMA HomeStep == ASSUME OpsTypeOK, OpsIInv, NEW p \in Proc, Return(p),
                         \/ executor' = executor /\ at[p] \in {"start", "spawned", "gated", "reviewed"}
                         \/ executor' = FreedLocks(p),
                         \/ gate' = gate /\ at[p] \notin {"gated", "reviewed"}
                         \/ gate' = FreedGates(p),
                         UNCHANGED store
                  PROVE  OpsIInv'
<1> USE OpsAssumption DEF OpsTypeOK, OpsIInv, Return, Goto, store, Running, Current, SrcOf
<1>1. \A q \in Proc \ {p} : at'[q] = at[q] /\ job'[q] = job[q] /\ ours'[q] = ours[q] /\ todo'[q] = todo[q]
  OBVIOUS
<1>2. at'[p] = "idle" /\ todo'[p] = {}
  OBVIOUS
<1>3. LockHeld'
  <2>1. \A t \in Slot : \A q \in Proc \ {p} : executor[t] = q => executor'[t] = q
    BY DEF FreedLocks
  <2>2. \A q \in Proc : \A i \in todo[q] : i.slot \in Slot
    BY SMTT(30) DEF Todo
  <2> QED
    BY <1>1, <1>2, <2>1, <2>2, SMTT(30) DEF LockHeld
<1>4. GateHeld'
  <2>1. \A t \in OpSource : \A q \in Proc \ {p} : gate[t] = q => gate'[t] = q
    BY DEF FreedGates
  <2>2. \A q \in Proc : job[q][1] \in OpSource
    BY SlotParts
  <2> QED
    BY <1>1, <1>2, <2>1, <2>2, SMTT(30) DEF GateHeld
<1>5. ExecutorFenced'
  BY <1>1, <1>2, <1>3, SMTT(30) DEF ExecutorFenced, LockHeld
<1> QED
  BY <1>1, <1>2, <1>3, <1>4, <1>5, SMTT(30) DEF RowShape, ReviewedCurrent, ClosedQuiet

\* A step of the table that leaves every process where it is keeps the invariant
\* when it touches neither a RUNNING row nor the slot of a reviewed plan, except
\* that it may let a row grow old.
LEMMA TableStep == ASSUME OpsTypeOK, OpsIInv, UNCHANGED <<opLocks, local, lastOp>>, NEW s \in Slot,
                          \A t \in Slot \ {s} : row'[t] = row[t],
                          \/ /\ row'[s].op = row[s].op
                             /\ row'[s].status = row[s].status
                             /\ row[s].status # "NONE"
                             /\ row'[s].age = "late"
                          \/ /\ SourceGateFree(s[1])
                             /\ row'[s].op = row[s].op
                             /\ row[s].status = "READY"
                             /\ row'[s].status = "STALE",
                          \A q \in OpSource : admit'[q] = "closed" => admit[q] = "closed",
                          admit' = admit \/ SourceGateFree(s[1])
                   PROVE  OpsIInv'
<1> USE OpsAssumption DEF OpsTypeOK, OpsIInv, opLocks, local, Running, Current, SrcOf, SourceGateFree
<1>1. LockHeld' /\ GateHeld'
  BY SlotParts, SMTT(30) DEF LockHeld, GateHeld
<1>2. RowShape'
  BY SMTT(30) DEF RowShape
<1>3. ExecutorFenced'
  BY SMTT(30) DEF ExecutorFenced
<1>4. ReviewedCurrent'
  <2> SUFFICES ASSUME NEW p \in Proc, at[p] = "reviewed"
               PROVE  /\ row'[job[p]].op = ours[p]
                      /\ \/ row'[job[p]].status = "READY"
                         \/ row'[job[p]].status = "STALE" /\ row'[job[p]].age = "late"
                      /\ admit'[job[p][1]] # "closed"
    BY DEF ReviewedCurrent
  <2>1. job[p] \in Slot /\ job[p][1] \in OpSource /\ gate[job[p][1]] = p /\ p # None
    BY SlotParts DEF GateHeld
  <2> QED
    BY <2>1, SMTT(30) DEF ReviewedCurrent
<1>5. ClosedQuiet'
  BY SMTT(30) DEF ClosedQuiet, Slot
<1> QED
  BY <1>1, <1>2, <1>3, <1>4, <1>5

\* A step that only moves p forward, to where p owes no lock, keeps the invariant.
LEMMA MoveStep == ASSUME OpsTypeOK, OpsTypeOK', OpsIInv, NEW p \in Proc, UNCHANGED <<store, opLocks>>,
                         \A q \in Proc \ {p} : /\ at'[q] = at[q] /\ job'[q] = job[q]
                                                /\ ours'[q] = ours[q] /\ todo'[q] = todo[q],
                         at'[p] \notin {"locked", "running", "unlock", "gated", "reviewed"},
                         \A i \in todo'[p] : i.act # "fail"
                  PROVE  OpsIInv'
<1> USE DEF OpsTypeOK, OpsIInv, store, opLocks, Running, Current, SrcOf
<1>1. LockHeld'
  BY SMTT(30) DEF LockHeld
<1>2. GateHeld'
  BY SMTT(30) DEF GateHeld
<1>3. ExecutorFenced' /\ RowShape'
  BY SMTT(30) DEF ExecutorFenced, RowShape
<1>4. ReviewedCurrent' /\ ClosedQuiet'
  BY SMTT(30) DEF ReviewedCurrent, ClosedQuiet
<1> QED
  BY <1>1, <1>2, <1>3, <1>4

\* What the commit of latest() does to one row.
LEMMA LookupEffect == ASSUME OpsTypeOK, NEW p \in Proc, NEW t \in Slot
                      PROVE  /\ AfterLookup(p, t).op = row[t].op
                             /\ \/ AfterLookup(p, t) = row[t]
                                \/ /\ Interrupts(p, t)
                                   /\ AfterLookup(p, t).status = "FAILED"
                                \/ /\ Expires(p, t)
                                   /\ AfterLookup(p, t).age = row[t].age
                                   /\ AfterLookup(p, t).status = ExpiredStatus(t)
<1>1. row[t] \in OpRow /\ ExpiredStatus(t) \in Status /\ "FAILED" \in Status
  BY DEF OpsTypeOK, ExpiredStatus, Status
<1> QED
  BY <1>1, RowFields DEF AfterLookup

\* Every step of the operations keeps IInv.
LEMMA Preserved == ASSUME OpsTypeOK, OpsTypeOK', OpsIInv, [OpsNext]_opsVars PROVE OpsIInv'
<1> USE OpsAssumption
<1>1. ASSUME NEW p \in Proc, NEW s \in OpSource, Operations(p, s) PROVE OpsIInv'
  BY <1>1, MoveStep, SMTT(30) DEF Operations, Goto, OpsTypeOK, store, opLocks, OpsIInv, LockHeld
<1>2. ASSUME NEW p \in Proc, NEW s \in OpSource, NEW k \in Kind, StartRequest(p, s, k) PROVE OpsIInv'
  BY <1>2, MoveStep, SMTT(30) DEF StartRequest, Goto, OpsTypeOK, store, opLocks, OpsIInv, LockHeld
<1>3. ASSUME NEW p \in Proc, NEW s \in OpSource, NEW o \in 1..lastOp, ReviewGate(p, s, o) PROVE OpsIInv'
  <2> USE <1>3 DEF OpsTypeOK, ReviewGate, Goto, SourceGateFree, Admitted, store, Running, Current, SrcOf
  <2>1. \A q \in Proc \ {p} : /\ at'[q] = at[q] /\ job'[q] = job[q]
                              /\ ours'[q] = ours[q] /\ todo'[q] = todo[q]
    OBVIOUS
  <2>2. at'[p] = "gated" /\ job'[p] = <<s, "PLAN">> /\ gate'[s] = p
    BY PlanSlot
  <2>3. LockHeld' /\ RowShape' /\ ExecutorFenced'
    BY <2>1, <2>2, SMTT(30) DEF OpsIInv, LockHeld, RowShape, ExecutorFenced
  <2>4. GateHeld'
    <3>1. \A q \in Proc : job[q][1] \in OpSource
      BY SlotParts
    <3> QED
      BY <2>1, <2>2, <3>1, SMTT(30) DEF OpsIInv, GateHeld
  <2>5. ReviewedCurrent' /\ ClosedQuiet'
    BY <2>1, <2>2, SMTT(30) DEF OpsIInv, ReviewedCurrent, ClosedQuiet
  <2> QED
    BY <2>3, <2>4, <2>5 DEF OpsIInv
<1>4. ASSUME NEW p \in Proc, LatestRead(p) PROVE OpsIInv'
  <2>1. \A i \in LookupWork(SrcOf(p)) : i.act # "fail"
    BY SMTT(30) DEF LookupWork
  <2> QED
    BY <1>4, <2>1, MoveStep DEF LatestRead, Goto, OpsTypeOK, store, opLocks
<1>5. ASSUME NEW p \in Proc, NEW i \in todo[p], LatestTryLock(p, i) PROVE OpsIInv'
  <2> USE <1>5 DEF OpsTypeOK, LatestTryLock, store, Running, Current, SrcOf
  <2>1. i.slot \in Slot /\ \A q \in Proc : \A j \in todo[q] : j.slot \in Slot
    BY SMTT(30) DEF Todo
  <2>2. LockHeld'
    <3>1. \A j \in todo'[p] : j.act = "fail" => executor'[j.slot] = p
      <4>1. [i EXCEPT !.act = "fail"].slot = i.slot
        BY SMTT(30) DEF Todo
      <4>2. CASE executor[i.slot] = None
        <5>1. todo'[p] = (todo[p] \ {i}) \cup {[i EXCEPT !.act = "fail"]}
          BY <4>2
        <5>2. \A j \in todo[p] : j.act = "fail" => executor[j.slot] = p /\ executor'[j.slot] = p
          BY <2>1, <4>2, SMTT(30) DEF OpsIInv, LockHeld
        <5>3. executor'[[i EXCEPT !.act = "fail"].slot] = p
          BY <2>1, <4>1, <4>2, SMTT(30)
        <5> QED
          BY <5>1, <5>2, <5>3 DEF OpsIInv, LockHeld
      <4>3. CASE executor[i.slot] # None
        BY <4>3, SMTT(30) DEF OpsIInv, LockHeld
      <4> QED
        BY <4>2, <4>3
    <3>2. \A q \in Proc \ {p} : todo'[q] = todo[q]
      OBVIOUS
    <3>3. \A t \in Slot : \A q \in Proc : executor[t] = q => executor'[t] = q
      BY <2>1, SMTT(30)
    <3> QED
      BY <2>1, <3>1, <3>2, <3>3, SMTT(30) DEF OpsIInv, LockHeld
  <2>3. GateHeld' /\ RowShape'
    BY DEF OpsIInv, GateHeld, RowShape
  <2>4. ExecutorFenced'
    BY <2>2 DEF OpsIInv, ExecutorFenced, LockHeld
  <2>5. ReviewedCurrent' /\ ClosedQuiet'
    BY SMTT(30) DEF OpsIInv, ReviewedCurrent, ClosedQuiet
  <2> QED
    BY <2>2, <2>3, <2>4, <2>5 DEF OpsIInv
<1>6. ASSUME NEW p \in Proc, LatestCommit(p) PROVE OpsIInv'
  <2> USE <1>6 DEF OpsTypeOK, LatestCommit, Running, Current, SrcOf
  <2>1. \A q \in Proc \ {p} : /\ at'[q] = at[q] /\ job'[q] = job[q]
                              /\ ours'[q] = ours[q] /\ todo'[q] = todo[q]
    BY DEF Goto, Return
  <2>2. at'[p] \in {"idle", "start"} /\ todo'[p] = {}
    BY DEF Goto, Return
  <2>3. LockHeld'
    <3>1. \A t \in Slot : \A q \in Proc \ {p} : executor[t] = q => executor'[t] = q
      BY DEF FreedLocks
    <3>2. \A q \in Proc : \A j \in todo[q] : j.slot \in Slot
      BY SMTT(30) DEF Todo
    <3> QED
      BY <2>1, <2>2, <3>1, <3>2, SMTT(30) DEF OpsIInv, LockHeld
  <2>4. GateHeld'
    BY <2>1, <2>2, SMTT(30) DEF OpsIInv, GateHeld
  <2>5. \A t \in Slot : row'[t] = AfterLookup(p, t)
    OBVIOUS
  <2>6. \A t \in Slot : row'[t].op = row[t].op
    BY <2>5, LookupEffect
  <2>7. \A t \in Slot : \/ row'[t] = row[t]
                        \/ Interrupts(p, t) /\ row'[t].status = "FAILED"
                        \/ /\ Expires(p, t) /\ row'[t].age = row[t].age
                           /\ row'[t].status = ExpiredStatus(t)
    BY <2>5, LookupEffect, SMTT(30)
  <2>8. \A t \in Slot : row'[t].status \in {"RUNNING", "NONE"} => row'[t] = row[t]
    BY <2>7 DEF ExpiredStatus
  <2>9. \A t \in Slot : Interrupts(p, t) => executor[t] = p /\ row[t].status = "RUNNING"
    BY SMTT(30) DEF Interrupts, OpsIInv, LockHeld
  <2>10. \A t \in Slot : Expires(p, t) => row[t].status # "RUNNING" /\ row[t].age = "late"
    BY DEF Expires
  <2>15. UNCHANGED <<gate, admit, lastOp>>
    OBVIOUS
  <2> HIDE <1>6 DEF LatestCommit
  <2>11. RowShape'
    BY <2>6, <2>8, <2>15 DEF OpsIInv, RowShape
  <2>12. ExecutorFenced'
    <3> SUFFICES ASSUME NEW q \in Proc, at'[q] = "running"
                 PROVE  row'[job[q]] = row[job[q]] /\ q # p
      BY <2>1, <2>2, <2>3, SMTT(30) DEF OpsIInv, ExecutorFenced, LockHeld
    <3>1. q # p /\ executor[job[q]] = q /\ row[job[q]].status = "RUNNING"
      BY <2>1, <2>2, SMTT(30) DEF OpsIInv, ExecutorFenced
    <3> QED
      BY <2>7, <2>9, <2>10, <3>1
  <2>13. ReviewedCurrent'
    <3> SUFFICES ASSUME NEW q \in Proc, at'[q] = "reviewed"
                 PROVE  /\ q # p
                        /\ \/ row'[job[q]].status = "READY"
                           \/ row'[job[q]].status = "STALE" /\ row'[job[q]].age = "late"
      BY <2>1, <2>2, <2>6, <2>15, SMTT(30) DEF OpsIInv, ReviewedCurrent
    <3>1. q # p /\ job[q][2] = "PLAN" /\ row[job[q]].status \in {"READY", "STALE"}
      BY <2>1, <2>2, SMTT(30) DEF OpsIInv, ReviewedCurrent, GateHeld
    <3> QED
      BY <2>1, <2>7, <2>9, <2>10, <3>1, SMTT(30) DEF OpsIInv, ReviewedCurrent, ExpiredStatus
  <2>14. ClosedQuiet'
    BY <2>1, <2>2, <2>8, <2>15, SMTT(30) DEF OpsIInv, ClosedQuiet, Slot
  <2> QED
    BY <2>3, <2>4, <2>11, <2>12, <2>13, <2>14 DEF OpsIInv
<1>7. ASSUME NEW p \in Proc, Start(p) PROVE OpsIInv'
  <2>1. CASE StartRefused(p)
    BY <1>7, <2>1, HomeStep DEF Start, StartRefused, opLocks
  <2>2. CASE StartCreated(p)
    <3> USE <1>7, <2>2 DEF OpsTypeOK, Start, StartCreated, Goto, SourceGateFree, Admitted, opLocks, Running, Current, SrcOf
    <3>1. \A q \in Proc \ {p} : at'[q] = at[q] /\ ours'[q] = ours[q]
      OBVIOUS
    <3>2. at'[p] = "spawned"
      OBVIOUS
    <3>3. LockHeld' /\ GateHeld'
      BY <3>1, <3>2, SMTT(30) DEF OpsIInv, LockHeld, GateHeld
    <3>4. RowShape'
      <4>1. lastOp \in Nat /\ lastOp' = lastOp + 1
        BY OpType
      <4>2. \A t \in Slot : row[t].op \in Nat /\ row[t].op <= lastOp
        BY OpType DEF OpsIInv, RowShape, OpRow
      <4>3. row'[job[p]].op = lastOp' /\ row'[job[p]].status = "RUNNING"
        OBVIOUS
      <4>4. \A t \in Slot \ {job[p]} : row'[t] = row[t]
        OBVIOUS
      <4> QED
        BY <4>1, <4>2, <4>3, <4>4, SMTT(30) DEF OpsIInv, RowShape
    <3>5. ExecutorFenced'
      BY <3>1, <3>2, SMTT(30) DEF OpsIInv, ExecutorFenced
    <3>6. ReviewedCurrent'
      <4>1. \A q \in Proc : at'[q] = "reviewed" => job[q] # job[p]
        BY <3>1, <3>2, SlotParts, SMTT(30) DEF OpsIInv, GateHeld
      <4> QED
        BY <3>1, <3>2, <4>1, SMTT(30) DEF OpsIInv, ReviewedCurrent
    <3>7. ClosedQuiet'
      BY <3>1, <3>2, <3>5, SlotParts, SMTT(30) DEF OpsIInv, ClosedQuiet, ExecutorFenced, Slot
    <3> QED
      BY <3>3, <3>4, <3>5, <3>6, <3>7 DEF OpsIInv
  <2> QED
    BY <1>7, <2>1, <2>2 DEF Start
<1>8. ASSUME NEW p \in Proc, TryLock(p) PROVE OpsIInv'
  <2>1. CASE executor[job[p]] # None
    BY <1>8, <2>1, HomeStep DEF TryLock, store
  <2>2. CASE executor[job[p]] = None
    <3> USE <1>8, <2>2 DEF OpsTypeOK, TryLock, Goto, store, Running, Current, SrcOf
    <3>1. \A q \in Proc \ {p} : at'[q] = at[q]
      OBVIOUS
    <3>2. at'[p] = "locked" /\ executor'[job[p]] = p
      BY SMTT(30)
    <3>3. LockHeld'
      <4>1. \A q \in Proc : \A j \in todo[q] : j.slot \in Slot
        BY SMTT(30) DEF Todo
      <4>2. \A j \in todo[p] : j.act # "fail"
        BY DEF OpsIInv, LockHeld
      <4> QED
        BY <3>1, <3>2, <4>1, <4>2, SMTT(30) DEF OpsIInv, LockHeld
    <3>4. GateHeld' /\ RowShape'
      BY <3>1, <3>2, SMTT(30) DEF OpsIInv, GateHeld, RowShape
    <3>5. ExecutorFenced'
      BY <3>1, <3>2, <3>3, SMTT(30) DEF OpsIInv, ExecutorFenced, LockHeld
    <3>6. ReviewedCurrent' /\ ClosedQuiet'
      BY <3>1, <3>2, SMTT(30) DEF OpsIInv, ReviewedCurrent, ClosedQuiet
    <3> QED
      BY <3>3, <3>4, <3>5, <3>6 DEF OpsIInv
  <2> QED
    BY <2>1, <2>2
<1>9. ASSUME NEW p \in Proc, Check(p) PROVE OpsIInv'
  <2> USE <1>9 DEF OpsTypeOK, Check, Goto, store, opLocks, Running, Current, SrcOf
  <2>1. \A q \in Proc \ {p} : at'[q] = at[q]
    OBVIOUS
  <2>2. at'[p] \in {"running", "unlock"} /\ \A j \in todo[p] : j.act # "fail"
    BY SMTT(30) DEF OpsIInv, LockHeld
  <2>3. LockHeld' /\ GateHeld' /\ RowShape'
    BY <2>1, <2>2, SMTT(30) DEF OpsIInv, LockHeld, GateHeld, RowShape
  <2>4. ExecutorFenced'
    BY <2>1, <2>2, <2>3, SMTT(30) DEF OpsIInv, ExecutorFenced, LockHeld
  <2>5. ReviewedCurrent'
    BY <2>1, <2>2, SMTT(30) DEF OpsIInv, ReviewedCurrent
  <2>6. ClosedQuiet'
    <3> SUFFICES ASSUME NEW q \in OpSource, admit[q] = "closed", NEW r \in Proc, at'[r] = "running"
                 PROVE  job[r][1] # q
      BY DEF OpsIInv, ClosedQuiet
    <3>1. \A k \in Kind : row[<<q, k>>].status # "RUNNING"
      BY DEF OpsIInv, ClosedQuiet
    <3>2. row[job[r]].status = "RUNNING"
      BY <2>4 DEF ExecutorFenced
    <3> QED
      BY <3>1, <3>2, SlotParts, SMTT(30)
  <2> QED
    BY <2>3, <2>4, <2>5, <2>6 DEF OpsIInv
<1>10. ASSUME NEW p \in Proc, Complete(p) PROVE OpsIInv'
  <2> USE <1>10 DEF OpsTypeOK, Complete, Goto, opLocks, Running, Current, SrcOf
  <2>1. \A q \in Proc \ {p} : at'[q] = at[q]
    OBVIOUS
  <2>2. /\ at'[p] = "unlock"
        /\ executor[job[p]] = p
        /\ row[job[p]].op = ours[p] /\ row[job[p]].status = "RUNNING"
    BY SMTT(30) DEF OpsIInv, ExecutorFenced
  <2>3. LockHeld' /\ GateHeld'
    BY <2>1, <2>2, SMTT(30) DEF OpsIInv, LockHeld, GateHeld
  <2>4. /\ \A t \in Slot \ {job[p]} : row'[t] = row[t]
        /\ row'[job[p]].op = ours[p]
        /\ row'[job[p]].status \in {"READY", "SUCCEEDED", "FAILED"}
    <3>1. PICK c \in Completion(job[p]) :
             row' = [row EXCEPT ![job[p]] = [op |-> ours[p], status |-> c.status, result |-> c.result, age |-> "fresh"]]
      BY <2>2
    <3>2. c.status \in {"READY", "SUCCEEDED", "FAILED"}
      BY SMTT(30) DEF Completion
    <3>3. row = [t \in Slot |-> row[t]] /\ job[p] \in Slot
      OBVIOUS
    <3>4. PICK v : v = [op |-> ours[p], status |-> c.status, result |-> c.result, age |-> "fresh"]
      OBVIOUS
    <3>5. v.op = ours[p] /\ v.status = c.status
      BY <3>4
    <3>6. row'[job[p]] = v /\ \A t \in Slot \ {job[p]} : row'[t] = row[t]
      BY <3>1, <3>3, <3>4, OneRow
    <3> QED
      BY <3>2, <3>5, <3>6
  <2>5. RowShape'
    BY <2>2, <2>4, SMTT(30) DEF OpsIInv, RowShape
  <2>6. ExecutorFenced'
    BY <2>1, <2>2, <2>4, SMTT(30) DEF OpsIInv, ExecutorFenced
  <2>7. ReviewedCurrent'
    BY <2>1, <2>2, <2>4, SMTT(30) DEF OpsIInv, ReviewedCurrent
  <2>8. ClosedQuiet'
    BY <2>1, <2>2, <2>4, SMTT(30) DEF OpsIInv, ClosedQuiet, Slot
  <2> QED
    BY <2>3, <2>5, <2>6, <2>7, <2>8 DEF OpsIInv
<1>11. ASSUME NEW p \in Proc, Unlock(p) \/ ReviewEnd(p) \/ Lose(p) PROVE OpsIInv'
  BY <1>11, HomeStep DEF Unlock, ReviewEnd, Lose, Return, Goto, store
<1>12. ASSUME NEW p \in Proc, CurrentPlan(p) PROVE OpsIInv'
  <2>1. CASE at'[p] = "reviewed"
    <3> USE <1>12, <2>1 DEF OpsTypeOK, CurrentPlan, Goto, Return, store, Running, Current, SrcOf
    <3>1. \A q \in Proc \ {p} : at'[q] = at[q]
      BY SMTT(30)
    <3>2. UNCHANGED <<gate, job, ours, todo>>
      OBVIOUS
    <3>3. LockHeld' /\ GateHeld' /\ RowShape' /\ ExecutorFenced'
      BY <3>1, <3>2, SMTT(30) DEF OpsIInv, LockHeld, GateHeld, RowShape, ExecutorFenced
    <3>4. admit[job[p][1]] # "closed"
      BY DEF OpsIInv, GateHeld
    <3>5. ReviewedCurrent'
      BY <3>1, <3>2, <3>4, SMTT(30) DEF OpsIInv, ReviewedCurrent
    <3>6. ClosedQuiet'
      BY <3>1, <3>2, SMTT(30) DEF OpsIInv, ClosedQuiet
    <3> QED
      BY <3>3, <3>5, <3>6 DEF OpsIInv
  <2>2. CASE at'[p] # "reviewed"
    BY <1>12, <2>2, HomeStep DEF CurrentPlan, Goto, OpsTypeOK
  <2> QED
    BY <2>1, <2>2
<1>13. ASSUME NEW s \in OpSource, Control(s) PROVE OpsIInv'
  <2>1. ASSUME NEW o \in 1..lastOp, InvalidatePlan(s, o) PROVE OpsIInv'
    BY <2>1, PlanSlot, TableStep, SMTT(30) DEF InvalidatePlan, Withdrawn, OpsTypeOK, opLocks, local, SourceGateFree
  <2>2. CASE Enqueue(s)
    <3> USE <2>2 DEF OpsTypeOK, Enqueue, opLocks, local, Running, Current, SrcOf
    <3>1. \A q \in OpSource : admit'[q] = "closed" => admit[q] = "closed"
      OBVIOUS
    <3>2. \A q \in Proc : job[q][1] \in OpSource
      BY SlotParts
    <3>3. LockHeld' /\ GateHeld' /\ RowShape' /\ ExecutorFenced'
      BY <3>1, <3>2, SMTT(30) DEF OpsIInv, LockHeld, GateHeld, RowShape, ExecutorFenced
    <3> QED
      BY <3>1, <3>2, <3>3, SMTT(30) DEF OpsIInv, ReviewedCurrent, ClosedQuiet
  <2>3. CASE RemoveSource(s)
    <3> USE <2>3 DEF OpsTypeOK, RemoveSource, opLocks, local, Running, Current, SrcOf, SourceGateFree
    <3>1. \A q \in OpSource \ {s} : admit'[q] = admit[q]
      OBVIOUS
    <3>2. \A q \in Proc : /\ job[q] \in Slot /\ job[q][1] \in OpSource /\ job[q][2] \in Kind
                          /\ job[q] = <<job[q][1], job[q][2]>>
      BY SlotParts
    <3>3. LockHeld' /\ RowShape' /\ ExecutorFenced'
      BY SMTT(30) DEF OpsIInv, LockHeld, RowShape, ExecutorFenced
    <3>4. \A q \in Proc : at[q] \in {"gated", "reviewed"} => job[q][1] # s
      BY SMTT(30) DEF OpsIInv, GateHeld
    <3>5. GateHeld' /\ ReviewedCurrent'
      BY <3>1, <3>2, <3>4, SMTT(30) DEF OpsIInv, GateHeld, ReviewedCurrent
    <3>6. \A q \in Proc : at[q] = "running" => job[q][1] # s
      <4>1. \A k \in Kind : row[<<s, k>>].status # "RUNNING"
        OBVIOUS
      <4>2. \A q \in Proc : at[q] = "running" => row[job[q]].status = "RUNNING"
        BY DEF OpsIInv, ExecutorFenced
      <4> SUFFICES ASSUME NEW q \in Proc, at[q] = "running", job[q][1] = s PROVE FALSE
        OBVIOUS
      <4>3. job[q] = <<s, job[q][2]>> /\ job[q][2] \in Kind
        BY <3>2
      <4>4. row[<<s, job[q][2]>>].status = "RUNNING"
        BY <4>2, <4>3
      <4> QED
        BY <4>1, <4>3, <4>4
    <3>7. ClosedQuiet'
      BY <3>1, <3>6, SMTT(30) DEF OpsIInv, ClosedQuiet
    <3> QED
      BY <3>3, <3>5, <3>7 DEF OpsIInv
  <2>4. CASE Recover(s)
    <3>1. <<s, "PLAN">> \in Slot /\ <<s, "PLAN">>[1] = s
      BY PlanSlot
    <3>2. /\ UNCHANGED <<opLocks, local, lastOp>>
          /\ SourceGateFree(s)
          /\ \A q \in OpSource : admit'[q] = "closed" => admit[q] = "closed"
      BY <2>4 DEF Recover, OpsTypeOK
    <3>3. CASE row[<<s, "PLAN">>].status = "READY"
      <4>1. row' = Withdrawn(<<s, "PLAN">>)
        BY <2>4, <3>3 DEF Recover
      <4>2. /\ \A t \in Slot \ {<<s, "PLAN">>} : row'[t] = row[t]
            /\ row'[<<s, "PLAN">>].op = row[<<s, "PLAN">>].op
            /\ row'[<<s, "PLAN">>].status = "STALE"
        BY <3>1, <4>1, SMTT(30) DEF Withdrawn, OpsTypeOK
      <4> QED
        BY <3>1, <3>2, <3>3, <4>2, TableStep
    <3>4. CASE row[<<s, "PLAN">>].status # "READY"
      <4> USE DEF Running, Current, SrcOf
      <4>1. UNCHANGED row
        BY <2>4, <3>4 DEF Recover
      <4>2. LockHeld' /\ RowShape' /\ ExecutorFenced'
        BY <3>2, <4>1, SMTT(30) DEF OpsIInv, LockHeld, RowShape, ExecutorFenced, opLocks, local
      <4>3. \A q \in Proc : job[q][1] \in OpSource
        BY SlotParts DEF OpsTypeOK
      <4>4. GateHeld'
        BY <3>2, <4>3 DEF OpsIInv, GateHeld, opLocks, local
      <4>5. ReviewedCurrent'
        BY <3>2, <4>1, <4>3 DEF OpsIInv, ReviewedCurrent, opLocks, local
      <4>6. ClosedQuiet'
        BY <3>2, <4>1 DEF OpsIInv, ClosedQuiet, opLocks, local
      <4> QED
        BY <4>2, <4>4, <4>5, <4>6 DEF OpsIInv
    <3> QED
      BY <3>3, <3>4
  <2> QED
    BY <1>13, <2>1, <2>2, <2>3, <2>4 DEF Control
<1>14. ASSUME NEW s \in Slot, Elapse(s) PROVE OpsIInv'
  BY <1>14, TableStep, SMTT(30) DEF Elapse, OpsTypeOK, OpsIInv, RowShape, opLocks, local
<1>15. CASE UNCHANGED opsVars
  BY <1>15, SMTT(30) DEF opsVars, OpsIInv, LockHeld, GateHeld, RowShape, ExecutorFenced, ReviewedCurrent, ClosedQuiet,
       Running, Current, SrcOf
<1> QED
  BY <1>1, <1>2, <1>3, <1>4, <1>5, <1>6, <1>7, <1>8, <1>9, <1>10, <1>11, <1>12, <1>13, <1>14, <1>15
     DEF OpsNext, ApiRequest, Progress

\* Ownership of the executor lock and of the source gate, and everything that
\* follows from it, holds in every reachable state.
THEOREM Invariant == OpsSpec => []OpsIInv
<1>1. OpsInit => OpsIInv
  BY OpsAssumption, SMTT(30) DEF OpsInit, OpsIInv, LockHeld, GateHeld, RowShape, ExecutorFenced, ReviewedCurrent,
     ClosedQuiet, Running, Slot
<1>2. OpsTypeOK /\ OpsTypeOK' /\ OpsIInv /\ [OpsNext]_opsVars => OpsIInv'
  BY Preserved
<1> QED
  BY <1>1, <1>2, TypeCorrect, PTL DEF OpsSpec

\* execute(): no completion is ever discarded, because nobody takes a slot from the
\* executor that passed its check.
THEOREM Fenced == OpsSpec => []ExecutorFenced
<1>1. OpsIInv => ExecutorFenced
  BY DEF OpsIInv
<1> QED
  BY <1>1, Invariant, PTL

\* review_guard(): a plan under review is replaced by nobody.
THEOREM Reviewed == OpsSpec => []ReviewedCurrent
<1>1. OpsIInv => ReviewedCurrent
  BY DEF OpsIInv
<1> QED
  BY <1>1, Invariant, PTL

\* _remove_locked(): a removed source has no operation in flight.
THEOREM RemovedQuiet == OpsSpec => []ClosedQuiet
<1>1. OpsIInv => ClosedQuiet
  BY DEF OpsIInv
<1> QED
  BY <1>1, Invariant, PTL

\* Steps that end some operations, or none, are steps of OperationSlot.
LEMMA EndStep == ASSUME \A s \in Slot : row'[s].op = row[s].op,
                        \A s \in Slot : \/ SlotPhase(s)' = SlotPhase(s)
                                        \/ /\ SlotPhase(s) \in {"running", "published"}
                                           /\ SlotPhase(s)' = "ended"
                 PROVE  [Abstract!Next]_(Abstract!vars)
<1> DEFINE S == {s \in Slot : SlotPhase(s)' # SlotPhase(s)}
<1>1. Abstract!End(S)
  BY DEF Abstract!End
<1> QED
  BY <1>1 DEF Abstract!Next

\* A step that leaves every operation_id and status alone is invisible.
LEMMA SameStatus == ASSUME \A s \in Slot : row'[s].op = row[s].op /\ row'[s].status = row[s].status
                    PROVE  [Abstract!Next]_(Abstract!vars)
<1>1. \A s \in Slot : SlotPhase(s)' = SlotPhase(s)
  BY DEF SlotPhase, Running
<1> QED
  BY <1>1, EndStep

\* Withdrawing a READY plan ends it.
LEMMA WithdrawStep == ASSUME OpsTypeOK, NEW s \in Slot, row[s].status = "READY", row' = Withdrawn(s)
                      PROVE  [Abstract!Next]_(Abstract!vars)
<1>1. \A t \in Slot \ {s} : row'[t] = row[t]
  BY DEF Withdrawn, OpsTypeOK
<1>2. row'[s].op = row[s].op /\ row'[s].status = "STALE"
  BY SMTT(30) DEF Withdrawn, OpsTypeOK
<1>3. SlotPhase(s) = "published" /\ SlotPhase(s)' = "ended"
  BY <1>2 DEF SlotPhase, Running
<1>4. \A t \in Slot \ {s} : SlotPhase(t)' = SlotPhase(t)
  BY <1>1 DEF SlotPhase, Running
<1> QED
  BY <1>1, <1>2, <1>3, <1>4, EndStep

\* Every step of the operations is a step of OperationSlot or invisible in it.
LEMMA SlotStep == ASSUME OpsTypeOK, OpsIInv, [OpsNext]_opsVars PROVE [Abstract!Next]_(Abstract!vars)
<1>1. ASSUME NEW p \in Proc, LatestCommit(p) PROVE [Abstract!Next]_(Abstract!vars)
  <2>1. \A t \in Slot : row'[t] = AfterLookup(p, t)
    BY <1>1 DEF LatestCommit
  <2>2. \A t \in Slot : row'[t].op = row[t].op
    BY <2>1, LookupEffect
  <2>3. ASSUME NEW t \in Slot
        PROVE  \/ SlotPhase(t)' = SlotPhase(t)
               \/ SlotPhase(t) \in {"running", "published"} /\ SlotPhase(t)' = "ended"
    <3>1. CASE row'[t] = row[t]
      BY <3>1 DEF SlotPhase, Running
    <3>2. CASE Interrupts(p, t) /\ row'[t].status = "FAILED"
      BY <3>2 DEF Interrupts, SlotPhase, Running
    <3>3. CASE Expires(p, t) /\ row'[t].status = ExpiredStatus(t)
      <4>1. row[t].status # "NONE" /\ row[t].status # "RUNNING"
        BY <3>3 DEF Expires, OpsIInv, RowShape, Running
      <4>2. SlotPhase(t)' = "ended" /\ SlotPhase(t) \in {"published", "ended"}
        BY <3>3, <4>1 DEF ExpiredStatus, SlotPhase, Running
      <4> QED
        BY <4>2
    <3> QED
      BY <2>1, <3>1, <3>2, <3>3, LookupEffect
  <2> QED
    BY <2>2, <2>3, EndStep
<1>2. ASSUME NEW p \in Proc, StartCreated(p) PROVE [Abstract!Next]_(Abstract!vars)
  <2> PICK s \in Slot : s = job[p]
    BY DEF OpsTypeOK
  <2>1. ~Running(s)
    BY <1>2 DEF StartCreated
  <2>2. row'[s].op = lastOp + 1 /\ row'[s].status = "RUNNING"
    BY <1>2 DEF StartCreated, OpsTypeOK
  <2>3. \A t \in Slot \ {s} : row'[t] = row[t]
    BY <1>2 DEF StartCreated, OpsTypeOK
  <2>4. lastOp + 1 > row[s].op
    BY OpType, SMTT(30) DEF OpsTypeOK, OpRow, OpsIInv, RowShape
  <2>5. SlotPhase(s)' = "running" /\ SlotPhase(s) # "running"
    BY <2>1, <2>2 DEF SlotPhase, Running
  <2>6. \A t \in Slot \ {s} : SlotPhase(t)' = SlotPhase(t)
    BY <2>3 DEF SlotPhase, Running
  <2>7. Abstract!Begin(s)
    BY <2>2, <2>3, <2>4, <2>5, <2>6 DEF Abstract!Begin
  <2> QED
    BY <2>7 DEF Abstract!Next
<1>3. ASSUME NEW p \in Proc, Complete(p) PROVE [Abstract!Next]_(Abstract!vars)
  <2> PICK s \in Slot : s = job[p]
    BY DEF OpsTypeOK
  <2>1. row[s].op = ours[p] /\ row[s].status = "RUNNING"
    BY <1>3 DEF Complete, OpsIInv, ExecutorFenced, Running, Current
  <2>2. /\ row'[s].op = ours[p]
        /\ row'[s].status \in {"READY", "SUCCEEDED", "FAILED"}
        /\ \A t \in Slot \ {s} : row'[t] = row[t]
    BY <1>3, <2>1, SMTT(30) DEF Complete, OpsTypeOK, Completion, Running, Current
  <2>3. SlotPhase(s) = "running" /\ SlotPhase(s)' \in {"published", "ended"}
    BY <2>1, <2>2 DEF SlotPhase, Running
  <2>4. \A t \in Slot \ {s} : SlotPhase(t)' = SlotPhase(t)
    BY <2>2 DEF SlotPhase, Running
  <2>5. CASE SlotPhase(s)' = "published"
    <3>1. Abstract!Publish(s)
      BY <2>1, <2>2, <2>3, <2>4, <2>5 DEF Abstract!Publish
    <3> QED
      BY <3>1 DEF Abstract!Next
  <2>6. CASE SlotPhase(s)' = "ended"
    BY <2>1, <2>2, <2>3, <2>4, <2>6, EndStep
  <2> QED
    BY <2>3, <2>5, <2>6
<1>4. ASSUME NEW s \in OpSource, Control(s) PROVE [Abstract!Next]_(Abstract!vars)
  BY <1>4, PlanSlot, WithdrawStep, SameStatus DEF Control, InvalidatePlan, Enqueue, RemoveSource, Recover
<1>5. ASSUME NEW s \in Slot, Elapse(s) PROVE [Abstract!Next]_(Abstract!vars)
  BY <1>5, SameStatus, SMTT(30) DEF Elapse, OpsTypeOK
<1>6. ASSUME UNCHANGED row PROVE [Abstract!Next]_(Abstract!vars)
  BY <1>6, SameStatus
<1>7. ASSUME NEW p \in Proc, ApiRequest(p) \/ Lose(p) PROVE UNCHANGED row
  BY <1>7 DEF ApiRequest, Lose, Operations, StartRequest, ReviewGate, store
<1>8. ASSUME NEW p \in Proc, Progress(p) PROVE LatestCommit(p) \/ StartCreated(p) \/ Complete(p) \/ UNCHANGED row
  BY <1>8 DEF Progress, LatestRead, LatestTryLock, Start, StartRefused, TryLock, Check, Unlock,
     CurrentPlan, ReviewEnd, store
<1>9. CASE UNCHANGED opsVars
  BY <1>9, <1>6 DEF opsVars
<1> QED
  BY <1>1, <1>2, <1>3, <1>4, <1>5, <1>6, <1>7, <1>8, <1>9 DEF OpsNext

\* The table source_operations implements OperationSlot: a generation is replaced
\* only after it ended, never runs again, and its result is published once.
THEOREM Refinement == OpsSpec => SlotContract
<1>1. OpsInit => Abstract!Init
  BY SMTT(30) DEF OpsInit, Abstract!Init, SlotPhase
<1>2. OpsTypeOK /\ OpsIInv /\ [OpsNext]_opsVars => [Abstract!Next]_(Abstract!vars)
  BY SlotStep
<1> QED
  BY <1>1, <1>2, TypeCorrect, Invariant, PTL DEF OpsSpec, SlotContract, Abstract!Spec
=============================================================================
