--------------------------- MODULE SyncRunsProofs ---------------------------
(***************************************************************************)
(* Theorems about SyncRuns, for every set of sources and every bound.      *)
(* First what the history operations do to a row, and that every step      *)
(* keeps the types; then one lemma per group of actions with the same      *)
(* footprint, for the inductive invariant; then the theorems.              *)
(***************************************************************************)
EXTENDS SyncRuns, TLAPS
USE ZenonT(30)

-----------------------------------------------------------------------------
(* Rows and types. *)

\* The initial row is a row.
LEMMA NoRowType == AnySource \in Source /\ NoRow \in Row
<1>1. AnySource \in Source
  BY RunsAssumption DEF AnySource
<1>2. QED
  BY <1>1, RunsAssumption, SMTT(30) DEF NoRow, Row, Terminal

\* The fields of a row.
LEMMA RowFields ==
  ASSUME NEW x \in Row
  PROVE  /\ x.source \in Source
         /\ x.trigger \in {"manual", "scheduled"}
         /\ x.status \in Terminal \cup {"NONE", "RUNNING"}
         /\ x.plan \in 0..MaxPlans
         /\ x.writes \in {"none", "dispatched", "begun"}
BY DEF Row

\* start_run() adds one RUNNING row and changes no other.
LEMMA StartEffect ==
  ASSUME TypeOK, NEW s \in Source, NEW k \in {"manual", "scheduled"}, StartRun(s, k)
  PROVE  /\ started' = started + 1
         /\ started' \in Run
         /\ runs' \in [Run -> Row]
         /\ \A q \in Run : q # started' => runs'[q] = runs[q]
         /\ runs'[started'].source = s
         /\ runs'[started'].trigger = k
         /\ runs'[started'].status = "RUNNING"
         /\ runs'[started'].plan = 0
         /\ runs'[started'].writes = "none"
         /\ baseline' = baseline
         /\ Registered(s)
<1> DEFINE x == [source |-> s, trigger |-> k, status |-> "RUNNING", plan |-> 0, writes |-> "none"]
<1>1. x \in Row
  BY RunsAssumption, SMTT(30) DEF Row
<1>2. started \in 0..MaxRuns /\ started < MaxRuns /\ MaxRuns \in Nat
  BY RunsAssumption DEF TypeOK, StartRun
<1>3. started + 1 \in Run
  BY <1>2, SMTT(30) DEF Run
<1>4. started' = started + 1 /\ runs' = [runs EXCEPT ![started + 1] = x] /\ baseline' = baseline /\ Registered(s)
  BY DEF StartRun
<1>5. runs \in [Run -> Row]
  BY DEF TypeOK
<1> HIDE DEF x
<1>6. runs' \in [Run -> Row] /\ runs'[started'] = x /\ \A q \in Run : q # started' => runs'[q] = runs[q]
  BY <1>1, <1>3, <1>4, <1>5
<1>7. x.source = s /\ x.trigger = k /\ x.status = "RUNNING" /\ x.plan = 0 /\ x.writes = "none"
  BY DEF x
<1>8. QED
  BY <1>3, <1>4, <1>6, <1>7

\* finish_run() of a RUNNING row sets its status, binds a plan if none is bound, and
\* changes no other row.
LEMMA FinishEffect ==
  ASSUME TypeOK, NEW r \in Run, NEW o \in Terminal, NEW g \in 0..MaxPlans,
         runs[r].status = "RUNNING", FinishRun(r, o, g)
  PROVE  /\ runs' \in [Run -> Row]
         /\ \A q \in Run : q # r => runs'[q] = runs[q]
         /\ runs'[r].source = runs[r].source
         /\ runs'[r].trigger = runs[r].trigger
         /\ runs'[r].status = o
         /\ runs[r].plan # 0 => runs'[r].plan = runs[r].plan
         /\ runs'[r].writes = runs[r].writes
         /\ started' = started
         /\ baseline' = baseline
<1> DEFINE p == IF runs[r].plan = 0 THEN g ELSE runs[r].plan
<1>1. runs \in [Run -> Row] /\ runs[r] \in Row
  BY DEF TypeOK
<1>2. p \in 0..MaxPlans /\ (runs[r].plan # 0 => p = runs[r].plan)
  BY <1>1, RowFields
<1> HIDE DEF p
<1> DEFINE x == [runs[r] EXCEPT !.status = o, !.plan = p]
<1>3. runs' = [runs EXCEPT ![r] = x]
  BY Zenon, <1>1 DEF FinishRun, p
<1>4. /\ x \in Row
      /\ x.source = runs[r].source /\ x.trigger = runs[r].trigger /\ x.writes = runs[r].writes
      /\ x.status = o /\ x.plan = p
  BY Zenon, <1>1, <1>2 DEF Row
<1>5. started' = started /\ baseline' = baseline
  BY DEF FinishRun
<1> HIDE DEF x
<1>6. QED
  BY <1>1, <1>2, <1>3, <1>4, <1>5

\* bind_plan() and the dispatch of the child.
LEMMA DispatchEffect ==
  ASSUME TypeOK, run \in Run, Dispatch
  PROVE  /\ runs' \in [Run -> Row]
         /\ \A q \in Run : q # run => runs'[q] = runs[q]
         /\ runs'[run].source = runs[run].source
         /\ runs'[run].trigger = runs[run].trigger
         /\ runs'[run].status = runs[run].status
         /\ runs'[run].plan = gen
         /\ runs'[run].writes = "dispatched"
<1>1. runs \in [Run -> Row] /\ runs[run] \in Row /\ gen \in 0..MaxPlans
  BY DEF TypeOK
<1> DEFINE x == [runs[run] EXCEPT !.plan = gen, !.writes = "dispatched"]
<1>2. runs' = [runs EXCEPT ![run] = x]
  BY Zenon, <1>1 DEF Dispatch
<1>3. /\ x \in Row
      /\ x.source = runs[run].source /\ x.trigger = runs[run].trigger /\ x.status = runs[run].status
      /\ x.plan = gen /\ x.writes = "dispatched"
  BY Zenon, <1>1 DEF Row
<1> HIDE DEF x
<1>4. QED
  BY <1>1, <1>2, <1>3

\* A writer passes before_write.
LEMMA WritesEffect ==
  ASSUME TypeOK, NEW r \in Run, runs' = [runs EXCEPT ![r].writes = "begun"]
  PROVE  /\ runs' \in [Run -> Row]
         /\ \A q \in Run : q # r => runs'[q] = runs[q]
         /\ runs'[r].source = runs[r].source
         /\ runs'[r].trigger = runs[r].trigger
         /\ runs'[r].status = runs[r].status
         /\ runs'[r].plan = runs[r].plan
         /\ runs'[r].writes = "begun"
<1>1. runs \in [Run -> Row] /\ runs[r] \in Row
  BY DEF TypeOK
<1> DEFINE x == [runs[r] EXCEPT !.writes = "begun"]
<1>2. runs' = [runs EXCEPT ![r] = x]
  BY <1>1
<1>3. /\ x \in Row
      /\ x.source = runs[r].source /\ x.trigger = runs[r].trigger /\ x.status = runs[r].status
      /\ x.plan = runs[r].plan /\ x.writes = "begun"
  BY <1>1 DEF Row
<1> HIDE DEF x
<1>4. QED
  BY <1>1, <1>2, <1>3

\* The history stays well typed.
LEMMA HistoryType ==
  ASSUME TypeOK, IInv, [Next]_vars
  PROVE  runs' \in [Run -> Row] /\ started' \in 0..MaxRuns
<1>0. runs \in [Run -> Row] /\ started \in 0..MaxRuns
  BY DEF TypeOK
<1>1. CASE UNCHANGED <<runs, started>>
  BY <1>0, <1>1
<1>2. ASSUME NEW s \in Source, NEW k \in {"manual", "scheduled"}, StartRun(s, k)
      PROVE  runs' \in [Run -> Row] /\ started' \in 0..MaxRuns
  BY <1>0, <1>2, StartEffect, RunsAssumption, SMTT(30) DEF Run
<1>3. CASE Dispatch
  <2>1. run \in Run
    BY <1>3 DEF Dispatch, IInv, WorkerRow
  <2>2. QED
    BY <1>0, <1>3, <2>1, DispatchEffect DEF Dispatch
<1>4. CASE ChildWrites
  <2>1. writer \in Run
    BY <1>4 DEF ChildWrites, IInv, ChildRow
  <2>2. QED
    BY Zenon, <1>0, <1>4, <2>1, WritesEffect DEF ChildWrites
<1>5. CASE SchedWrites
  <2>1. srun \in Run
    BY <1>5 DEF SchedWrites, IInv, TickRow
  <2>2. QED
    BY Zenon, <1>0, <1>5, <2>1, WritesEffect DEF SchedWrites
<1>6. CASE Finish
  <2>1. run \in Run /\ runs[run].status = "RUNNING"
    BY <1>6 DEF Finish, IInv, WorkerRow
  <2>2. outcome \in Terminal /\ "OUTCOME_UNCERTAIN" \in Terminal /\ gen \in 0..MaxPlans
    BY DEF TypeOK, Terminal
  <2>3. QED
    BY <1>0, <1>1, <1>6, <2>1, <2>2, FinishEffect DEF Finish, history
<1>7. CASE SchedFinish
  <2>1. srun \in Run /\ runs[srun].status = "RUNNING"
    BY <1>7 DEF SchedFinish, IInv, TickRow
  <2>2. sout \in Terminal /\ sgen \in 0..MaxPlans /\ 0 \in 0..MaxPlans
    BY RunsAssumption, SMTT(30) DEF TypeOK
  <2>3. QED
    BY <1>0, <1>1, <1>7, <2>1, <2>2, FinishEffect DEF SchedFinish, history
<1>8. CASE \E s \in Source : \E g \in Plan : Accept(s, g)
  BY <1>2, <1>8 DEF Accept
<1>9. CASE \E s \in Source : SchedStart(s)
  BY <1>1, <1>2, <1>9 DEF SchedStart, history
<1>10. QED
  BY Zenon, <1>1, <1>3, <1>4, <1>5, <1>6, <1>7, <1>8, <1>9
     DEF Next, vars, Request, WorkerStep, TickStep, DeskStep, history, StartPlan, PlanReady, PlanEnds, Prepare,
         Expire, Review, Intent, Remove, EnableSync, Prepared, Confirm, TakeLock, Refuse, ChildReports,
         ChildTimesOut, Release, Restart, Reap, Crash, Tick, Evaluate, SchedCheck, SchedEnds, TickEnds,
         SchedCrash, IntentLock, AcceptBaseline, RefuseBaseline

\* Every step keeps the type invariant.
LEMMA TypeStep ==
  ASSUME TypeOK, IInv, [Next]_vars
  PROVE  TypeOK'
<1>0. runs' \in [Run -> Row] /\ started' \in 0..MaxRuns
  BY HistoryType
<1> USE DEF history, plans, worker, process, locks, tick, decision, faults
<1>1. CASE \E s \in Source : StartPlan(s)
  <2>1. PICK s \in Source : StartPlan(s)
    BY <1>1
  <2>2. made[s] \in 0..MaxPlans /\ made[s] < MaxPlans
    BY <2>1 DEF StartPlan, TypeOK
  <2>3. made[s] + 1 \in 0..MaxPlans
    BY <2>2, RunsAssumption, SMTT(30)
  <2>4. made' \in [Source -> 0..MaxPlans]
    BY <2>1, <2>3 DEF StartPlan, TypeOK
  <2>5. QED
    BY <1>0, <2>1, <2>4, SMTT(30) DEF TypeOK, StartPlan
<1>2. CASE \E s \in Source : PlanReady(s)
  BY <1>0, <1>2, SMTT(30) DEF TypeOK, PlanReady
<1>3. CASE \E s \in Source : PlanEnds(s)
  BY <1>0, <1>3, SMTT(30) DEF TypeOK, PlanEnds
<1>4. CASE \E s \in Source : \E g \in Plan : Prepare(s, g)
  <2>1. gen' \in 0..MaxPlans /\ src' \in Source
    BY <1>4, RunsAssumption, SMTT(30) DEF Prepare, Plan
  <2>2. QED
    BY <1>0, <1>4, <2>1, SMTT(30) DEF TypeOK, Prepare
<1>5. CASE \E s \in Source : \E g \in Plan : Accept(s, g)
  <2>1. gen' \in 0..MaxPlans /\ src' \in Source
    BY <1>5, RunsAssumption, SMTT(30) DEF Accept, Plan
  <2>2. QED
    BY <1>0, <1>5, <2>1, SMTT(30) DEF TypeOK, Accept, StartRun
<1>6. CASE \E s \in Source : \E g \in Plan : Expire(s, g)
  <2>1. PICK s \in Source, g \in Plan : Expire(s, g)
    BY <1>6
  <2>2. tokens[s] \in [Plan -> 0..MaxTokens] /\ tokens[s][g] - 1 \in 0..MaxTokens
    BY <2>1, RunsAssumption, SMTT(30) DEF Expire, TypeOK
  <2>3. tokens' \in [Source -> [Plan -> 0..MaxTokens]]
    BY <2>1, <2>2 DEF Expire, TypeOK
  <2>4. QED
    BY <1>0, <2>1, <2>3, SMTT(30) DEF TypeOK, Expire
<1>7. CASE \E s \in Source : Review(s)
  BY <1>0, <1>7, SMTT(30) DEF TypeOK, Review, Blocking
<1>8. CASE \E s \in Source : Intent(s)
  BY <1>0, <1>8, SMTT(30) DEF TypeOK, Intent
<1>9. CASE \E s \in Source : Remove(s)
  BY <1>0, <1>9, SMTT(30) DEF TypeOK, Remove
<1>10. CASE \E s \in Source : EnableSync(s)
  BY <1>0, <1>10, SMTT(30) DEF TypeOK, EnableSync
<1>11. CASE Prepared
  <2>1. CASE UNCHANGED tokens
    BY <1>0, <1>11, <2>1, NoRowType, RunsAssumption, SMTT(30) DEF TypeOK, Prepared, Answered, Terminal
  <2>2. CASE tokens[src][gen] < MaxTokens /\ tokens' = [tokens EXCEPT ![src][gen] = @ + 1]
    <3>1. tokens' \in [Source -> [Plan -> 0..MaxTokens]]
      <4>1. tokens[src] \in [Plan -> 0..MaxTokens]
        BY DEF TypeOK
      <4>2. CASE gen \in Plan
        <5>1. tokens[src][gen] + 1 \in 0..MaxTokens
          BY <2>2, <4>1, <4>2, RunsAssumption, SMTT(30)
        <5>2. QED
          BY Zenon, <2>2, <4>1, <5>1 DEF TypeOK
      <4>3. CASE gen \notin Plan
        <5>1. [tokens[src] EXCEPT ![gen] = @ + 1] = tokens[src]
          BY <4>1, <4>3
        <5>2. QED
          BY Zenon, <2>2, <4>1, <5>1 DEF TypeOK
      <4>4. QED
        BY <4>2, <4>3
    <3>2. QED
      BY <1>0, <1>11, <3>1, NoRowType, RunsAssumption, SMTT(30) DEF TypeOK, Prepared, Answered, Terminal
  <2>3. QED
    BY <1>11, <2>1, <2>2 DEF Prepared
<1>12. CASE Confirm
  BY <1>0, <1>12, NoRowType, RunsAssumption, SMTT(30) DEF TypeOK, Confirm, Terminal
<1>13. CASE TakeLock
  BY <1>0, <1>13, SMTT(30) DEF TypeOK, TakeLock, Terminal
<1>14. CASE Dispatch
  BY <1>0, <1>14, NoRowType, RunsAssumption DEF TypeOK, Dispatch
<1>15. CASE Refuse
  BY <1>0, <1>15, SMTT(30) DEF TypeOK, Refuse, Terminal
<1>16. CASE ChildReports
  BY <1>0, <1>16, NoRowType, RunsAssumption, SMTT(30) DEF TypeOK, ChildReports, Reported, Terminal
<1>17. CASE ChildTimesOut
  BY <1>0, <1>17, NoRowType, RunsAssumption, SMTT(30) DEF TypeOK, ChildTimesOut, Terminal
<1>18. CASE Release
  BY <1>0, <1>18 DEF TypeOK, Release
<1>19. CASE Finish
  BY <1>0, <1>19, NoRowType, RunsAssumption, SMTT(30) DEF TypeOK, Finish, Answered, FinishRun, Terminal
<1>20. CASE Restart
  BY <1>0, <1>20, NoRowType, RunsAssumption, SMTT(30) DEF TypeOK, Restart
<1>21. CASE ChildWrites
  BY <1>0, <1>21, SMTT(30) DEF TypeOK, ChildWrites
<1>22. CASE Reap
  BY <1>0, <1>22, NoRowType, RunsAssumption, SMTT(30) DEF TypeOK, Reap
<1>23. CASE Crash
  BY <1>0, <1>23, NoRowType, RunsAssumption, SMTT(30) DEF TypeOK, Crash, Terminal
<1>24. CASE Tick
  BY <1>0, <1>24 DEF TypeOK, Tick
<1>25. CASE Evaluate
  BY <1>0, <1>25, SMTT(30) DEF TypeOK, Evaluate
<1>26. CASE SchedCheck
  BY <1>0, <1>26, NoRowType, RunsAssumption, SMTT(30) DEF TypeOK, SchedCheck, Terminal
<1>27. CASE SchedEnds
  BY <1>0, <1>27, SMTT(30) DEF TypeOK, SchedEnds, Terminal
<1>28. CASE SchedFinish
  BY <1>0, <1>28, NoRowType, RunsAssumption, SMTT(30) DEF TypeOK, SchedFinish, FinishRun, Terminal
<1>29. CASE TickEnds
  BY <1>0, <1>29 DEF TypeOK, TickEnds
<1>30. CASE \E s \in Source : SchedStart(s)
  BY <1>0, <1>30, NoRowType, RunsAssumption, SMTT(30) DEF TypeOK, SchedStart, StartRun
<1>31. CASE SchedWrites
  BY <1>0, <1>31, SMTT(30) DEF TypeOK, SchedWrites
<1>32. CASE SchedCrash
  BY <1>0, <1>32, NoRowType, RunsAssumption, SMTT(30) DEF TypeOK, SchedCrash, Terminal
<1>33. CASE IntentLock
  BY <1>0, <1>33, SMTT(30) DEF TypeOK, IntentLock
<1>34. CASE AcceptBaseline
  <2>1. started + 1 \in 0..MaxRuns + 1
    BY RunsAssumption, SMTT(30) DEF TypeOK
  <2>2. baseline' \in [Run -> 0..MaxRuns + 1]
    BY <1>34, <2>1 DEF TypeOK, AcceptBaseline
  <2>3. QED
    BY <1>0, <1>34, <2>2, SMTT(30) DEF TypeOK, AcceptBaseline
<1>35. CASE RefuseBaseline
  BY <1>0, <1>35, SMTT(30) DEF TypeOK, RefuseBaseline
<1>36. CASE UNCHANGED vars
  BY <1>0, <1>36, SMTT(30) DEF TypeOK, vars
<1>37. QED
  BY <1>1, <1>2, <1>3, <1>4, <1>5, <1>6, <1>7, <1>8, <1>9, <1>10, <1>11, <1>12, <1>13, <1>14, <1>15, <1>16, <1>17, <1>18, <1>19, <1>20, <1>21, <1>22, <1>23, <1>24, <1>25, <1>26, <1>27, <1>28, <1>29, <1>30, <1>31, <1>32, <1>33, <1>34, <1>35, <1>36 DEF Next, Request, WorkerStep, TickStep, DeskStep

-----------------------------------------------------------------------------
(* The inductive invariant: the steps that change no row of the history,   *)
(* or add one; then those that change a row, a baseline or the registry.   *)

\* Init establishes the type invariant and the inductive invariant.
LEMMA Initial == Init => TypeOK /\ IInv
<1> SUFFICES ASSUME Init PROVE TypeOK /\ IInv
  OBVIOUS
<1> USE NoRowType, RunsAssumption
<1>1. runs \in [Run -> Row] /\ \A r \in Run : runs[r] = NoRow
  BY DEF Init
<1>2. TypeOK
  BY <1>1, SMTT(30) DEF Init, TypeOK, Terminal, Run, Plan
<1>3. \A r \in Run : runs[r].status = "NONE" /\ runs[r].writes = "none" /\ baseline[r] = 0
  BY <1>1 DEF Init, NoRow
<1>4. LockOwners
  BY DEF Init, LockOwners
<1>5. UnusedRows
  BY <1>3, SMTT(30) DEF Init, UnusedRows, Run
<1>6. WorkerRow /\ TickRow /\ ChildRow
  BY DEF Init, WorkerRow, TickRow, ChildRow
<1>7. HonestOutcome /\ PlanOnce
  BY <1>3 DEF HonestOutcome, PlanOnce, NoWrites
<1>8. RemovedSettled
  BY DEF Init, RemovedSettled, Registered
<1>9. QED
  BY <1>2, <1>4, <1>5, <1>6, <1>7, <1>8 DEF IInv
\* Steps that leave the history and the child alone keep what is said of the rows.
LEMMA QuietRows ==
  ASSUME IInv, UNCHANGED <<history, process>>
  PROVE  UnusedRows' /\ ChildRow' /\ HonestOutcome' /\ PlanOnce'
BY DEF IInv, UnusedRows, ChildRow, HonestOutcome, PlanOnce, history, process

\* Steps of a request that only touch the plan slot, tokens or the operator's desk.
LEMMA RequestStep ==
  ASSUME TypeOK, IInv, NEW s \in Source,
         \/ StartPlan(s) \/ PlanReady(s) \/ PlanEnds(s) \/ Review(s) \/ Intent(s) \/ EnableSync(s)
         \/ \E g \in Plan : Expire(s, g)
  PROVE  IInv'
<1>1. UNCHANGED <<history, process, worker, tick, locks>>
  BY DEF StartPlan, PlanReady, PlanEnds, Expire, Review, Intent, EnableSync
<1>2. \A t \in Source : Registered(t) => Registered(t)'
  BY DEF StartPlan, PlanReady, PlanEnds, Expire, Review, Intent, EnableSync, Registered, TypeOK
<1>3. desk = "locked" <=> desk' = "locked"
  BY DEF StartPlan, PlanReady, PlanEnds, Expire, Review, Intent, EnableSync, decision
<1>4. UnusedRows' /\ ChildRow' /\ HonestOutcome' /\ PlanOnce'
  BY <1>1, QuietRows
<1>5. LockOwners' /\ WorkerRow' /\ TickRow'
  BY <1>1, <1>3 DEF IInv, LockOwners, WorkerRow, TickRow, history, process, worker, tick, locks
<1>6. RemovedSettled'
  BY <1>1, <1>2 DEF IInv, RemovedSettled, Active, Blocking, Of, history, process, worker, tick, locks
<1>7. QED
  BY <1>4, <1>5, <1>6 DEF IInv

\* A source stays registered unless Remove takes it out.
LEMMA SettledFrame ==
  ASSUME TypeOK, IInv, UNCHANGED <<history, sync>>,
         child' # "none" => child # "none" /\ writer' = writer,
         step' \in {"started", "cleared", "writing", "finish"} =>
           step \in {"started", "cleared", "writing", "finish"} /\ ssrc' = ssrc
  PROVE  RemovedSettled'
BY DEF IInv, RemovedSettled, Registered, Active, Blocking, Of, history

\* Steps of the apply worker that change neither the history nor the child.
LEMMA WorkerQuiet ==
  ASSUME TypeOK, IInv,
         \/ \E s \in Source, g \in Plan : Prepare(s, g)
         \/ Prepared \/ Confirm \/ TakeLock \/ Refuse \/ Release
  PROVE  IInv'
<1>1. UNCHANGED <<history, process, sync, tick, desk>>
  BY DEF Prepare, Prepared, Confirm, TakeLock, Refuse, Release, decision
<1>2. UnusedRows' /\ ChildRow' /\ HonestOutcome' /\ PlanOnce'
  BY <1>1, QuietRows
<1>3. RemovedSettled'
  BY <1>1, SettledFrame DEF process, tick
<1>4. TickRow'
  BY <1>1 DEF IInv, TickRow, tick, history
<1>5. LockOwners'
  BY <1>1 DEF IInv, LockOwners, TypeOK, Prepare, Prepared, Confirm, TakeLock, Refuse, Release, Answered,
              process, tick, locks
<1>6. WorkerRow'
  BY <1>1 DEF IInv, LockOwners, WorkerRow, ChildRow, TypeOK, Prepare, Prepared, Confirm, TakeLock, Refuse, Release, Answered,
              process, tick, history, NoWrites
<1>7. QED
  BY <1>2, <1>3, <1>4, <1>5, <1>6 DEF IInv

\* The child reports, times out, or is collected.
LEMMA ChildQuiet ==
  ASSUME TypeOK, IInv, ChildReports \/ ChildTimesOut \/ Reap \/ Restart
  PROVE  IInv'
<1>1. UNCHANGED <<history, sync, tick, desk>>
  BY DEF ChildReports, ChildTimesOut, Reap, Restart, decision
<1>2. child' # "none" => child' = child /\ writer' = writer
  BY DEF ChildReports, ChildTimesOut, Reap, Restart, process
<1>3. UnusedRows' /\ HonestOutcome' /\ PlanOnce'
  BY <1>1 DEF IInv, UnusedRows, HonestOutcome, PlanOnce, history
<1>4. ChildRow'
  BY <1>1, <1>2 DEF IInv, ChildRow, history
<1>5. RemovedSettled'
  BY <1>1, <1>2, SettledFrame DEF tick
<1>6. TickRow'
  BY <1>1 DEF IInv, TickRow, tick, history
<1>7. LockOwners'
  BY <1>1 DEF IInv, LockOwners, TypeOK, ChildReports, ChildTimesOut, Reap, Restart, worker, process, tick, locks
<1>8. WorkerRow'
  BY <1>1 DEF IInv, LockOwners, WorkerRow, ChildRow, TypeOK, ChildReports, Reported, ChildTimesOut, Reap, Restart,
              worker, process, history, NoWrites
<1>9. QED
  BY <1>3, <1>4, <1>5, <1>6, <1>7, <1>8 DEF IInv

\* The worker dies.
LEMMA CrashStep ==
  ASSUME TypeOK, IInv, Crash
  PROVE  IInv'
<1>1. UNCHANGED <<history, process, sync, tick, desk>>
  BY DEF Crash, decision
<1>2. UnusedRows' /\ ChildRow' /\ HonestOutcome' /\ PlanOnce'
  BY <1>1, QuietRows
<1>3. RemovedSettled'
  BY <1>1, SettledFrame DEF process, tick
<1>4. TickRow'
  BY <1>1 DEF IInv, TickRow, tick, history
<1>5. LockOwners'
  BY <1>1 DEF IInv, LockOwners, TypeOK, Crash, process, tick
<1>6. WorkerRow'
  BY DEF WorkerRow, Crash
<1>7. QED
  BY <1>2, <1>3, <1>4, <1>5, <1>6 DEF IInv

\* Steps of the scheduler tick and of baseline acceptance that leave the history alone.
LEMMA TickQuiet ==
  ASSUME TypeOK, IInv,
         Tick \/ Evaluate \/ SchedCheck \/ SchedEnds \/ TickEnds \/ SchedCrash \/ IntentLock \/ RefuseBaseline
  PROVE  IInv'
<1>1. UNCHANGED <<history, process, sync, worker, fd, reaper>>
  BY DEF Tick, Evaluate, SchedCheck, SchedEnds, TickEnds, SchedCrash, IntentLock, RefuseBaseline, locks
<1>2. UnusedRows' /\ ChildRow' /\ HonestOutcome' /\ PlanOnce'
  BY <1>1, QuietRows
<1>3. RemovedSettled'
  BY <1>1, SettledFrame
     DEF process, tick, Tick, Evaluate, SchedCheck, SchedEnds, TickEnds, SchedCrash, IntentLock, RefuseBaseline
<1>4. TickRow'
  BY <1>1 DEF IInv, TickRow, TypeOK, tick, history, NoWrites,
              Tick, Evaluate, SchedCheck, SchedEnds, TickEnds, SchedCrash, IntentLock, RefuseBaseline
<1>5. LockOwners'
  BY <1>1 DEF IInv, LockOwners, TypeOK, tick, decision, locks, process, worker,
              Tick, Evaluate, SchedCheck, SchedEnds, TickEnds, SchedCrash, IntentLock, RefuseBaseline
<1>6. WorkerRow'
  BY <1>1 DEF IInv, WorkerRow, worker, process, history
<1>7. QED
  BY <1>2, <1>3, <1>4, <1>5, <1>6 DEF IInv

\* A new row: nothing is known of it but that it is RUNNING.
LEMMA StartRows ==
  ASSUME TypeOK, IInv, NEW s \in Source, NEW k \in {"manual", "scheduled"}, StartRun(s, k),
         UNCHANGED <<process, sync>>
  PROVE  /\ UnusedRows' /\ ChildRow' /\ HonestOutcome' /\ PlanOnce'
         /\ runs[started + 1].status = "NONE"
         /\ \A t \in Source : ~Registered(t) => ~Active(t)' /\ Blocking(t)' = {}
<1>0. /\ started' = started + 1 /\ started' \in Run /\ baseline' = baseline /\ Registered(s)
      /\ \A q \in Run : q # started' => runs'[q] = runs[q]
      /\ runs'[started'].source = s /\ runs'[started'].trigger = k
      /\ runs'[started'].status = "RUNNING" /\ runs'[started'].writes = "none"
  BY StartEffect
<1>1. started \in Nat /\ Run \subseteq Nat
  BY SMTT(30) DEF TypeOK, Run
<1>2. runs[started'].status = "NONE"
  BY <1>0, <1>1, SMTT(30) DEF IInv, UnusedRows
<1>3. UnusedRows'
  <2> SUFFICES ASSUME NEW r \in Run
               PROVE  /\ (r > started <=> runs[r].status = "NONE")'
                      /\ (runs[r].status = "NONE" => runs[r].writes = "none")'
                      /\ (baseline[r] # 0 => runs[r].status = "OUTCOME_UNCERTAIN")'
                      /\ (runs[r].trigger = "manual" /\ runs[r].writes # "none" => runs[r].plan # 0)'
    BY DEF UnusedRows
  <2>1. CASE r = started'
    BY <1>0, <1>1, <1>2, <2>1, SMTT(30) DEF IInv, UnusedRows
  <2>2. CASE r # started'
    <3>1. (r > started <=> r > started') /\ runs'[r] = runs[r]
      BY <1>0, <1>1, <2>2, SMTT(30)
    <3>2. QED
      BY <1>0, <3>1 DEF IInv, UnusedRows
  <2>3. QED
    BY <2>1, <2>2
<1>4. ChildRow'
  BY <1>0, <1>2 DEF IInv, ChildRow, process
<1>5. HonestOutcome'
  BY <1>0 DEF IInv, HonestOutcome, NoWrites
<1>6. PlanOnce'
  BY <1>0, SMTT(30) DEF IInv, PlanOnce
<1>7. ASSUME NEW t \in Source, ~Registered(t) PROVE ~Active(t)' /\ Blocking(t)' = {}
  <2>1. t # s /\ ~Active(t) /\ Blocking(t) = {}
    BY <1>0, <1>7 DEF IInv, RemovedSettled
  <2>2. \A q \in Run : runs'[q].source = t => q # started' /\ runs'[q] = runs[q]
    BY <1>0, <2>1
  <2>3. QED
    BY Zenon, <1>0, <2>1, <2>2 DEF Active, Blocking, Of
<1>8. QED
  BY <1>0, <1>2, <1>3, <1>4, <1>5, <1>6, <1>7

\* apply() records the attempt.
LEMMA AcceptStep ==
  ASSUME TypeOK, IInv, NEW s \in Source, NEW g \in Plan, Accept(s, g)
  PROVE  IInv'
<1>1. /\ StartRun(s, "manual")
      /\ UNCHANGED <<process, sync, tick, locks, desk>>
      /\ pc = "idle" /\ pc' = "accepted" /\ src' = s /\ gen' = g /\ run' = started'
  BY DEF Accept, decision
<1>2. /\ UnusedRows' /\ ChildRow' /\ HonestOutcome' /\ PlanOnce'
      /\ runs[started + 1].status = "NONE"
      /\ \A t \in Source : ~Registered(t) => ~Active(t)' /\ Blocking(t)' = {}
  BY <1>1, StartRows
<1> USE <1>1, <1>2, StartEffect DEF IInv
<1>3. RemovedSettled'
  BY DEF RemovedSettled, Registered, ChildRow, TickRow, process, tick
<1>4. LockOwners'
  BY DEF LockOwners, process, tick, locks
<1>5. TickRow'
  BY DEF TickRow, tick
<1>6. gen' # 0 /\ run' \in Run
  BY SMTT(30) DEF Plan
<1>7. child # "none" => writer # started'
  BY DEF ChildRow
<1>8. WorkerRow'
  BY <1>6, <1>7 DEF WorkerRow, process
<1>9. QED
  BY <1>3, <1>4, <1>5, <1>8

\* start_run() of the tick, or the source is skipped.
LEMMA SchedStartStep ==
  ASSUME TypeOK, IInv, NEW s \in Source, SchedStart(s)
  PROVE  IInv'
<1>1. UNCHANGED <<process, sync, worker, locks, desk>> /\ step = "tick"
  BY DEF SchedStart, decision
<1>2. CASE StartRun(s, "scheduled") /\ step' = "started" /\ ssrc' = s /\ srun' = started'
  <2>1. /\ UnusedRows' /\ ChildRow' /\ HonestOutcome' /\ PlanOnce'
        /\ runs[started + 1].status = "NONE"
        /\ \A t \in Source : ~Registered(t) => ~Active(t)' /\ Blocking(t)' = {}
    BY <1>1, <1>2, StartRows
  <2> USE <1>1, <1>2, <2>1, StartEffect DEF IInv
  <2>2. RemovedSettled'
    BY DEF RemovedSettled, Registered, ChildRow, process
  <2>3. LockOwners'
    BY DEF LockOwners, process, worker, locks
  <2>4. TickRow'
    BY DEF TickRow
  <2>5. WorkerRow'
    BY DEF WorkerRow, process, worker
  <2>6. QED
    BY <2>2, <2>3, <2>4, <2>5
<1>3. CASE UNCHANGED <<history, step, ssrc, sgen, srun>>
  <2>1. UnusedRows' /\ ChildRow' /\ HonestOutcome' /\ PlanOnce'
    BY <1>1, <1>3, QuietRows
  <2>2. RemovedSettled'
    BY <1>1, <1>3, SettledFrame DEF process
  <2>3. LockOwners' /\ TickRow' /\ WorkerRow'
    BY <1>1, <1>3 DEF IInv, LockOwners, TickRow, WorkerRow, process, worker, locks, history
  <2>4. QED
    BY <2>1, <2>2, <2>3 DEF IInv
<1>4. QED
  BY <1>2, <1>3 DEF SchedStart

-----------------------------------------------------------------------------
\* The child is dispatched, for a plan no run of the source has used.
LEMMA DispatchStep ==
  ASSUME TypeOK, IInv, Dispatch
  PROVE  IInv'
<1>1. /\ UNCHANGED <<started, baseline, sync, tick, locks, desk, src, gen, run, outcome>>
      /\ pc = "locked" /\ pc' = "child" /\ child' = "replan" /\ writer' = run
      /\ ~PlanUsed(src, gen) /\ Registered(src)
  BY DEF Dispatch, Applicable, decision
<1>2. /\ run \in Run /\ runs[run].source = src /\ runs[run].trigger = "manual"
      /\ runs[run].status = "RUNNING" /\ gen # 0 /\ runs[run].writes = "none"
  BY <1>1 DEF IInv, WorkerRow
<1> USE <1>1, <1>2, DispatchEffect DEF IInv
<1>3. UnusedRows'
  BY DEF UnusedRows
<1>4. ChildRow'
  BY DEF ChildRow, UnusedRows
<1>5. HonestOutcome'
  BY DEF HonestOutcome, NoWrites
<1>6. \A q \in Run : runs[q].status # "NONE" /\ runs[q].source = src => runs[q].plan # gen
  BY DEF PlanUsed, Of
<1>7. \A q \in Run : q # run /\ runs'[q].writes # "none" /\ runs'[q].source = src => runs'[q].plan # gen
  BY <1>6 DEF UnusedRows
<1>8. PlanOnce'
  BY <1>7, SMTT(30) DEF PlanOnce
<1>9. \A q \in Run : runs'[q].source = runs[q].source /\ runs'[q].status = runs[q].status
  OBVIOUS
<1>10. \A t \in Source : ~Registered(t)' => ~Active(t)' /\ Blocking(t)' = {}
  BY <1>9, SMTT(30) DEF RemovedSettled, Registered, Active, Blocking, Of
<1>11. RemovedSettled'
  BY <1>9, <1>10 DEF RemovedSettled, Registered, tick
<1>12. LockOwners'
  BY DEF LockOwners, tick, locks
<1>13. WorkerRow'
  BY DEF WorkerRow
<1>14. TickRow'
  BY DEF TickRow, tick
<1>15. QED
  BY <1>3, <1>4, <1>5, <1>8, <1>11, <1>12, <1>13, <1>14

\* A row passes the write boundary: statuses, sources and plans stay.
LEMMA WritesRows ==
  ASSUME TypeOK, IInv, NEW r \in Run, runs' = [runs EXCEPT ![r].writes = "begun"],
         UNCHANGED <<started, baseline, sync>>, runs[r].status \in {"RUNNING", "OUTCOME_UNCERTAIN"},
         runs[r].trigger = "manual" => runs[r].writes # "none"
  PROVE  /\ UnusedRows' /\ HonestOutcome' /\ PlanOnce'
         /\ \A t \in Source : ~Registered(t)' => ~Active(t)' /\ Blocking(t)' = {}
<1>0. /\ \A q \in Run : q # r => runs'[q] = runs[q]
      /\ runs'[r].source = runs[r].source /\ runs'[r].trigger = runs[r].trigger
      /\ runs'[r].status = runs[r].status /\ runs'[r].plan = runs[r].plan /\ runs'[r].writes = "begun"
  BY Zenon, WritesEffect
<1>1. UnusedRows'
  BY <1>0, SMTT(30) DEF IInv, UnusedRows
<1>2. HonestOutcome'
  BY <1>0 DEF IInv, HonestOutcome, NoWrites
<1>3. \A q \in Run : /\ runs'[q].source = runs[q].source /\ runs'[q].trigger = runs[q].trigger
                     /\ runs'[q].status = runs[q].status /\ runs'[q].plan = runs[q].plan
                     /\ runs[q].trigger = "manual" /\ runs'[q].writes # "none" => runs[q].writes # "none"
  BY <1>0
<1>4. PlanOnce'
  BY <1>3, SMTT(30) DEF IInv, PlanOnce
<1>5. \A t \in Source : ~Registered(t)' => ~Active(t)' /\ Blocking(t)' = {}
  BY <1>3, SMTT(30) DEF IInv, RemovedSettled, Registered, Active, Blocking, Of
<1>6. QED
  BY <1>1, <1>2, <1>4, <1>5

\* The child passes before_write.
LEMMA ChildWritesStep ==
  ASSUME TypeOK, IInv, ChildWrites
  PROVE  IInv'
<1>1. /\ UNCHANGED <<started, baseline, sync, tick, locks, worker, writer, desk>>
      /\ child = "replan" /\ child' = "writing"
      /\ runs' = [runs EXCEPT ![writer].writes = "begun"]
  BY DEF ChildWrites, decision
<1>2. /\ writer \in Run /\ runs[writer].trigger = "manual" /\ runs[writer].writes = "dispatched"
      /\ runs[writer].status \in {"RUNNING", "OUTCOME_UNCERTAIN"} /\ baseline[writer] = 0
  BY <1>1 DEF IInv, ChildRow
<1>3. /\ \A q \in Run : q # writer => runs'[q] = runs[q]
      /\ runs'[writer].source = runs[writer].source /\ runs'[writer].trigger = runs[writer].trigger
      /\ runs'[writer].status = runs[writer].status /\ runs'[writer].writes = "begun"
  BY Zenon, <1>1, <1>2, WritesEffect
<1>4. /\ UnusedRows' /\ HonestOutcome' /\ PlanOnce'
      /\ \A t \in Source : ~Registered(t)' => ~Active(t)' /\ Blocking(t)' = {}
  BY Zenon, <1>1, <1>2, WritesRows
<1>5. ChildRow'
  BY <1>1, <1>2, <1>3 DEF ChildRow
<1>6. RemovedSettled'
  BY <1>1, <1>3, <1>4 DEF IInv, RemovedSettled, Registered, tick
<1>7. LockOwners'
  BY <1>1 DEF IInv, LockOwners, tick, locks, worker
<1>8. WorkerRow'
  BY <1>1, <1>2, <1>3, SMTT(30) DEF IInv, LockOwners, WorkerRow, worker, NoWrites
<1>9. TickRow'
  BY <1>1, <1>2, <1>3 DEF IInv, TickRow, tick
<1>10. QED
  BY <1>4, <1>5, <1>6, <1>7, <1>8, <1>9 DEF IInv

\* The scheduled executor passes before_write.
LEMMA SchedWritesStep ==
  ASSUME TypeOK, IInv, SchedWrites
  PROVE  IInv'
<1>1. /\ UNCHANGED <<started, baseline, sync, locks, worker, process, ssrc, srun, sout, desk>>
      /\ step = "cleared" /\ step' = "writing"
      /\ runs' = [runs EXCEPT ![srun].writes = "begun"]
  BY DEF SchedWrites, decision
<1>2. /\ srun \in Run /\ runs[srun].trigger = "scheduled" /\ runs[srun].status = "RUNNING"
      /\ runs[srun].source = ssrc
  BY <1>1 DEF IInv, TickRow
<1>3. /\ \A q \in Run : q # srun => runs'[q] = runs[q]
      /\ runs'[srun].source = runs[srun].source /\ runs'[srun].trigger = runs[srun].trigger
      /\ runs'[srun].status = runs[srun].status /\ runs'[srun].writes = "begun"
  BY Zenon, <1>1, <1>2, WritesEffect
<1>4. /\ UnusedRows' /\ HonestOutcome' /\ PlanOnce'
      /\ \A t \in Source : ~Registered(t)' => ~Active(t)' /\ Blocking(t)' = {}
  BY Zenon, <1>1, <1>2, WritesRows
<1>5. ChildRow'
  BY <1>1, <1>2, <1>3 DEF IInv, ChildRow, process
<1>6. RemovedSettled'
  BY <1>1, <1>2, <1>3, <1>4, SMTT(30) DEF IInv, RemovedSettled, Registered, process
<1>7. LockOwners'
  BY <1>1 DEF IInv, LockOwners, process, locks, worker
<1>8. WorkerRow'
  BY <1>1, <1>2, <1>3 DEF IInv, WorkerRow, worker, process
<1>9. TickRow'
  BY <1>1, <1>2, <1>3 DEF TickRow
<1>10. QED
  BY <1>4, <1>5, <1>6, <1>7, <1>8, <1>9 DEF IInv

\* A RUNNING row gets an outcome that is honest about its writes.
LEMMA FinishRows ==
  ASSUME TypeOK, IInv, NEW r \in Run, NEW o \in Terminal, NEW g \in 0..MaxPlans,
         runs[r].status = "RUNNING", FinishRun(r, o, g), UNCHANGED sync,
         o \in NoWrites => runs[r].writes # "begun"
  PROVE  /\ UnusedRows' /\ HonestOutcome' /\ PlanOnce'
         /\ \A t \in Source : ~Registered(t)' => ~Active(t)' /\ Blocking(t)' = {}
<1>0. /\ \A q \in Run : q # r => runs'[q] = runs[q]
      /\ runs'[r].source = runs[r].source /\ runs'[r].trigger = runs[r].trigger
      /\ runs'[r].status = o /\ runs'[r].writes = runs[r].writes
      /\ runs[r].plan # 0 => runs'[r].plan = runs[r].plan
      /\ started' = started /\ baseline' = baseline
  BY FinishEffect
<1>1. o # "NONE" /\ o # "RUNNING" /\ baseline[r] = 0
  BY DEF Terminal, IInv, UnusedRows
<1>2. UnusedRows'
  BY <1>0, <1>1 DEF IInv, UnusedRows
<1>3. HonestOutcome'
  BY <1>0 DEF IInv, HonestOutcome
<1>4. \A q \in Run : /\ runs'[q].source = runs[q].source /\ runs'[q].trigger = runs[q].trigger
                     /\ runs'[q].writes = runs[q].writes
                     /\ runs[q].trigger = "manual" /\ runs[q].writes # "none" => runs'[q].plan = runs[q].plan
  BY <1>0 DEF IInv, UnusedRows
<1>5. PlanOnce'
  BY <1>4, SMTT(30) DEF IInv, PlanOnce
<1>6. Of(runs[r].source, r) /\ runs[r].source \in Source
  BY RowFields DEF Of, TypeOK
<1>7. Registered(runs[r].source)
  BY <1>6 DEF IInv, RemovedSettled, Active
<1>8. ASSUME NEW t \in Source, ~Registered(t)' PROVE ~Active(t)' /\ Blocking(t)' = {}
  <2>1. ~Registered(t) /\ t # runs[r].source
    BY <1>7, <1>8 DEF Registered
  <2>2. ~Active(t) /\ Blocking(t) = {}
    BY <2>1 DEF IInv, RemovedSettled
  <2>3. \A q \in Run : runs'[q].source = t => runs'[q] = runs[q]
    BY <1>0, <2>1
  <2>4. QED
    BY <1>0, <2>2, <2>3 DEF Active, Blocking, Of
<1>9. QED
  BY <1>2, <1>3, <1>5, <1>8

\* The outcome of a manual run is recorded, or lost.
LEMMA FinishStep ==
  ASSUME TypeOK, IInv, Finish
  PROVE  IInv'
<1>1. /\ UNCHANGED <<sync, tick, locks, process, desk>>
      /\ pc = "finish" /\ pc' = "idle"
  BY DEF Finish, Answered, decision
<1>2. /\ run \in Run /\ runs[run].status = "RUNNING" /\ runs[run].trigger = "manual"
      /\ outcome \in NoWrites => runs[run].writes # "begun"
      /\ child # "none" /\ writer = run => outcome = "OUTCOME_UNCERTAIN"
  BY <1>1 DEF IInv, WorkerRow
<1>3. LockOwners' /\ WorkerRow'
  BY <1>1 DEF IInv, LockOwners, WorkerRow, process, tick, locks
<1>4. CASE UNCHANGED history
  <2>1. UnusedRows' /\ ChildRow' /\ HonestOutcome' /\ PlanOnce'
    BY <1>1, <1>4, QuietRows
  <2>2. RemovedSettled'
    BY <1>1, <1>4, SettledFrame DEF process, tick
  <2>3. TickRow'
    BY <1>1, <1>4 DEF IInv, TickRow, tick, history
  <2>4. QED
    BY <1>3, <2>1, <2>2, <2>3 DEF IInv
<1>5. ASSUME NEW o \in {outcome, "OUTCOME_UNCERTAIN"}, FinishRun(run, o, gen)
      PROVE  IInv'
  <2>1. o \in Terminal /\ gen \in 0..MaxPlans /\ (o \in NoWrites => runs[run].writes # "begun")
    BY <1>2 DEF TypeOK, Terminal, NoWrites
  <2>2. /\ UnusedRows' /\ HonestOutcome' /\ PlanOnce'
        /\ \A t \in Source : ~Registered(t)' => ~Active(t)' /\ Blocking(t)' = {}
    BY <1>1, <1>2, <1>5, <2>1, FinishRows
  <2>3. /\ \A q \in Run : q # run => runs'[q] = runs[q]
        /\ runs'[run].source = runs[run].source /\ runs'[run].trigger = runs[run].trigger
        /\ runs'[run].status = o /\ runs'[run].writes = runs[run].writes
        /\ baseline' = baseline
    BY <1>2, <1>5, <2>1, FinishEffect
  <2>4. ChildRow'
    BY <1>1, <1>2, <2>3 DEF IInv, ChildRow, process
  <2>5. RemovedSettled'
    BY <1>1, <2>2, <2>3 DEF IInv, RemovedSettled, Registered, ChildRow, process, tick
  <2>6. TickRow'
    BY <1>1, <1>2, <2>3 DEF IInv, TickRow, tick
  <2>7. QED
    BY <1>3, <2>2, <2>4, <2>5, <2>6 DEF IInv
<1>6. QED
  BY <1>4, <1>5 DEF Finish, history

\* The outcome of a scheduled run is recorded, or lost.
LEMMA SchedFinishStep ==
  ASSUME TypeOK, IInv, SchedFinish
  PROVE  IInv'
<1>1. /\ UNCHANGED <<sync, worker, locks, process, desk>>
      /\ step = "finish" /\ step' = "tick"
  BY DEF SchedFinish, decision
<1>2. /\ srun \in Run /\ runs[srun].status = "RUNNING" /\ runs[srun].trigger = "scheduled"
      /\ sout \in NoWrites => runs[srun].writes # "begun"
  BY <1>1 DEF IInv, TickRow
<1>3. LockOwners' /\ TickRow'
  BY <1>1 DEF IInv, LockOwners, TickRow, process, worker, locks
<1>4. CASE UNCHANGED history
  <2>1. UnusedRows' /\ ChildRow' /\ HonestOutcome' /\ PlanOnce'
    BY <1>1, <1>4, QuietRows
  <2>2. RemovedSettled'
    BY <1>1, <1>4, SettledFrame DEF process
  <2>3. WorkerRow'
    BY <1>1, <1>4 DEF IInv, WorkerRow, worker, process, history
  <2>4. QED
    BY <1>3, <2>1, <2>2, <2>3 DEF IInv
<1>5. ASSUME NEW g \in {0, sgen}, FinishRun(srun, sout, g)
      PROVE  IInv'
  <2>1. sout \in Terminal /\ g \in 0..MaxPlans
    BY RunsAssumption, SMTT(30) DEF TypeOK
  <2>2. /\ UnusedRows' /\ HonestOutcome' /\ PlanOnce'
        /\ \A t \in Source : ~Registered(t)' => ~Active(t)' /\ Blocking(t)' = {}
    BY <1>1, <1>2, <1>5, <2>1, FinishRows
  <2>3. /\ \A q \in Run : q # srun => runs'[q] = runs[q]
        /\ runs'[srun].source = runs[srun].source /\ runs'[srun].trigger = runs[srun].trigger
        /\ baseline' = baseline
    BY <1>2, <1>5, <2>1, FinishEffect
  <2>4. ChildRow'
    BY <1>1, <1>2, <2>3 DEF IInv, ChildRow, process
  <2>5. RemovedSettled'
    BY Zenon, <1>1, <2>2, <2>3 DEF IInv, RemovedSettled, Registered, ChildRow, process
  <2>6. WorkerRow'
    BY <1>1, <1>2, <2>3 DEF IInv, WorkerRow, worker, process
  <2>7. QED
    BY <1>3, <2>2, <2>4, <2>5, <2>6 DEF IInv
<1>6. QED
  BY <1>4, <1>5 DEF SchedFinish, history

\* A baseline is accepted: only resolved runs and the schedule change.
LEMMA BaselineStep ==
  ASSUME TypeOK, IInv, AcceptBaseline
  PROVE  IInv'
<1>1. /\ UNCHANGED <<runs, started, tick, worker, fd, reaper, process>>
      /\ desk = "locked" /\ desk' = "idle" /\ lock' = "free"
      /\ \A r \in Run : baseline'[r] = IF r \in Blocking(dsrc) THEN started + 1 ELSE baseline[r]
      /\ child = "none" \/ writer \notin Blocking(dsrc)
      /\ Registered(dsrc) /\ sync' = [sync EXCEPT ![dsrc] = "off"]
  BY DEF AcceptBaseline, Acceptable
<1>2. \A t \in Source : ~Registered(t)' => ~Registered(t)
  BY <1>1 DEF Registered, TypeOK
<1>3. LockOwners'
  BY <1>1 DEF IInv, LockOwners, tick, worker, process
<1>4. UnusedRows'
  BY <1>1 DEF IInv, UnusedRows, Blocking
<1>5. WorkerRow' /\ TickRow' /\ HonestOutcome' /\ PlanOnce'
  BY <1>1 DEF IInv, WorkerRow, TickRow, HonestOutcome, PlanOnce, worker, tick, process
<1>6. ChildRow'
  BY <1>1 DEF IInv, ChildRow, process
<1>7. started + 1 # 0
  BY SMTT(30) DEF TypeOK
<1>8. \A t \in Source : Blocking(t)' \subseteq Blocking(t)
  BY <1>1, <1>7 DEF Blocking, Of
<1>9. RemovedSettled'
  BY <1>1, <1>2, <1>8 DEF IInv, RemovedSettled, Active, Of, tick, process
<1>10. QED
  BY <1>3, <1>4, <1>5, <1>6, <1>9 DEF IInv

\* A source is removed: the free lock and the history leave no writer for it.
LEMMA RemoveStep ==
  ASSUME TypeOK, IInv, NEW s \in Source, Remove(s)
  PROVE  IInv'
<1>1. /\ UNCHANGED <<history, process, worker, tick, locks, decision>>
      /\ lock = "free" /\ ~Active(s) /\ Blocking(s) = {}
      /\ sync' = [sync EXCEPT ![s] = "removed"]
  BY DEF Remove, Removable
<1>2. UnusedRows' /\ ChildRow' /\ HonestOutcome' /\ PlanOnce'
  BY <1>1, QuietRows
<1>3. LockOwners' /\ WorkerRow' /\ TickRow'
  BY <1>1 DEF IInv, LockOwners, WorkerRow, TickRow, history, process, worker, tick, locks, decision
<1>4. child # "none" => runs[writer].source # s
  BY <1>1 DEF IInv, ChildRow, Active, Blocking, Of
<1>5. step = "idle"
  BY <1>1 DEF IInv, LockOwners
<1>6. \A t \in Source : t # s /\ ~Registered(t)' => ~Registered(t)
  BY <1>1 DEF Registered, TypeOK
<1>7. RemovedSettled'
  BY Zenon, <1>1, <1>4, <1>5, <1>6 DEF IInv, RemovedSettled, Active, Blocking, Of, history, process, tick
<1>8. QED
  BY <1>2, <1>3, <1>7 DEF IInv

-----------------------------------------------------------------------------
(* The theorems. *)

\* Every step keeps the inductive invariant.
LEMMA Preserved ==
  ASSUME TypeOK, IInv, [Next]_vars
  PROVE  IInv'
<1>1. ASSUME NEW s \in Source, Request(s) PROVE IInv'
  <2>1. CASE \E g \in Plan : Prepare(s, g)
    BY <2>1, WorkerQuiet
  <2>2. CASE \E g \in Plan : Accept(s, g)
    BY <2>2, AcceptStep
  <2>3. CASE Remove(s)
    BY <2>3, RemoveStep
  <2>4. CASE \E g \in Plan : Expire(s, g)
    BY <2>4, RequestStep
  <2>5. CASE StartPlan(s) \/ PlanReady(s) \/ PlanEnds(s) \/ Review(s) \/ Intent(s) \/ EnableSync(s)
    BY <2>5, RequestStep
  <2>6. QED
    BY <1>1, <2>1, <2>2, <2>3, <2>4, <2>5 DEF Request
<1>2. CASE WorkerStep
  BY <1>2, WorkerQuiet, ChildQuiet, DispatchStep, FinishStep DEF WorkerStep
<1>3. CASE ChildWrites \/ Reap \/ Crash
  BY <1>3, ChildWritesStep, ChildQuiet, CrashStep
<1>4. CASE TickStep
  BY <1>4, TickQuiet, SchedStartStep, SchedFinishStep DEF TickStep
<1>5. CASE Tick \/ SchedWrites \/ SchedCrash
  BY <1>5, TickQuiet, SchedWritesStep
<1>6. CASE DeskStep
  BY <1>6, TickQuiet, BaselineStep DEF DeskStep
<1>7. CASE UNCHANGED vars
  <2>1. UNCHANGED <<history, process, sync, worker, tick, locks, desk>>
    BY <1>7 DEF vars, history, process, worker, tick, locks
  <2>2. UnusedRows' /\ ChildRow' /\ HonestOutcome' /\ PlanOnce'
    BY <2>1, QuietRows
  <2>3. RemovedSettled'
    BY <2>1, SettledFrame DEF process, tick
  <2>4. LockOwners' /\ WorkerRow' /\ TickRow'
    BY <2>1 DEF IInv, LockOwners, WorkerRow, TickRow, history, process, worker, tick, locks
  <2>5. QED
    BY <2>2, <2>3, <2>4 DEF IInv
<1>8. QED
  BY <1>1, <1>2, <1>3, <1>4, <1>5, <1>6, <1>7 DEF Next

\* A recorded outcome is final, and an uncertain one is only recorded by finish_run.
LEMMA RowHistory ==
  ASSUME TypeOK, IInv, [Next]_vars, NEW q \in Run
  PROVE  /\ runs[q].status \notin {"NONE", "RUNNING"} =>
              /\ runs'[q].source = runs[q].source
              /\ runs'[q].trigger = runs[q].trigger
              /\ runs'[q].status = runs[q].status
         /\ runs'[q].status = "OUTCOME_UNCERTAIN" =>
              runs[q].status = "OUTCOME_UNCERTAIN" \/ Finish \/ SchedFinish
<1> DEFINE Kept == /\ runs[q].status \notin {"NONE", "RUNNING"} =>
                        /\ runs'[q].source = runs[q].source
                        /\ runs'[q].trigger = runs[q].trigger
                        /\ runs'[q].status = runs[q].status
                   /\ runs'[q].status = "OUTCOME_UNCERTAIN" =>
                        runs[q].status = "OUTCOME_UNCERTAIN" \/ Finish \/ SchedFinish
<1> SUFFICES Kept
  OBVIOUS
<1>1. CASE UNCHANGED runs
  BY <1>1
<1>2. ASSUME NEW s \in Source, NEW k \in {"manual", "scheduled"}, StartRun(s, k), UNCHANGED <<process, sync>>
      PROVE  Kept
  <2>1. runs[started + 1].status = "NONE" /\ started' = started + 1
    BY Zenon, <1>2, StartRows, StartEffect
  <2>2. q # started' => runs'[q] = runs[q]
    BY Zenon, <1>2, StartEffect
  <2>3. runs'[started'].status = "RUNNING"
    BY <1>2, StartEffect
  <2>4. QED
    BY <2>1, <2>2, <2>3
<1>3. CASE Dispatch
  <2>1. run \in Run
    BY <1>3 DEF Dispatch, IInv, WorkerRow
  <2>2. QED
    BY <1>3, <2>1, DispatchEffect
<1>4. CASE ChildWrites
  <2>1. writer \in Run
    BY <1>4 DEF ChildWrites, IInv, ChildRow
  <2>2. QED
    BY <1>4, <2>1, WritesEffect DEF ChildWrites
<1>5. CASE SchedWrites
  <2>1. srun \in Run
    BY <1>5 DEF SchedWrites, IInv, TickRow
  <2>2. QED
    BY <1>5, <2>1, WritesEffect DEF SchedWrites
<1>6. ASSUME NEW r \in Run, runs[r].status = "RUNNING", NEW o \in Terminal, NEW g \in 0..MaxPlans,
             FinishRun(r, o, g), Finish \/ SchedFinish
      PROVE  Kept
  BY <1>6, FinishEffect
<1>7. CASE Finish
  <2>1. run \in Run /\ runs[run].status = "RUNNING"
    BY Zenon, <1>7 DEF Finish, IInv, WorkerRow
  <2>2. outcome \in Terminal /\ "OUTCOME_UNCERTAIN" \in Terminal /\ gen \in 0..MaxPlans
    BY DEF TypeOK, Terminal
  <2>3. QED
    BY Zenon, <1>1, <1>6, <1>7, <2>1, <2>2 DEF Finish, history
<1>8. CASE SchedFinish
  <2>1. srun \in Run /\ runs[srun].status = "RUNNING"
    BY Zenon, <1>8 DEF SchedFinish, IInv, TickRow
  <2>2. sout \in Terminal /\ sgen \in 0..MaxPlans /\ 0 \in 0..MaxPlans
    BY RunsAssumption, SMTT(30) DEF TypeOK
  <2>3. QED
    BY Zenon, <1>1, <1>6, <1>8, <2>1, <2>2 DEF SchedFinish, history
<1>9. CASE \E s \in Source : \E g \in Plan : Accept(s, g)
  BY Zenon, <1>2, <1>9 DEF Accept
<1>10. CASE \E s \in Source : SchedStart(s)
  BY Zenon, <1>1, <1>2, <1>10 DEF SchedStart, history
<1> HIDE DEF Kept
<1>11. QED
  BY Zenon, <1>1, <1>3, <1>4, <1>5, <1>7, <1>8, <1>9, <1>10
     DEF Next, vars, Request, WorkerStep, TickStep, DeskStep, history, StartPlan, PlanReady, PlanEnds, Prepare,
         Expire, Review, Intent, Remove, EnableSync, Prepared, Confirm, TakeLock, Refuse, ChildReports,
         ChildTimesOut, Release, Restart, Reap, Crash, Tick, Evaluate, SchedCheck, SchedEnds, TickEnds,
         SchedCrash, IntentLock, AcceptBaseline, RefuseBaseline

\* Only baseline acceptance, under its lock, changes what is reconciled.
LEMMA BaselineFixed ==
  ASSUME [Next]_vars, ~AcceptBaseline
  PROVE  baseline' = baseline
BY Zenon DEF Next, vars, Request, WorkerStep, TickStep, DeskStep, history, StartRun, FinishRun, StartPlan, PlanReady,
       PlanEnds, Prepare, Accept, Expire, Review, Intent, Remove, EnableSync, Prepared, Confirm, TakeLock,
       Dispatch, Refuse, ChildReports, ChildTimesOut, ChildWrites, Release, Finish, Restart, Reap, Crash,
       Tick, Evaluate, SchedStart, SchedCheck, SchedWrites, SchedEnds, SchedFinish, TickEnds, SchedCrash,
       IntentLock, RefuseBaseline

\* A tick that is cleared was so before, or has just looked at the history.
LEMMA TickGoesOn ==
  ASSUME [Next]_vars, step' \in {"cleared", "writing"}
  PROVE  /\ ssrc' = ssrc /\ srun' = srun
         /\ step \in {"cleared", "writing"} \/ (step = "started" /\ SchedCheck)
<1>1. CASE (\E s \in Source : Request(s)) \/ WorkerStep \/ DeskStep \/ ChildWrites \/ Reap \/ UNCHANGED vars
  <2>1. UNCHANGED tick
    BY Zenon, <1>1 DEF vars, Request, WorkerStep, DeskStep, StartPlan, PlanReady, PlanEnds, Prepare, Accept,
         Expire, Review, Intent, Remove, EnableSync, Prepared, Confirm, TakeLock, Dispatch, Refuse,
         ChildReports, ChildTimesOut, ChildWrites, Release, Finish, Restart, Reap, IntentLock,
         AcceptBaseline, RefuseBaseline, tick
  <2>2. QED
    BY <2>1 DEF tick
<1>2. CASE TickStep \/ Tick \/ SchedWrites \/ SchedCrash \/ Crash
  BY <1>2 DEF TickStep, Tick, Evaluate, SchedStart, SchedCheck, SchedWrites, SchedEnds, SchedFinish,
       TickEnds, SchedCrash, Crash, tick
<1>3. QED
  BY <1>1, <1>2 DEF Next

\* Neither history guard is undone while its writer is at work.
LEMMA GuardsKept ==
  ASSUME TypeOK, IInv, [Next]_vars, ManualHistory, ScheduleWaits
  PROVE  ManualHistory' /\ ScheduleWaits'
<1>1. ASSUME pc' = "child" PROVE ~ReconciliationRequired(src)'
  <2>1. \/ pc = "child" /\ src' = src /\ ~Finish
        \/ Dispatch
    BY Zenon, <1>1 DEF Next, vars, Request, WorkerStep, TickStep, DeskStep, worker, StartPlan, PlanReady, PlanEnds,
         Prepare, Accept, Expire, Review, Intent, Remove, EnableSync, Prepared, Confirm, TakeLock, Refuse,
         ChildReports, ChildTimesOut, ChildWrites, Release, Finish, Answered, Restart, Reap, Crash, Tick, Evaluate,
         SchedStart, SchedCheck, SchedWrites, SchedEnds, SchedFinish, TickEnds, SchedCrash, IntentLock,
         AcceptBaseline, RefuseBaseline
  <2>2. src' = src /\ ~ReconciliationRequired(src) /\ pc \in {"locked", "child"} /\ ~Finish
    BY <2>1 DEF Dispatch, Applicable, ManualHistory, Finish
  <2>3. lock = "manual"
    BY <2>2 DEF IInv, LockOwners
  <2>4. ~SchedFinish /\ ~AcceptBaseline
    BY <2>3 DEF IInv, LockOwners, SchedFinish, AcceptBaseline
  <2>5. baseline' = baseline
    BY <2>4, BaselineFixed
  <2>6. \A q \in Run : runs'[q].status = "OUTCOME_UNCERTAIN" =>
          runs[q].status = "OUTCOME_UNCERTAIN" /\ runs'[q].source = runs[q].source
    BY Zenon, <2>2, <2>4, RowHistory
  <2>7. QED
    BY <2>2, <2>5, <2>6 DEF ReconciliationRequired, Blocking, Of
<1>2. ASSUME step' \in {"cleared", "writing"} PROVE ~ScheduleBlocked(ssrc)'
  <2>1. \/ step \in {"cleared", "writing"} /\ ssrc' = ssrc
        \/ step = "started" /\ SchedCheck
    BY <1>2, TickGoesOn
  <2>2. ssrc' = ssrc /\ ~ScheduleBlocked(ssrc) /\ step # "idle"
    BY <1>2, <2>1 DEF SchedCheck, ScheduleWaits
  <2>3. ~AcceptBaseline
    BY <2>2 DEF IInv, LockOwners, AcceptBaseline
  <2>4. baseline' = baseline
    BY <2>3, BaselineFixed
  <2>5. \A q \in Run : runs[q].status \notin {"NONE", "RUNNING"} =>
          /\ runs'[q].source = runs[q].source
          /\ runs'[q].trigger = runs[q].trigger
          /\ runs'[q].status = runs[q].status
    BY RowHistory
  <2>6. \A r \in Run : baseline[r] # 0 => runs[r].status = "OUTCOME_UNCERTAIN"
    BY DEF IInv, UnusedRows
  <2>7. QED
    BY <2>2, <2>4, <2>5, <2>6, SMTT(30) DEF ScheduleBlocked, Of
<1>3. QED
  BY <1>1, <1>2 DEF ManualHistory, ScheduleWaits

\* A tick that has a new row took it just now, or had it before.
LEMMA StartedTick ==
  ASSUME [Next]_vars, step' = "started"
  PROVE  \/ \E s \in Source : StartRun(s, "scheduled") /\ srun' = started'
         \/ step = "started" /\ srun' = srun
<1>1. CASE (\E s \in Source : Request(s)) \/ WorkerStep \/ DeskStep \/ ChildWrites \/ Reap \/ UNCHANGED vars
  <2>1. UNCHANGED tick
    BY Zenon, <1>1 DEF vars, Request, WorkerStep, DeskStep, StartPlan, PlanReady, PlanEnds, Prepare, Accept,
         Expire, Review, Intent, Remove, EnableSync, Prepared, Confirm, TakeLock, Dispatch, Refuse,
         ChildReports, ChildTimesOut, ChildWrites, Release, Finish, Restart, Reap, IntentLock,
         AcceptBaseline, RefuseBaseline, tick
  <2>2. QED
    BY <2>1 DEF tick
<1>2. CASE TickStep \/ Tick \/ SchedWrites \/ SchedCrash \/ Crash
  BY <1>2 DEF TickStep, Tick, Evaluate, SchedStart, SchedCheck, SchedWrites, SchedEnds, SchedFinish,
       TickEnds, SchedCrash, Crash, tick
<1>3. QED
  BY <1>1, <1>2 DEF Next

\* While a tick goes on, no further manual run gives the lock back.
LEMMA LateStays ==
  ASSUME TypeOK, IInv, [Next]_vars, Late', step' # "idle"
  PROVE  Late /\ src' = src /\ run' = run /\ pc' = "finish"
<1>1. pc' = "finish" /\ outcome' \in {"SUCCEEDED", "OUTCOME_UNCERTAIN"}
  BY DEF Late
<1>2. ~Release
  <2>1. SUFFICES ASSUME Release PROVE FALSE
    OBVIOUS
  <2>2. pc = "release" /\ step' = step
    BY <2>1 DEF Release, tick
  <2>3. lock = "manual" /\ lock = "scheduler"
    BY <2>2 DEF IInv, LockOwners
  <2>4. QED
    BY <2>3
<1>3. UNCHANGED worker
  BY Zenon, <1>1, <1>2 DEF Next, vars, Request, WorkerStep, TickStep, DeskStep, worker, StartPlan, PlanReady, PlanEnds,
       Prepare, Accept, Expire, Review, Intent, Remove, EnableSync, Prepared, Confirm, TakeLock, Dispatch, Refuse,
       ChildReports, ChildTimesOut, ChildWrites, Finish, Answered, Restart, Reap, Crash, Tick, Evaluate,
       SchedStart, SchedCheck, SchedWrites, SchedEnds, SchedFinish, TickEnds, SchedCrash, IntentLock,
       AcceptBaseline, RefuseBaseline
<1>4. QED
  BY <1>1, <1>3 DEF Late, worker

\* What a cleared tick may find in its source's history that was not there before.
LEMMA TickFinds ==
  ASSUME TypeOK, IInv, [Next]_vars, step' \in {"cleared", "writing"}, NEW r \in Blocking(ssrc)'
  PROVE  /\ runs'[r].trigger = "manual" \/ runs'[r].trigger = runs[r].trigger
         /\ \/ r \in Blocking(ssrc) /\ runs'[r].trigger = runs[r].trigger
            \/ Finish /\ Late /\ r = run /\ src = ssrc /\ runs'[r].trigger = "manual"
<1>1. ssrc' = ssrc /\ step \in {"started", "cleared", "writing"}
  BY TickGoesOn
<1>2. ~AcceptBaseline /\ ~SchedFinish
  BY <1>1 DEF IInv, LockOwners, AcceptBaseline, SchedFinish
<1>3. baseline' = baseline
  BY <1>2, BaselineFixed
<1>4. /\ r \in Run /\ runs'[r].source = ssrc /\ runs'[r].status = "OUTCOME_UNCERTAIN"
      /\ baseline[r] = 0
  BY <1>1, <1>3 DEF Blocking, Of
<1>5. CASE runs[r].status = "OUTCOME_UNCERTAIN"
  <2>1. runs'[r].source = runs[r].source /\ runs'[r].trigger = runs[r].trigger
    BY <1>4, <1>5, RowHistory
  <2>2. QED
    BY <1>4, <1>5, <2>1 DEF Blocking, Of
<1>6. CASE runs[r].status # "OUTCOME_UNCERTAIN"
  <2>1. Finish
    BY <1>2, <1>4, <1>6, RowHistory
  <2>2. /\ pc = "finish" /\ run \in Run /\ runs[run].status = "RUNNING"
        /\ runs[run].trigger = "manual" /\ runs[run].source = src
    BY <2>1 DEF Finish, IInv, WorkerRow
  <2>3. PICK o \in Terminal : /\ FinishRun(run, o, gen)
                              /\ o = outcome \/ outcome = "SUCCEEDED"
    <3>1. outcome \in Terminal /\ "OUTCOME_UNCERTAIN" \in Terminal
      BY DEF TypeOK, Terminal
    <3>2. ~UNCHANGED history
      BY <1>4, <1>6 DEF history
    <3>3. QED
      BY <2>1, <3>1, <3>2 DEF Finish
  <2>4. gen \in 0..MaxPlans
    BY DEF TypeOK
  <2>5. /\ \A q \in Run : q # run => runs'[q] = runs[q]
        /\ runs'[run].source = runs[run].source /\ runs'[run].trigger = runs[run].trigger
        /\ runs'[run].status = o
    BY <2>2, <2>3, <2>4, FinishEffect
  <2>6. r = run
    BY <1>4, <1>6, <2>5
  <2>7. QED
    BY <1>4, <2>1, <2>2, <2>3, <2>5, <2>6 DEF Late
<1>7. QED
  BY <1>5, <1>6

\* A cleared tick meets no unresolved outcome but the one that is recorded late.
LEMMA LateKept ==
  ASSUME TypeOK, IInv, [Next]_vars, LateRow, LateOnce
  PROVE  LateRow' /\ LateOnce' /\ TickMeets
<1>1. ASSUME step' \in {"cleared", "writing"}, step = "started" PROVE Blocking(ssrc)' = {}
  <2>1. SchedCheck /\ ssrc' = ssrc /\ step # step'
    BY <1>1, TickGoesOn
  <2>2. Blocking(ssrc) = {}
    BY <1>1, <2>1 DEF SchedCheck, ReconciliationRequired
  <2>3. ~Finish
    BY <2>1 DEF Finish, tick
  <2>4. QED
    BY <1>1, <2>2, <2>3, TickFinds
<1>2. ASSUME step' \in {"cleared", "writing"}, step # "started"
      PROVE  step \in {"cleared", "writing"} /\ ssrc' = ssrc /\ srun' = srun
  BY <1>2, TickGoesOn
<1>3. TickMeets
  BY <1>1, TickFinds DEF TickMeets
<1>4. LateOnce'
  <2> SUFFICES ASSUME step' \in {"cleared", "writing"}
               PROVE  /\ \A r \in Blocking(ssrc)' : runs'[r].trigger = "manual" /\ r < srun'
                      /\ \A q, r \in Blocking(ssrc)' : q = r
    BY DEF LateOnce
  <2>1. CASE step = "started"
    BY <1>1, <2>1
  <2>2. CASE step # "started" /\ Finish /\ Late /\ src = ssrc
    <3>1. run < srun /\ Blocking(ssrc) = {} /\ srun' = srun
      BY <1>2, <2>2 DEF LateRow
    <3>2. \A r \in Blocking(ssrc)' : r = run /\ runs'[r].trigger = "manual"
      BY <3>1, TickFinds
    <3>3. QED
      BY <3>1, <3>2
  <2>3. CASE step # "started" /\ ~(Finish /\ Late /\ src = ssrc)
    <3>1. \A r \in Blocking(ssrc)' : r \in Blocking(ssrc) /\ runs'[r].trigger = runs[r].trigger
      BY <2>3, TickFinds
    <3>2. QED
      BY <1>2, <2>3, <3>1 DEF LateOnce
  <2>4. QED
    BY <2>1, <2>2, <2>3
<1>5. LateRow'
  <2> SUFFICES ASSUME step' \in {"started", "cleared", "writing"}, Late'
               PROVE  /\ run' < srun'
                      /\ step' # "started" /\ src' = ssrc' => Blocking(ssrc)' = {}
    BY DEF LateRow
  <2>1. Late /\ src' = src /\ run' = run /\ pc = "finish" /\ ~Finish
    BY LateStays DEF Late, Finish, Answered
  <2>2. CASE step' = "started"
    <3>1. CASE \E s \in Source : StartRun(s, "scheduled") /\ srun' = started'
      <4>1. started' = started + 1 /\ started \in Nat
        BY <3>1, SMTT(30) DEF StartRun, TypeOK
      <4>2. run \in Run /\ runs[run].status = "RUNNING"
        BY <2>1 DEF IInv, WorkerRow
      <4>3. ~(run > started) /\ run \in Nat
        BY <4>2, SMTT(30) DEF IInv, UnusedRows, Run
      <4>4. run < started'
        BY <4>1, <4>3, SMTT(30)
      <4>5. QED
        BY <2>1, <2>2, <3>1, <4>4
    <3>2. CASE step = "started" /\ srun' = srun
      BY <2>1, <2>2, <3>2 DEF LateRow
    <3>3. QED
      BY <2>2, <3>1, <3>2, StartedTick
  <2>3. CASE step' \in {"cleared", "writing"}
    <3>1. step \in {"started", "cleared", "writing"} /\ ssrc' = ssrc /\ srun' = srun
      BY <2>3, TickGoesOn
    <3>2. run < srun
      BY <2>1, <3>1 DEF LateRow
    <3>3. ASSUME src = ssrc, step # "started" PROVE Blocking(ssrc)' = {}
      <4>1. Blocking(ssrc) = {}
        BY <2>1, <3>1, <3>3 DEF LateRow
      <4>2. QED
        BY <2>1, <2>3, <4>1, TickFinds
    <3>4. QED
      BY <1>1, <2>1, <2>3, <3>1, <3>2, <3>3
  <2>4. QED
    BY <2>2, <2>3
<1>6. QED
  BY <1>3, <1>4, <1>5

\* SyncRuns keeps its types.
THEOREM RunsTypeCorrect == Spec => []TypeOK
<1>1. Init => TypeOK /\ IInv
  BY Initial
<1>2. TypeOK /\ IInv /\ [Next]_vars => TypeOK' /\ IInv'
  BY TypeStep, Preserved
<1>3. QED
  BY <1>1, <1>2, PTL DEF Spec

\* The inductive invariant holds in every state.
THEOREM RunsInvariant == Spec => []IInv
<1>1. Init => TypeOK /\ IInv
  BY Initial
<1>2. TypeOK /\ IInv /\ [Next]_vars => TypeOK' /\ IInv'
  BY TypeStep, Preserved
<1>3. QED
  BY <1>1, <1>2, PTL DEF Spec

\* finish_run() never records an outcome that denies writes which were begun,
\* whatever crashes, timeouts, surviving children and lost updates come.
THEOREM OutcomesHonest == Spec => []HonestOutcome
<1>1. IInv => HonestOutcome
  BY DEF IInv
<1>2. QED
  BY <1>1, RunsInvariant, PTL

\* A plan generation is dispatched to a manual writer at most once.
THEOREM PlansUsedOnce == Spec => []PlanOnce
<1>1. IInv => PlanOnce
  BY DEF IInv
<1>2. QED
  BY <1>1, RunsInvariant, PTL

\* As long as the worker lives, its child keeps everybody else off apply.lock.
THEOREM WritersLocked == Spec => []WriterHoldsLock
<1>1. IInv => WriterHoldsLock
  BY DEF IInv, LockOwners, WriterHoldsLock
<1>2. QED
  BY <1>1, RunsInvariant, PTL

\* A removed source has no run in flight, no unresolved outcome and no writer.
THEOREM RemovalsSettled == Spec => []RemovedSettled
<1>1. IInv => RemovedSettled
  BY DEF IInv
<1>2. QED
  BY <1>1, RunsInvariant, PTL

\* While a manual writer is at work no run of its source is on record as uncertain.
THEOREM ManualGuard == Spec => []ManualHistory
<1>1. Init => TypeOK /\ IInv
  BY Initial
<1>2. Init => ManualHistory /\ ScheduleWaits
  BY DEF Init, ManualHistory, ScheduleWaits
<1>3. TypeOK /\ IInv /\ ManualHistory /\ ScheduleWaits /\ [Next]_vars
        => TypeOK' /\ IInv' /\ ManualHistory' /\ ScheduleWaits'
  BY TypeStep, Preserved, GuardsKept
<1>4. QED
  BY <1>1, <1>2, <1>3, PTL DEF Spec

\* After an accepted baseline no scheduled writer runs before a manual success.
THEOREM ScheduleGuard == Spec => []ScheduleWaits
<1>1. Init => TypeOK /\ IInv
  BY Initial
<1>2. Init => ManualHistory /\ ScheduleWaits
  BY DEF Init, ManualHistory, ScheduleWaits
<1>3. TypeOK /\ IInv /\ ManualHistory /\ ScheduleWaits /\ [Next]_vars
        => TypeOK' /\ IInv' /\ ManualHistory' /\ ScheduleWaits'
  BY TypeStep, Preserved, GuardsKept
<1>4. QED
  BY <1>1, <1>2, <1>3, PTL DEF Spec

\* Every writer is cleared: the child holds apply.lock, a manual one has no uncertain
\* run beside it, a scheduled one no unconfirmed baseline behind it and no uncertain
\* run beside it but one manual run that had given the lock back before the tick.
THEOREM WritersAreCleared == Spec => WritersCleared
<1>1. Init => LateRow /\ LateOnce
  BY DEF Init, LateRow, LateOnce
<1>2. TypeOK /\ IInv /\ LateRow /\ LateOnce /\ [Next]_vars => LateRow' /\ LateOnce' /\ [TickMeets]_vars
  BY LateKept
<1>3. Spec => []LateOnce /\ [][TickMeets]_vars
  BY <1>1, <1>2, RunsTypeCorrect, RunsInvariant, PTL DEF Spec
<1>4. QED
  BY <1>3, WritersLocked, ManualGuard, ScheduleGuard, PTL DEF WritersCleared, TickHistory

-----------------------------------------------------------------------------
(* Only the plan's own steps and an accepted baseline touch its slot.      *)
LEMMA PlansKept == ASSUME Next,
                          \A s \in Source : ~StartPlan(s) /\ ~PlanReady(s) /\ ~PlanEnds(s),
                          ~AcceptBaseline
                   PROVE  UNCHANGED <<slot, made>>
<1> USE DEF plans
<1>1. ASSUME NEW s \in Source, Request(s) PROVE UNCHANGED <<slot, made>>
  BY <1>1 DEF Request, Prepare, Accept, Expire, Review, Intent, Remove, EnableSync
<1>2. CASE WorkerStep
  BY <1>2 DEF WorkerStep, Prepared, Confirm, TakeLock, Dispatch, Refuse, ChildReports, ChildTimesOut, Release, Finish,
              Restart
<1>3. CASE ChildWrites \/ Reap \/ Crash
  BY <1>3 DEF ChildWrites, Reap, Crash
<1>4. CASE Tick \/ TickStep \/ SchedWrites \/ SchedCrash
  BY <1>4 DEF Tick, TickStep, Evaluate, SchedCheck, SchedEnds, SchedFinish, TickEnds, SchedStart, SchedWrites, SchedCrash
<1>5. CASE DeskStep
  BY <1>5 DEF DeskStep, IntentLock, RefuseBaseline
<1>6. QED
  BY <1>1, <1>2, <1>3, <1>4, <1>5 DEF Next

\* A step of this module is a step of the slot's contract, or invisible in it.
LEMMA PlanSlotStep == ASSUME TypeOK, [Next]_vars PROVE [Slots!Next]_(Slots!vars)
<1>1. ASSUME NEW s \in Source, StartPlan(s) PROVE Slots!Begin(s)
  BY <1>1, SMTT(30) DEF StartPlan, TypeOK, Slots!Begin
<1>2. ASSUME NEW s \in Source, PlanReady(s) PROVE Slots!Publish(s)
  BY <1>2 DEF PlanReady, Slots!Publish
<1>3. ASSUME NEW s \in Source, PlanEnds(s) PROVE Slots!End({s})
  BY <1>3 DEF PlanEnds, TypeOK, Slots!End
<1>4. CASE AcceptBaseline
  <2>1. dsrc \in Source /\ slot[dsrc] # "running" /\ UNCHANGED made
        /\ slot' = [slot EXCEPT ![dsrc] = IF @ = "published" THEN "ended" ELSE @]
    BY <1>4 DEF AcceptBaseline, Acceptable, TypeOK
  <2>2. CASE slot[dsrc] = "published"
    <3>1. Slots!End({dsrc})
      BY <2>1, <2>2 DEF TypeOK, Slots!End
    <3>2. QED
      BY <2>1, <3>1 DEF Slots!Next
  <2>3. CASE slot[dsrc] # "published"
    <3>1. slot' = slot
      BY <2>1, <2>3 DEF TypeOK
    <3>2. QED
      BY <2>1, <3>1 DEF Slots!vars
  <2>4. QED
    BY <2>2, <2>3
<1>5. CASE UNCHANGED <<slot, made>>
  BY <1>5 DEF Slots!vars
<1>6. QED
  <2>1. CASE UNCHANGED vars
    BY <1>5, <2>1 DEF vars
  <2>2. CASE \E s \in Source : StartPlan(s) \/ PlanReady(s) \/ PlanEnds(s)
    <3>1. PICK s \in Source : StartPlan(s) \/ PlanReady(s) \/ PlanEnds(s)
      BY <2>2
    <3>2. {s} \in SUBSET Source
      OBVIOUS
    <3>3. QED
      BY <1>1, <1>2, <1>3, <3>1, <3>2 DEF Slots!Next
  <2>3. QED
    BY <1>4, <1>5, <2>1, <2>2, PlansKept

\* The PLAN slot that the runs read is the one source_operations promises: SyncRuns
\* assumes nothing of a plan that SourceOperations was not shown to keep.
THEOREM PlanSlotRefined == Spec => PlanSlotContract
<1>1. Init => Slots!Init
  BY DEF Init, Slots!Init
<1>2. TypeOK /\ [Next]_vars => [Slots!Next]_(Slots!vars)
  BY PlanSlotStep
<1>3. QED
  BY <1>1, <1>2, RunsTypeCorrect, PTL DEF Spec, PlanSlotContract, Slots!Spec
=============================================================================
