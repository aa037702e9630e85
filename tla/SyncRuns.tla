------------------------------ MODULE SyncRuns ------------------------------
(***************************************************************************)
(* Synchronization runs and everybody who shares the global apply.lock:    *)
(* the manual apply worker and its writer child (apply_worker.py,          *)
(* child_process.py, worker_supervisor.py), the scheduler tick             *)
(* (scripts/run-scheduled-sync.sh, orchestrator.py), the acceptance of a   *)
(* baseline after an uncertain outcome (run_reconciliation.py) and the     *)
(* removal of a source (source_lifecycle.py), with the durable history     *)
(* they write (run_history.py).                                            *)
(*                                                                         *)
(* The apply worker serves one request at a time.  The source gate is held *)
(* between two actions only by its review_guard, so that the gate of s is  *)
(* busy exactly while the worker prepares or applies a plan of s.          *)
(***************************************************************************)
EXTENDS Naturals, FiniteSets

CONSTANTS Source,      \* registered sources
          MaxRuns,     \* bound: rows of sync_runs
          MaxPlans,    \* bound: PLAN generations of one source
          MaxTokens,   \* bound: confirmation tokens in memory for one plan
          MaxCrashes,  \* bound: times the apply worker or the scheduler dies
          MaxLost      \* bound: finish_run calls lost to the database

ASSUME RunsAssumption == /\ Source # {}
                         /\ MaxRuns \in Nat
                         /\ MaxPlans \in Nat
                         /\ MaxTokens \in Nat
                         /\ MaxCrashes \in Nat
                         /\ MaxLost \in Nat

VARIABLES runs,        \* runs[r]: row r of sync_runs, in the order of started_at
          started,     \* number of rows
          baseline,    \* baseline[r]: 0, or 1 + the rows there were when r was reconciled
          slot, made,  \* PLAN slot of a source: phase and latest generation
          sync,        \* sync[s]: on, off, or removed
          tokens,      \* tokens[s][g]: live confirmations of generation g
          lock,        \* who has apply.lock
          fd, reaper,  \* the worker's lock descriptor, and its duplicate in a reaper
          pc, src, gen, run, outcome,       \* the apply worker's request
          child, writer,                    \* its child, and the run the child works for
          step, due, ssrc, sgen, srun, sout, \* the scheduler tick
          desk, dsrc, seen,                 \* baseline acceptance: step, source, reviewed runs
          crashes, lost

history == <<runs, started, baseline>>
plans == <<slot, made>>
worker == <<pc, src, gen, run, outcome>>
process == <<child, writer>>
locks == <<lock, fd, reaper>>
tick == <<step, due, ssrc, sgen, srun, sout>>
decision == <<desk, dsrc, seen>>
faults == <<crashes, lost>>
vars == <<runs, started, baseline, slot, made, sync, tokens, lock, fd, reaper, pc, src, gen, run,
          outcome, child, writer, step, due, ssrc, sgen, srun, sout, desk, dsrc, seen, crashes, lost>>

Run == 1..MaxRuns
Plan == 1..MaxPlans
Terminal == {"SUCCEEDED", "FAILED_BEFORE_WRITE", "OUTCOME_UNCERTAIN", "BLOCKED", "LOCKED", "FAILED"}
\* writes is not a column: whether a writer was dispatched, and has passed before_write.
Row == [source : Source, trigger : {"manual", "scheduled"}, status : Terminal \cup {"NONE", "RUNNING"},
        plan : 0..MaxPlans, writes : {"none", "dispatched", "begun"}]
AnySource == CHOOSE s \in Source : TRUE
NoRow == [source |-> AnySource, trigger |-> "manual", status |-> "NONE", plan |-> 0, writes |-> "none"]

TypeOK == /\ runs \in [Run -> Row]
          /\ started \in 0..MaxRuns
          /\ baseline \in [Run -> 0..MaxRuns + 1]
          /\ slot \in [Source -> {"empty", "running", "published", "ended"}]
          /\ made \in [Source -> 0..MaxPlans]
          /\ sync \in [Source -> {"on", "off", "removed"}]
          /\ tokens \in [Source -> [Plan -> 0..MaxTokens]]
          /\ lock \in {"free", "manual", "scheduler", "lifecycle"}
          /\ fd \in {"open", "closed"}
          /\ reaper \in {"none", "waiting"}
          /\ pc \in {"idle", "prepare", "accepted", "confirmed", "locked", "child", "release",
                     "finish", "down"}
          /\ src \in Source
          /\ gen \in 0..MaxPlans
          /\ run \in 0..MaxRuns
          /\ outcome \in Terminal
          /\ child \in {"none", "replan", "writing"}
          /\ writer \in 0..MaxRuns
          /\ step \in {"idle", "checking", "tick", "started", "cleared", "writing", "finish"}
          /\ due \in SUBSET Source
          /\ ssrc \in Source
          /\ sgen \in 0..MaxPlans
          /\ srun \in 0..MaxRuns
          /\ sout \in Terminal
          /\ desk \in {"idle", "intent", "locked"}
          /\ dsrc \in Source
          /\ seen \in [Source -> SUBSET Run]
          /\ crashes \in 0..MaxCrashes
          /\ lost \in 0..MaxLost

Init == /\ runs = [r \in Run |-> NoRow]
        /\ started = 0
        /\ baseline = [r \in Run |-> 0]
        /\ slot = [s \in Source |-> "empty"]
        /\ made = [s \in Source |-> 0]
        /\ sync = [s \in Source |-> "on"]
        /\ tokens = [s \in Source |-> [g \in Plan |-> 0]]
        /\ lock = "free" /\ fd = "closed" /\ reaper = "none"
        /\ pc = "idle" /\ src = AnySource /\ gen = 0 /\ run = 0 /\ outcome = "FAILED"
        /\ child = "none" /\ writer = 0
        /\ step = "idle" /\ due = {} /\ ssrc = AnySource /\ sgen = 0 /\ srun = 0 /\ sout = "FAILED"
        /\ desk = "idle" /\ dsrc = AnySource /\ seen = [s \in Source |-> {}]
        /\ crashes = 0 /\ lost = 0

-----------------------------------------------------------------------------
(* The history and its views.                                              *)

Of(s, r) == runs[r].source = s /\ runs[r].status # "NONE"
Active(s) == \E r \in Run : Of(s, r) /\ runs[r].status = "RUNNING"
\* blocking_sync_runs: uncertain runs no valid reconciliation covers.
Blocking(s) == {r \in Run : Of(s, r) /\ runs[r].status = "OUTCOME_UNCERTAIN" /\ baseline[r] = 0}
ReconciliationRequired(s) == Blocking(s) # {}
\* recovery_schedule_blocks: an accepted baseline that no manual run started
\* later has followed with success.
ScheduleBlocked(s) ==
    \E r \in Run : /\ Of(s, r)
                   /\ baseline[r] # 0
                   /\ \A q \in Run : ~ /\ Of(s, q)
                                       /\ runs[q].trigger = "manual"
                                       /\ runs[q].status = "SUCCEEDED"
                                       /\ q >= baseline[r]
PlanUsed(s, g) == \E r \in Run : Of(s, r) /\ runs[r].plan = g
GateFree(s) == ~(pc \in {"prepare", "child"} /\ src = s)
Registered(s) == sync[s] # "removed"
PlanIsCurrent(s, g) == slot[s] = "published" /\ made[s] = g

\* Faulty variant: a used plan is accepted again.
ApplicableUsed(s, g) == Registered(s) /\ PlanIsCurrent(s, g) /\ ~ReconciliationRequired(s)

\* review_guard and _unused: what prepare and apply ask of a plan.
Applicable(s, g) == /\ Registered(s)
                    /\ PlanIsCurrent(s, g)
                    /\ ~ReconciliationRequired(s)
                    /\ ~PlanUsed(s, g)

\* start_run(): the INSERT, refused by its trigger for a source that is removed.
StartRun(s, trigger) ==
    /\ started < MaxRuns
    /\ GateFree(s)
    /\ Registered(s)
    /\ started' = started + 1
    /\ runs' = [runs EXCEPT ![started + 1] = [source |-> s, trigger |-> trigger, status |-> "RUNNING",
                                              plan |-> 0, writes |-> "none"]]
    /\ UNCHANGED baseline

\* finish_run(): WHERE status='RUNNING', and a plan that was bound stays bound.
FinishRun(r, status, g) ==
    /\ runs' = [runs EXCEPT ![r].status = IF @ = "RUNNING" THEN status ELSE @,
                            ![r].plan = IF @ = 0 THEN g ELSE @]
    /\ UNCHANGED <<started, baseline>>

-----------------------------------------------------------------------------
(* The PLAN slot of a source, as SourceOperations leaves it to a reader.   *)

StartPlan(s) == /\ GateFree(s)
                /\ Registered(s)
                /\ slot[s] # "running"
                /\ made[s] < MaxPlans
                /\ slot' = [slot EXCEPT ![s] = "running"]
                /\ made' = [made EXCEPT ![s] = @ + 1]
                /\ UNCHANGED <<history, sync, tokens, locks, worker, process, tick, decision, faults>>

PlanReady(s) == /\ slot[s] = "running"
                /\ slot' = [slot EXCEPT ![s] = "published"]
                /\ UNCHANGED <<history, made, sync, tokens, locks, worker, process, tick, decision, faults>>

PlanEnds(s) == /\ slot[s] \in {"running", "published"}
               /\ slot' = [slot EXCEPT ![s] = "ended"]
               /\ UNCHANGED <<history, made, sync, tokens, locks, worker, process, tick, decision, faults>>

-----------------------------------------------------------------------------
(* The apply worker.                                                       *)

\* The request is answered.
Answered == pc' = "idle" /\ src' = AnySource /\ gen' = 0 /\ run' = 0 /\ outcome' = "FAILED"

\* prepare(): the gate, the history, then the plan child recomputes the plan.
Prepare(s, g) == /\ pc = "idle"
                 /\ Applicable(s, g)
                 /\ pc' = "prepare" /\ src' = s /\ gen' = g
                 /\ UNCHANGED <<history, plans, sync, tokens, locks, run, outcome, process, tick, decision, faults>>

\* The recomputed plan has the reviewed digest and a token is issued, or not.
Prepared == /\ pc = "prepare"
            /\ Answered
            /\ \/ /\ tokens[src][gen] < MaxTokens
                  /\ tokens' = [tokens EXCEPT ![src][gen] = @ + 1]
               \/ UNCHANGED tokens
            /\ UNCHANGED <<history, plans, sync, locks, process, tick, decision, faults>>

\* A confirmation that is never used expires after 300 seconds.
Expire(s, g) == /\ tokens[s][g] > 0
                /\ tokens' = [tokens EXCEPT ![s][g] = @ - 1]
                /\ UNCHANGED <<history, plans, sync, locks, worker, process, tick, decision, faults>>

\* apply(): the run is recorded before anything is checked.
Accept(s, g) == /\ pc = "idle"
                /\ StartRun(s, "manual")
                /\ pc' = "accepted" /\ src' = s /\ gen' = g /\ run' = started'
                /\ UNCHANGED <<plans, sync, tokens, locks, outcome, process, tick, decision, faults>>

\* The token is consumed, or CONFIRMATION_INVALID / _EXPIRED ends the attempt.
Confirm == /\ pc = "accepted"
           /\ \/ /\ tokens[src][gen] > 0
                 /\ tokens' = [tokens EXCEPT ![src][gen] = @ - 1]
                 /\ pc' = "confirmed"
                 /\ UNCHANGED <<gen, outcome>>
              \/ /\ tokens[src][gen] = 0
                 /\ pc' = "finish" /\ outcome' = "FAILED" /\ gen' = 0
                 /\ UNCHANGED tokens
           /\ UNCHANGED <<history, plans, sync, locks, src, run, process, tick, decision, faults>>

\* flock LOCK_EX | LOCK_NB.
TakeLock == /\ pc = "confirmed"
            /\ \/ /\ lock = "free"
                  /\ lock' = "manual" /\ fd' = "open" /\ pc' = "locked"
                  /\ UNCHANGED outcome
               \/ /\ lock # "free"
                  /\ pc' = "finish" /\ outcome' = "LOCKED"
                  /\ UNCHANGED <<lock, fd>>
            /\ UNCHANGED <<history, plans, sync, tokens, reaper, src, gen, run, process, tick, decision, faults>>

\* review_guard, _unused, bind_plan, and the child starts.
Dispatch == /\ pc = "locked"
            /\ Applicable(src, gen)
            /\ runs' = [runs EXCEPT ![run].plan = gen, ![run].writes = "dispatched"]
            /\ pc' = "child" /\ child' = "replan" /\ writer' = run
            /\ UNCHANGED <<started, baseline, plans, sync, tokens, locks, src, gen, run, outcome,
                           tick, decision, faults>>

\* PLAN_BLOCKED for an unresolved history, PLAN_STALE for the rest, APPLY_FAILED
\* when the database does not answer.
Refuse == /\ pc = "locked"
          /\ \/ outcome' = "FAILED"
             \/ /\ Registered(src)
                /\ PlanIsCurrent(src, gen)
                /\ ReconciliationRequired(src)
                /\ outcome' = "BLOCKED"
          /\ pc' = "release"
          /\ UNCHANGED <<history, plans, sync, tokens, locks, src, gen, run, process, tick, decision, faults>>

\* execute_child(): before_write, the last step that is not a write.
ChildWrites == /\ child = "replan"
               /\ child' = "writing"
               /\ runs' = [runs EXCEPT ![writer].writes = "begun"]
               /\ UNCHANGED <<started, baseline, plans, sync, tokens, locks, worker, writer, tick, decision, faults>>

\* Faulty variant: a child that fails is taken to have written nothing.
ReportedHopeful == {"FAILED_BEFORE_WRITE", "BLOCKED", "FAILED", "OUTCOME_UNCERTAIN", "SUCCEEDED"}

\* What the child says of itself, and what _child makes of a child that dies, exits
\* with an error or answers nonsense.
Reported == IF child = "writing" THEN {"SUCCEEDED", "OUTCOME_UNCERTAIN"}
            ELSE {"FAILED_BEFORE_WRITE", "BLOCKED", "FAILED", "OUTCOME_UNCERTAIN"}

ChildReports == /\ pc = "child"
                /\ outcome' \in Reported
                /\ pc' = "release"
                /\ child' = "none" /\ writer' = 0
                /\ UNCHANGED <<history, plans, sync, tokens, locks, src, gen, run, tick, decision, faults>>

\* The 300 seconds are over: stop_child kills the child and collects it within two
\* seconds, or leaves it to a reaper that owns a duplicate of the lock descriptor.
ChildTimesOut == /\ pc = "child"
                 /\ outcome' = "OUTCOME_UNCERTAIN"
                 /\ pc' = "release"
                 /\ \/ child' = "none" /\ writer' = 0 /\ UNCHANGED reaper
                    \/ reaper' = "waiting" /\ UNCHANGED process
                 /\ UNCHANGED <<history, plans, sync, tokens, lock, fd, src, gen, run,
                                tick, decision, faults>>

\* Faulty variant: the reaper forgets to close its duplicate.
ReapKeeps == /\ reaper = "waiting"
             /\ child' = "none" /\ writer' = 0
             /\ UNCHANGED <<history, plans, sync, tokens, locks, worker, tick, decision, faults>>

\* _deferred_reap(): the surviving child is gone, and so is the duplicate.
Reap == /\ reaper = "waiting"
        /\ child' = "none" /\ writer' = 0
        /\ reaper' = "none"
        /\ lock' = IF fd = "open" THEN lock ELSE "free"
        /\ UNCHANGED <<history, plans, sync, tokens, fd, worker, tick, decision, faults>>

\* os.close(lock_fd), before the outcome is recorded.
Release == /\ pc = "release"
           /\ fd' = "closed"
           /\ lock' = IF reaper = "waiting" THEN lock ELSE "free"
           /\ pc' = "finish"
           /\ UNCHANGED <<history, plans, sync, tokens, reaper, src, gen, run, outcome, process,
                          tick, decision, faults>>

\* finish_run.  When the success cannot be recorded the second attempt says that
\* the outcome is uncertain.
Finish == /\ pc = "finish"
          /\ \/ FinishRun(run, outcome, gen) /\ UNCHANGED lost
             \/ /\ lost < MaxLost
                /\ lost' = lost + 1
                /\ outcome = "SUCCEEDED"
                /\ FinishRun(run, "OUTCOME_UNCERTAIN", gen)
             \/ /\ lost < MaxLost
                /\ lost' = lost + 1
                /\ UNCHANGED history
          /\ Answered
          /\ UNCHANGED <<plans, sync, tokens, locks, process, tick, decision, crashes>>

\* The worker dies: memory and descriptors are gone, the child is not.
Crash == /\ pc # "down"
         /\ crashes < MaxCrashes
         /\ crashes' = crashes + 1
         /\ pc' = "down" /\ src' = AnySource /\ gen' = 0 /\ run' = 0 /\ outcome' = "FAILED"
         /\ tokens' = [s \in Source |-> [g \in Plan |-> 0]]
         /\ fd' = "closed" /\ reaper' = "none"
         /\ lock' = IF lock = "manual" THEN "free" ELSE lock
         /\ UNCHANGED <<history, plans, sync, process, tick, decision, lost>>

\* The bundle supervisor kills what is left of the group; Docker starts it again.
Restart == /\ pc = "down"
           /\ child' = "none" /\ writer' = 0
           /\ pc' = "idle"
           /\ UNCHANGED <<history, plans, sync, tokens, locks, src, gen, run, outcome, tick, decision, faults>>

-----------------------------------------------------------------------------
(* The scheduler tick: run-scheduled-sync.sh around run_sources.           *)

\* The shared flock on the intent file, then apply.lock.
Tick == /\ step = "idle"
        /\ desk = "idle"
        /\ lock = "free"
        /\ lock' = "scheduler"
        /\ step' = "checking"
        /\ UNCHANGED <<history, plans, sync, tokens, fd, reaper, worker, process, due, ssrc, sgen, srun, sout,
                       decision, faults>>

\* The intent is checked again under the lock; then the due sources are read.
Evaluate == /\ step = "checking"
            /\ IF desk = "idle"
               THEN /\ due' \in SUBSET {s \in Source : sync[s] = "on"}
                    /\ step' = "tick"
                    /\ UNCHANGED lock
               ELSE /\ step' = "idle"
                    /\ lock' = "free"
                    /\ UNCHANGED due
            /\ UNCHANGED <<history, plans, sync, tokens, fd, reaper, worker, process, ssrc, sgen, srun, sout,
                           decision, faults>>

\* start_run of the next source.  Without a row the source is skipped.
SchedStart(s) ==
    /\ step = "tick"
    /\ s \in due
    /\ due' = due \ {s}
    /\ \/ /\ StartRun(s, "scheduled")
          /\ step' = "started" /\ ssrc' = s /\ srun' = started'
          /\ sgen' = IF slot[s] = "published" THEN made[s] ELSE 0
       \/ UNCHANGED <<history, step, ssrc, sgen, srun>>
    /\ UNCHANGED <<plans, sync, tokens, locks, worker, process, sout, decision, faults>>

\* Faulty variant: only accepted baselines hold the schedule back.
SchedCheckBaselines == /\ step = "started"
                       /\ IF ScheduleBlocked(ssrc)
                          THEN step' = "finish" /\ sout' = "BLOCKED" /\ sgen' = 0
                          ELSE step' = "cleared" /\ UNCHANGED <<sout, sgen>>
                       /\ UNCHANGED <<history, plans, sync, tokens, locks, worker, process, due, ssrc, srun,
                                      decision, faults>>

\* scheduled_reconciliation_required, before any provider call.
SchedCheck == /\ step = "started"
              /\ IF ReconciliationRequired(ssrc) \/ ScheduleBlocked(ssrc)
                 THEN step' = "finish" /\ sout' = "BLOCKED" /\ sgen' = 0
                 ELSE step' = "cleared" /\ UNCHANGED <<sout, sgen>>
              /\ UNCHANGED <<history, plans, sync, tokens, locks, worker, process, due, ssrc, srun,
                             decision, faults>>

\* mark("apply"): the executor's before_write.
SchedWrites == /\ step = "cleared"
               /\ step' = "writing"
               /\ runs' = [runs EXCEPT ![srun].writes = "begun"]
               /\ UNCHANGED <<started, baseline, plans, sync, tokens, locks, worker, process, due, ssrc, sgen,
                              srun, sout, decision, faults>>

SchedEnds == /\ \/ step = "cleared" /\ sout' \in {"FAILED_BEFORE_WRITE", "BLOCKED", "FAILED"}
                \/ step = "writing" /\ sout' \in {"SUCCEEDED", "OUTCOME_UNCERTAIN"}
             /\ step' = "finish"
             /\ UNCHANGED <<history, plans, sync, tokens, locks, worker, process, due, ssrc, sgen, srun,
                            decision, faults>>

\* The recomputed plan may have the digest of the one that is under review.
SchedFinish == /\ step = "finish"
               /\ \/ \E g \in {0, sgen} : FinishRun(srun, sout, g) /\ UNCHANGED lost
                  \/ /\ lost < MaxLost
                     /\ lost' = lost + 1
                     /\ UNCHANGED history
               /\ step' = "tick" /\ ssrc' = AnySource /\ sgen' = 0 /\ srun' = 0 /\ sout' = "FAILED"
               /\ UNCHANGED <<plans, sync, tokens, locks, worker, process, due, decision, crashes>>

TickEnds == /\ step = "tick"
            /\ due = {}
            /\ step' = "idle"
            /\ lock' = "free"
            /\ UNCHANGED <<history, plans, sync, tokens, fd, reaper, worker, process, due, ssrc, sgen, srun, sout,
                           decision, faults>>

SchedCrash == /\ step # "idle"
              /\ crashes < MaxCrashes
              /\ crashes' = crashes + 1
              /\ step' = "idle" /\ due' = {} /\ ssrc' = AnySource /\ sgen' = 0 /\ srun' = 0 /\ sout' = "FAILED"
              /\ lock' = "free"
              /\ UNCHANGED <<history, plans, sync, tokens, fd, reaper, worker, process, decision, lost>>

-----------------------------------------------------------------------------
(* Baseline acceptance and removal, on the lifecycle worker.               *)

\* review(): what the operator sees, read under the intent and the lock.
Review(s) == /\ desk = "idle"
             /\ lock = "free"
             /\ GateFree(s)
             /\ ~Active(s)
             /\ slot[s] # "running"
             /\ seen' = [seen EXCEPT ![s] = Blocking(s)]
             /\ UNCHANGED <<history, plans, sync, tokens, locks, worker, process, tick, desk, dsrc, faults>>

\* confirm(): the intent keeps new ticks away while it waits for the lock.
Intent(s) == /\ desk = "idle"
             /\ seen[s] # {}
             /\ desk' = "intent" /\ dsrc' = s
             /\ UNCHANGED <<history, plans, sync, tokens, locks, worker, process, tick, seen, faults>>

\* The lock comes free within ten seconds, or SOURCE_APPLY_ACTIVE.
IntentLock == /\ desk = "intent"
              /\ \/ /\ lock = "free"
                    /\ lock' = "lifecycle" /\ desk' = "locked"
                 \/ /\ lock # "free"
                    /\ desk' = "idle"
                    /\ UNCHANGED lock
              /\ UNCHANGED <<history, plans, sync, tokens, fd, reaper, worker, process, tick, dsrc, seen, faults>>

\* _local and _review agree with what the operator reviewed; old_writes_stopped is
\* the operator's word that no child of a listed run is alive.
Acceptable(s) == /\ GateFree(s)
                 /\ Registered(s)
                 /\ ~Active(s)
                 /\ slot[s] # "running"
                 /\ Blocking(s) # {}
                 /\ Blocking(s) = seen[s]
                 /\ child = "none" \/ writer \notin Blocking(s)

AcceptBaseline == /\ desk = "locked"
                  /\ Acceptable(dsrc)
                  /\ baseline' = [r \in Run |-> IF r \in Blocking(dsrc) THEN started + 1 ELSE baseline[r]]
                  /\ sync' = [sync EXCEPT ![dsrc] = "off"]
                  /\ slot' = [slot EXCEPT ![dsrc] = IF @ = "published" THEN "ended" ELSE @]
                  /\ desk' = "idle" /\ lock' = "free"
                  /\ seen' = [seen EXCEPT ![dsrc] = {}]
                  /\ UNCHANGED <<runs, started, made, tokens, fd, reaper, worker, process, tick, dsrc, faults>>

RefuseBaseline == /\ desk = "locked"
                  /\ desk' = "idle" /\ lock' = "free"
                  /\ UNCHANGED <<history, plans, sync, tokens, fd, reaper, worker, process, tick, dsrc, seen, faults>>

\* Faulty variant: removal forgets the runs that are RUNNING.
RemovableActive(s) == lock = "free" /\ GateFree(s) /\ slot[s] # "running" /\ Blocking(s) = {}

\* _remove_locked(): under the apply lock and the gate.
Removable(s) == /\ lock = "free"
                /\ GateFree(s)
                /\ slot[s] # "running"
                /\ ~Active(s)
                /\ Blocking(s) = {}

Remove(s) == /\ Registered(s)
             /\ Removable(s)
             /\ sync' = [sync EXCEPT ![s] = "removed"]
             /\ UNCHANGED <<history, plans, tokens, locks, worker, process, tick, decision, faults>>

\* The schedule worker switches a source on again.
EnableSync(s) == /\ sync[s] = "off"
                 /\ sync' = [sync EXCEPT ![s] = "on"]
                 /\ UNCHANGED <<history, plans, tokens, locks, worker, process, tick, decision, faults>>

-----------------------------------------------------------------------------
WorkerStep == \/ Prepared \/ Confirm \/ TakeLock \/ Dispatch \/ Refuse
              \/ ChildReports \/ ChildTimesOut \/ Release \/ Finish \/ Restart
TickStep == \/ Evaluate \/ SchedCheck \/ SchedEnds \/ SchedFinish \/ TickEnds
            \/ \E s \in Source : SchedStart(s)
DeskStep == IntentLock \/ AcceptBaseline \/ RefuseBaseline
Request(s) == \/ StartPlan(s) \/ PlanReady(s) \/ PlanEnds(s)
              \/ \E g \in Plan : Prepare(s, g) \/ Accept(s, g) \/ Expire(s, g)
              \/ Review(s) \/ Intent(s) \/ Remove(s) \/ EnableSync(s)

Next == \/ \E s \in Source : Request(s)
        \/ WorkerStep \/ ChildWrites \/ Reap \/ Crash
        \/ Tick \/ TickStep \/ SchedWrites \/ SchedCrash
        \/ DeskStep

Spec == Init /\ [][Next]_vars

(* The worker, the tick and the lifecycle worker go on: every child is     *)
(* killed after 300 seconds, a killed child exits, a crashed bundle is     *)
(* restarted.  Requests and ticks themselves need not come.                *)
Fairness == WF_vars(WorkerStep) /\ WF_vars(Reap) /\ WF_vars(TickStep) /\ WF_vars(DeskStep)

FairSpec == Spec /\ Fairness

-----------------------------------------------------------------------------
(* Correctness                                                             *)

NoWrites == {"FAILED_BEFORE_WRITE", "BLOCKED", "LOCKED", "FAILED"}

\* terminal_status(): a run whose recorded outcome says that nothing was written
\* (SAFE_ERROR_MESSAGES, "failed before any changes were written") never passed
\* the write boundary, whatever became of its child.
HonestOutcome == \A r \in Run :
    runs[r].status \in NoWrites => runs[r].writes # "begun"

\* plan_used(): "a later accepted attempt consumes this snapshot even if its reply
\* was lost": at most one writer is ever dispatched for a plan generation, over
\* several confirmation tokens, lost outcomes and restarts of the worker.
PlanOnce == \A q, r \in Run :
    /\ runs[q].trigger = "manual" /\ runs[q].writes # "none"
    /\ runs[r].trigger = "manual" /\ runs[r].writes # "none"
    /\ runs[q].source = runs[r].source
    /\ runs[q].plan = runs[r].plan
    => q = r

\* stop_child(): as long as the apply worker lives, a child that may write holds
\* everybody else off apply.lock, also after its timeout.
WriterHoldsLock == pc # "down" /\ child # "none" => lock = "manual"

\* _remove_locked(): a removed source has no run in flight and no unresolved
\* outcome, and no process that may still write for it.
RemovedSettled == \A s \in Source : ~Registered(s) =>
    /\ ~Active(s)
    /\ Blocking(s) = {}
    /\ child # "none" => runs[writer].source # s
    /\ step \in {"started", "cleared", "writing", "finish"} => ssrc # s

\* _unused() under the lock: while a manual writer is at work, no other run of the
\* source is on record with an uncertain outcome.
ManualHistory == pc = "child" => ~ReconciliationRequired(src)

\* recovery_schedule_blocks: after a baseline was accepted the schedule does not
\* write before a manual run has succeeded.
ScheduleWaits == step \in {"cleared", "writing"} => ~ScheduleBlocked(ssrc)

\* scheduled_reconciliation_required under the lock of the tick: from its check on,
\* the tick of a source meets no unresolved outcome, except that a manual run which
\* had given the lock back (os.close) is recorded only now (finish_run).
Late == pc = "finish" /\ outcome \in {"SUCCEEDED", "OUTCOME_UNCERTAIN"}
TickMeets == step' \in {"cleared", "writing"} =>
    Blocking(ssrc)' \subseteq IF step = "started" THEN {}
                             ELSE Blocking(ssrc) \cup IF Late THEN {run} ELSE {}
TickHistory == [][TickMeets]_vars

\* There is one such outcome at most, and it is of a run older than the tick's.
LateOnce == step \in {"cleared", "writing"} =>
    /\ \A r \in Blocking(ssrc) : runs[r].trigger = "manual" /\ r < srun
    /\ \A q, r \in Blocking(ssrc) : q = r

\* Whoever may write keeps apply.lock, has found no accepted baseline without a
\* manual success, and has found no unresolved outcome: a manual child none at all,
\* its timeout included; a tick none but one that is recorded late.
WritersCleared == [](WriterHoldsLock /\ ManualHistory /\ ScheduleWaits /\ LateOnce) /\ TickHistory

\* apply.lock comes free: neither a child that times out nor one that survives its
\* kill, a crash or an operator keeps it for ever.
LockComesFree == lock # "free" ~> lock = "free"

(* What makes them inductive: who holds apply.lock, and what each process  *)
(* knows of the row it is working on.                                      *)
LockOwners == /\ fd = "open" <=> pc \in {"locked", "child", "release"}
              /\ lock = "manual" <=> fd = "open" \/ reaper = "waiting"
              /\ lock = "scheduler" <=> step # "idle"
              /\ lock = "lifecycle" <=> desk = "locked"
              /\ reaper = "waiting" => pc \notin {"locked", "child", "down"}
              /\ pc = "child" => child # "none" /\ writer = run
              /\ child # "none" /\ pc \notin {"child", "down"} => reaper = "waiting"
UnusedRows == \A r \in Run : /\ r > started <=> runs[r].status = "NONE"
                             /\ runs[r].status = "NONE" => runs[r].writes = "none"
                             /\ baseline[r] # 0 => runs[r].status = "OUTCOME_UNCERTAIN"
                             /\ runs[r].trigger = "manual" /\ runs[r].writes # "none" => runs[r].plan # 0
WorkerRow == pc \in {"accepted", "confirmed", "locked", "child", "release", "finish"} =>
    /\ run \in Run
    /\ runs[run].source = src
    /\ runs[run].trigger = "manual"
    /\ runs[run].status = "RUNNING"
    /\ pc # "finish" => gen # 0
    /\ pc \in {"accepted", "confirmed", "locked"} => runs[run].writes = "none"
    /\ pc \in {"release", "finish"} /\ outcome \in NoWrites => runs[run].writes # "begun"
    /\ child # "none" /\ writer = run =>
         pc = "child" \/ (pc \in {"release", "finish"} /\ outcome = "OUTCOME_UNCERTAIN")
TickRow == step \in {"started", "cleared", "writing", "finish"} =>
    /\ srun \in Run
    /\ runs[srun].source = ssrc
    /\ runs[srun].trigger = "scheduled"
    /\ runs[srun].status = "RUNNING"
    /\ step \in {"started", "cleared"} => runs[srun].writes = "none"
    /\ step = "finish" /\ sout \in NoWrites => runs[srun].writes # "begun"
ChildRow == child # "none" =>
    /\ writer \in Run
    /\ runs[writer].trigger = "manual"
    /\ runs[writer].status \in {"RUNNING", "OUTCOME_UNCERTAIN"}
    /\ runs[writer].writes = IF child = "writing" THEN "begun" ELSE "dispatched"
    /\ baseline[writer] = 0
IInv == /\ LockOwners
        /\ UnusedRows
        /\ WorkerRow
        /\ TickRow
        /\ ChildRow
        /\ HonestOutcome
        /\ PlanOnce
        /\ RemovedSettled

\* What LateOnce needs besides: a run that may yet be recorded late is older than the
\* tick's, and the only one.
LateRow == step \in {"started", "cleared", "writing"} /\ Late =>
    /\ run < srun
    /\ step # "started" /\ src = ssrc => Blocking(ssrc) = {}

\* The PLAN slot of this module keeps the contract that SourceOperations implements.
Slots == INSTANCE OperationSlot WITH Slot <- Source, generation <- made, phase <- slot
PlanSlotContract == Slots!Spec
=============================================================================
