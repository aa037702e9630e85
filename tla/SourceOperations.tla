-------------------------- MODULE SourceOperations --------------------------
(***************************************************************************)
(* The durable read-only operations of netbox-sync: one PLAN and one       *)
(* DISCOVERY slot per source in the table source_operations, driven by     *)
(* request handlers and executors that the discovery worker forks          *)
(* (netbox_sync/source_operations.py, netbox_sync/discovery_worker.py).    *)
(*                                                                         *)
(* A process of Proc is one forked handler or executor.  Every action is   *)
(* one database transaction of such a process, or one statement of an      *)
(* autocommit session; what happens between two of them is interleaved     *)
(* freely.  Transactions that hold the source gate from their first        *)
(* statement to their commit, and take no other lock in between, are one   *)
(* action.  Two advisory locks matter: the source gate (transaction        *)
(* scoped) and the executor lock of a slot (session scoped in execute,     *)
(* transaction scoped in latest and start, one lock space in PostgreSQL).  *)
(***************************************************************************)
EXTENDS Naturals, FiniteSets

CONSTANTS OpSource,  \* registered sources
          Kind,      \* operation kinds
          Proc,      \* forked request handlers and executors
          None,      \* no process
          MaxOps,    \* bound: operations ever started
          MaxSessionsLost \* bound: processes killed or database sessions lost

ASSUME OpsAssumption == /\ MaxOps \in Nat
                        /\ MaxSessionsLost \in Nat
                        /\ None \notin Proc
                        /\ OpSource # {}
                        /\ "PLAN" \in Kind
                        /\ Kind \subseteq {"DISCOVERY", "PLAN"}

Slot == OpSource \X Kind
NoJob == CHOOSE s \in Slot : TRUE  \* of an idle process
Op == 0..MaxOps      \* operation_id; 0 is "no row yet", fresh uuid4s count up

VARIABLES row,    \* row[slot]: the record of source_operations
          executor, \* executor[slot]: owner of the executor advisory lock
          gate,   \* gate[source]: owner of the source gate between actions
          admit,  \* admit[source]: enabled flag and removal request of the source
          at, job, ours, todo, ret,  \* per process: step, slot, operation, lookup work, return
          lastOp, \* last operation_id handed out
          sessionsLost \* sessions lost so far

store == <<row, admit, lastOp>>
opLocks == <<executor, gate>>
local == <<at, job, ours, todo, ret>>
opsVars == <<row, executor, gate, admit, at, job, ours, todo, ret, lastOp, sessionsLost>>

Status == {"NONE", "RUNNING", "READY", "SUCCEEDED", "FAILED", "STALE"}
\* age "late": a RUNNING row untouched for 180 seconds, a finished row older than 24 hours.
OpRow == [op : Op, status : Status, result : {"set", "null"}, age : {"fresh", "late"}]
Todo == [slot : Slot, op : Op, act : {"interrupt", "fail", "expire"}]
Step == {"idle", "lookup", "latest", "start", "spawned", "locked", "running",
         "unlock", "gated", "reviewed"}

OpsTypeOK == /\ row \in [Slot -> OpRow]
             /\ executor \in [Slot -> Proc \cup {None}]
             /\ gate \in [OpSource -> Proc \cup {None}]
             /\ admit \in [OpSource -> {"open", "queued", "closed"}]
             /\ at \in [Proc -> Step]
             /\ job \in [Proc -> Slot]
             /\ ours \in [Proc -> Op]
             /\ todo \in [Proc -> SUBSET Todo]
             /\ ret \in [Proc -> {"idle", "start"}]
             /\ lastOp \in Op
             /\ sessionsLost \in 0..MaxSessionsLost

OpsInit == /\ row = [s \in Slot |-> [op |-> 0, status |-> "NONE", result |-> "null", age |-> "fresh"]]
           /\ executor = [s \in Slot |-> None]
           /\ gate = [s \in OpSource |-> None]
           /\ admit = [s \in OpSource |-> "open"]
           /\ at = [p \in Proc |-> "idle"]
           /\ job = [p \in Proc |-> NoJob]
           /\ ours = [p \in Proc |-> 0]
           /\ todo = [p \in Proc |-> {}]
           /\ ret = [p \in Proc |-> "idle"]
           /\ lastOp = 0
           /\ sessionsLost = 0

Running(s) == row[s].status = "RUNNING"
Current(s, o) == row[s].op = o
SrcOf(p) == job[p][1]
Goto(p, step) == at' = [at EXCEPT ![p] = step]
Return(p) == /\ Goto(p, "idle")
             /\ job' = [job EXCEPT ![p] = NoJob]
             /\ ours' = [ours EXCEPT ![p] = 0]
             /\ todo' = [todo EXCEPT ![p] = {}]
             /\ ret' = [ret EXCEPT ![p] = "idle"]
FreedLocks(p) == [s \in Slot |-> IF executor[s] = p THEN None ELSE executor[s]]
FreedGates(p) == [s \in OpSource |-> IF gate[s] = p THEN None ELSE gate[s]]
\* source_gate: the gate can be taken, and no removal is pending or finished.
SourceGateFree(s) == gate[s] = None
Admitted(s) == admit[s] = "open"

-----------------------------------------------------------------------------
(* Requests of the API: "operations" only looks, "start_plan" and          *)
(* "start_discovery" look first and then start.                            *)

Operations(p, s) == /\ at[p] = "idle"
                    /\ job' = [job EXCEPT ![p] = <<s, "PLAN">>]
                    /\ ret' = [ret EXCEPT ![p] = "idle"]
                    /\ Goto(p, "lookup")
                    /\ UNCHANGED <<store, opLocks, ours, todo, sessionsLost>>

StartRequest(p, s, k) == /\ at[p] = "idle"
                         /\ lastOp < MaxOps
                         /\ job' = [job EXCEPT ![p] = <<s, k>>]
                         /\ ret' = [ret EXCEPT ![p] = "start"]
                         /\ Goto(p, "lookup")
                         /\ UNCHANGED <<store, opLocks, ours, todo, sessionsLost>>

-----------------------------------------------------------------------------
(* latest(): the snapshot, then for each row an attempt to interrupt it or *)
(* to expire its result, all visible at the commit.                        *)

\* What the snapshot asks for.  A row is fenced by its operation_id from here on.
Abandoned(s) == Running(s) /\ row[s].age = "late"
Finished(s) == ~Running(s) /\ row[s].result = "set"
LookupWork(src) ==
    {[slot |-> s, op |-> row[s].op, act |-> "interrupt"] : s \in {t \in {src} \X Kind : Abandoned(t)}}
    \cup
    {[slot |-> s, op |-> row[s].op, act |-> "expire"] : s \in {t \in {src} \X Kind : Finished(t)}}

LatestRead(p) == /\ at[p] = "lookup"
                 /\ todo' = [todo EXCEPT ![p] = LookupWork(SrcOf(p))]
                 /\ Goto(p, "latest")
                 /\ UNCHANGED <<store, opLocks, job, ours, ret, sessionsLost>>

\* pg_try_advisory_xact_lock on the executor lock of an abandoned row.
LatestTryLock(p, i) ==
    /\ at[p] = "latest"
    /\ i \in todo[p]
    /\ i.act = "interrupt"
    /\ \/ /\ executor[i.slot] = None
          /\ executor' = [executor EXCEPT ![i.slot] = p]
          /\ todo' = [todo EXCEPT ![p] = (@ \ {i}) \cup {[i EXCEPT !.act = "fail"]}]
       \/ /\ executor[i.slot] # None
          /\ todo' = [todo EXCEPT ![p] = @ \ {i}]
          /\ UNCHANGED executor
    /\ UNCHANGED <<store, gate, at, job, ours, ret, sessionsLost>>

\* The two UPDATEs.  Neither outlives a change of operation_id.
Interrupts(p, s) == \E i \in todo[p] : /\ i.slot = s
                                       /\ i.act = "fail"
                                       /\ Current(s, i.op)
                                       /\ Running(s)
Expires(p, s) == \E i \in todo[p] : /\ i.slot = s
                                    /\ i.act = "expire"
                                    /\ Current(s, i.op)
                                    /\ ~Running(s)
                                    /\ row[s].age = "late"
ExpiredStatus(s) == IF s[2] = "PLAN" THEN "STALE" ELSE "FAILED"
AfterLookup(p, s) ==
    IF Interrupts(p, s) THEN [row[s] EXCEPT !.status = "FAILED", !.result = "null", !.age = "fresh"]
    ELSE IF Expires(p, s) THEN [row[s] EXCEPT !.status = ExpiredStatus(s), !.result = "null"]
    ELSE row[s]

\* Faulty variant: a session lock, which the commit does not release.
LatestCommitLeaks(p) == /\ at[p] = "latest"
                        /\ \A i \in todo[p] : i.act # "interrupt"
                        /\ row' = [s \in Slot |-> AfterLookup(p, s)]
                        /\ \/ /\ ret[p] = "start"
                              /\ todo' = [todo EXCEPT ![p] = {}]
                              /\ Goto(p, "start")
                              /\ UNCHANGED <<job, ours, ret>>
                           \/ /\ ret[p] = "idle"
                              /\ Return(p)
                        /\ UNCHANGED <<opLocks, admit, lastOp, sessionsLost>>

LatestCommit(p) == /\ at[p] = "latest"
                   /\ \A i \in todo[p] : i.act # "interrupt"
                   /\ row' = [s \in Slot |-> AfterLookup(p, s)]
                   /\ executor' = FreedLocks(p)
                   /\ \/ /\ ret[p] = "start"
                         /\ todo' = [todo EXCEPT ![p] = {}]
                         /\ Goto(p, "start")
                         /\ UNCHANGED <<job, ours, ret>>
                      \/ /\ ret[p] = "idle"
                         /\ Return(p)
                   /\ UNCHANGED <<gate, admit, lastOp, sessionsLost>>

-----------------------------------------------------------------------------
(* start(): the second transaction of a start request, under the gate.     *)

StartRefused(p) == /\ ~Admitted(SrcOf(p)) \/ Running(job[p]) \/ executor[job[p]] # None
                   /\ Return(p)
                   /\ UNCHANGED <<store, opLocks, sessionsLost>>

\* Faulty variant: starts over an operation that is still RUNNING.
StartCreatedTwice(p) ==
    /\ Admitted(SrcOf(p))
    /\ executor[job[p]] = None
    /\ lastOp < MaxOps
    /\ lastOp' = lastOp + 1
    /\ row' = [row EXCEPT ![job[p]] = [op |-> lastOp', status |-> "RUNNING",
                                       result |-> "null", age |-> "fresh"]]
    /\ ours' = [ours EXCEPT ![p] = lastOp']
    /\ Goto(p, "spawned")
    /\ UNCHANGED <<opLocks, admit, job, todo, ret, sessionsLost>>

StartCreated(p) ==
    /\ Admitted(SrcOf(p))
    /\ ~Running(job[p])
    /\ executor[job[p]] = None
    /\ lastOp < MaxOps
    /\ lastOp' = lastOp + 1
    /\ row' = [row EXCEPT ![job[p]] = [op |-> lastOp', status |-> "RUNNING",
                                       result |-> "null", age |-> "fresh"]]
    /\ ours' = [ours EXCEPT ![p] = lastOp']
    /\ Goto(p, "spawned")
    /\ UNCHANGED <<opLocks, admit, job, todo, ret, sessionsLost>>

\* Faulty variant: starts without the source gate.
StartUngated(p) == at[p] = "start" /\ (StartRefused(p) \/ StartCreated(p))

\* SOURCE_DISABLED and its kin, the active operation handed back to a second
\* caller, OPERATION_STILL_EXECUTING, or a new generation and its executor.
Start(p) == /\ at[p] = "start"
            /\ SourceGateFree(SrcOf(p))
            /\ StartRefused(p) \/ StartCreated(p)

-----------------------------------------------------------------------------
(* execute(): an autocommit session that owns the executor lock.           *)

\* A lock that is not free ends the executor without a word.
TryLock(p) == /\ at[p] = "spawned"
              /\ \/ /\ executor[job[p]] = None
                    /\ executor' = [executor EXCEPT ![job[p]] = p]
                    /\ Goto(p, "locked")
                    /\ UNCHANGED <<job, ours, todo, ret>>
                 \/ /\ executor[job[p]] # None
                    /\ Return(p)
                    /\ UNCHANGED executor
              /\ UNCHANGED <<store, gate, sessionsLost>>

Check(p) == /\ at[p] = "locked"
            /\ Goto(p, IF Current(job[p], ours[p]) /\ Running(job[p]) THEN "running" ELSE "unlock")
            /\ UNCHANGED <<store, opLocks, job, ours, todo, ret, sessionsLost>>

\* The provider callback answered, failed or timed out.  A discovery refused for
\* its placement keeps the provider's evidence in a FAILED row.
Completion(s) == {[status |-> IF s[2] = "PLAN" THEN "READY" ELSE "SUCCEEDED", result |-> "set"],
                  [status |-> "FAILED", result |-> "null"]}
                 \cup {c \in {[status |-> "FAILED", result |-> "set"]} : s[2] = "DISCOVERY"}

\* UPDATE ... WHERE operation_id AND status='RUNNING'; otherwise the completion
\* is logged as OPERATION_COMPLETION_DISCARDED and nothing changes.
Complete(p) == /\ at[p] = "running"
               /\ IF Current(job[p], ours[p]) /\ Running(job[p])
                  THEN \E c \in Completion(job[p]) :
                         row' = [row EXCEPT ![job[p]] = [op |-> ours[p], status |-> c.status,
                                                         result |-> c.result, age |-> "fresh"]]
                  ELSE row' = row
               /\ Goto(p, "unlock")
               /\ UNCHANGED <<opLocks, admit, lastOp, job, ours, todo, ret, sessionsLost>>

Unlock(p) == /\ at[p] = "unlock"
             /\ executor' = FreedLocks(p)
             /\ Return(p)
             /\ UNCHANGED <<store, gate, sessionsLost>>

-----------------------------------------------------------------------------
(* review_guard(): the apply worker keeps the gate while it revalidates    *)
(* and applies the reviewed plan.                                          *)

ReviewGate(p, s, o) == /\ at[p] = "idle"
                       /\ SourceGateFree(s)
                       /\ Admitted(s)
                       /\ gate' = [gate EXCEPT ![s] = p]
                       /\ job' = [job EXCEPT ![p] = <<s, "PLAN">>]
                       /\ ours' = [ours EXCEPT ![p] = o]
                       /\ Goto(p, "gated")
                       /\ UNCHANGED <<store, executor, todo, ret, sessionsLost>>

\* current_plan(): PLAN_STALE, or the reviewed generation.
CurrentPlan(p) == /\ at[p] = "gated"
                  /\ IF /\ Current(job[p], ours[p])
                        /\ row[job[p]].status = "READY"
                        /\ row[job[p]].result = "set"
                        /\ row[job[p]].age = "fresh"
                     THEN Goto(p, "reviewed") /\ UNCHANGED <<gate, job, ours, todo, ret>>
                     ELSE Return(p) /\ gate' = FreedGates(p)
                  /\ UNCHANGED <<store, executor, sessionsLost>>

ReviewEnd(p) == /\ at[p] = "reviewed"
                /\ gate' = FreedGates(p)
                /\ Return(p)
                /\ UNCHANGED <<store, executor, sessionsLost>>

Withdrawn(s) == [row EXCEPT ![s].status = "STALE", ![s].result = "null"]

InvalidatePlan(s, o) == /\ SourceGateFree(s)
                        /\ Admitted(s)
                        /\ Current(<<s, "PLAN">>, o)
                        /\ row[<<s, "PLAN">>].status = "READY"
                        /\ row' = Withdrawn(<<s, "PLAN">>)
                        /\ UNCHANGED <<opLocks, admit, lastOp, local, sessionsLost>>

-----------------------------------------------------------------------------
(* Admission of the source, as far as the operations see it.               *)

\* enqueue(): a removal request, under the row lock of sources and not the gate.
Enqueue(s) == /\ Admitted(s)
              /\ admit' = [admit EXCEPT ![s] = "queued"]
              /\ UNCHANGED <<row, lastOp, opLocks, local, sessionsLost>>

\* Faulty variant: removes a source whose operation is RUNNING.
RemoveUnchecked(s) == /\ SourceGateFree(s)
                      /\ admit[s] # "closed"
                      /\ admit' = [admit EXCEPT ![s] = "closed"]
                      /\ UNCHANGED <<row, lastOp, opLocks, local, sessionsLost>>

\* _remove_locked(): refuses while an operation of the source is RUNNING.
RemoveSource(s) == /\ SourceGateFree(s)
                   /\ admit[s] # "closed"
                   /\ \A k \in Kind : ~Running(<<s, k>>)
                   /\ admit' = [admit EXCEPT ![s] = "closed"]
                   /\ UNCHANGED <<row, lastOp, opLocks, local, sessionsLost>>

\* complete() of a recovery: enabled again, and a READY plan is withdrawn.
Recover(s) == /\ SourceGateFree(s)
              /\ admit[s] = "closed"
              /\ admit' = [admit EXCEPT ![s] = "open"]
              /\ row' = IF row[<<s, "PLAN">>].status = "READY" THEN Withdrawn(<<s, "PLAN">>) ELSE row
              /\ UNCHANGED <<lastOp, opLocks, local, sessionsLost>>

-----------------------------------------------------------------------------
(* Time, and processes that die or lose their database session: the        *)
(* transaction rolls back and PostgreSQL releases every lock it held.      *)

Elapse(s) == /\ row[s].op # 0
             /\ row[s].age = "fresh"
             /\ row' = [row EXCEPT ![s].age = "late"]
             /\ UNCHANGED <<opLocks, admit, lastOp, local, sessionsLost>>

Lose(p) == /\ at[p] # "idle"
           /\ sessionsLost < MaxSessionsLost
           /\ sessionsLost' = sessionsLost + 1
           /\ executor' = FreedLocks(p)
           /\ gate' = FreedGates(p)
           /\ Return(p)
           /\ UNCHANGED store

-----------------------------------------------------------------------------
ApiRequest(p) == \E s \in OpSource : \/ Operations(p, s)
                                     \/ \E k \in Kind : StartRequest(p, s, k)
                                     \/ \E o \in 1..lastOp : ReviewGate(p, s, o)

Progress(p) == \/ LatestRead(p)
               \/ \E i \in todo[p] : LatestTryLock(p, i)
               \/ LatestCommit(p)
               \/ Start(p)
               \/ TryLock(p) \/ Check(p) \/ Complete(p) \/ Unlock(p)
               \/ CurrentPlan(p) \/ ReviewEnd(p)

Control(s) == \/ \E o \in 1..lastOp : InvalidatePlan(s, o)
              \/ Enqueue(s) \/ RemoveSource(s) \/ Recover(s)

OpsNext == \/ \E p \in Proc : ApiRequest(p) \/ Progress(p) \/ Lose(p)
           \/ \E s \in OpSource : Control(s)
           \/ \E s \in Slot : Elapse(s)

OpsSpec == OpsInit /\ [][OpsNext]_opsVars

(* A process runs its next step (the provider callback is bounded by the   *)
(* 120 second child timeout), time passes, and somebody keeps asking for   *)
(* the operations of a source: an open page polls, and so does every       *)
(* waiting request.  Handlers are forked per request, so that a lookup is  *)
(* never starved of a process; the small Proc makes that strong fairness.  *)
OpsFairness == /\ \A p \in Proc : WF_opsVars(Progress(p))
               /\ \A s \in Slot : WF_opsVars(Elapse(s))
               /\ \A s \in OpSource : SF_opsVars(\E p \in Proc : Operations(p, s))

OpsFairSpec == OpsSpec /\ OpsFairness

-----------------------------------------------------------------------------
(* Correctness                                                             *)

\* An executor that passed its check still owns the executor lock and its
\* operation is the RUNNING generation of the slot: neither a lookup nor a new
\* start takes the slot from it, so execute() never discards a completion.
ExecutorFenced == \A p \in Proc : at[p] = "running" =>
                    /\ executor[job[p]] = p
                    /\ Current(job[p], ours[p])
                    /\ Running(job[p])

\* review_guard(): while the apply worker holds the gate on a reviewed plan, the
\* PLAN slot stays at that generation and still holds its result, unless a lookup
\* expired it after 24 hours.
ReviewedCurrent == \A p \in Proc : at[p] = "reviewed" =>
                     /\ Current(job[p], ours[p])
                     /\ \/ row[job[p]].status = "READY"
                        \/ row[job[p]].status = "STALE" /\ row[job[p]].age = "late"
                     /\ admit[SrcOf(p)] # "closed"

\* _remove_locked(): a removed source has no operation in flight, neither a RUNNING
\* slot nor an executor that would still publish a result.
ClosedQuiet == \A s \in OpSource : admit[s] = "closed" =>
                 /\ \A k \in Kind : ~Running(<<s, k>>)
                 /\ \A p \in Proc : at[p] = "running" => SrcOf(p) # s

(* What makes them inductive: who owns the two locks between two steps,    *)
(* and that operation_ids are handed out in order.                         *)
LockHeld == /\ \A p \in Proc : at[p] \in {"locked", "running", "unlock"} => executor[job[p]] = p
            /\ \A p \in Proc : \A i \in todo[p] : i.act = "fail" =>
                 at[p] = "latest" /\ executor[i.slot] = p
GateHeld == \A p \in Proc : at[p] \in {"gated", "reviewed"} =>
              /\ gate[SrcOf(p)] = p
              /\ job[p] = <<SrcOf(p), "PLAN">>
              /\ admit[SrcOf(p)] # "closed"
RowShape == \A s \in Slot : /\ row[s].op <= lastOp
                            /\ row[s].status = "NONE" => row[s].op = 0 /\ row[s].age = "fresh"
OpsIInv == /\ LockHeld
           /\ GateHeld
           /\ RowShape
           /\ ExecutorFenced
           /\ ReviewedCurrent
           /\ ClosedQuiet

\* The slot as a reader of source_operations sees it implements OperationSlot.
SlotPhase(s) == IF row[s].status = "NONE" THEN "empty"
                ELSE IF Running(s) THEN "running"
                ELSE IF row[s].status \in {"READY", "SUCCEEDED"} THEN "published"
                ELSE "ended"
Abstract == INSTANCE OperationSlot
              WITH generation <- [s \in Slot |-> row[s].op], phase <- [s \in Slot |-> SlotPhase(s)]
SlotContract == Abstract!Spec

\* latest(): an operation does not stay RUNNING for ever: its executor completes
\* it, or after its executor died a lookup marks it OPERATION_INTERRUPTED.
EventuallyTerminal == \A s \in Slot : Running(s) ~> ~Running(s)
=============================================================================
