----------------------------- MODULE MCSources -----------------------------
(***************************************************************************)
(* The read-only operations of a source and its synchronization runs.  A   *)
(* behaviour is one of either, and the other stays as it began.            *)
(***************************************************************************)
EXTENDS SourceOperations, SyncRuns

VARIABLE part
all == <<opsVars, vars, part>>
Operating == part = "operations"
Synchronizing == part = "runs"

MCInit == OpsInit /\ Init /\ part \in {"operations", "runs"}
MCNext == \/ Operating /\ OpsNext /\ UNCHANGED <<vars, part>>
          \/ Synchronizing /\ Next /\ UNCHANGED <<opsVars, part>>

\* OpsFairness and Fairness, each of the part that moves.
MCFairness == /\ \A p \in Proc : WF_opsVars(Operating /\ Progress(p))
              /\ \A s \in Slot : WF_opsVars(Operating /\ Elapse(s))
              /\ \A s \in OpSource : SF_opsVars(Operating /\ \E p \in Proc : Operations(p, s))
              /\ WF_vars(Synchronizing /\ WorkerStep) /\ WF_vars(Synchronizing /\ Reap)
              /\ WF_vars(Synchronizing /\ TickStep) /\ WF_vars(Synchronizing /\ DeskStep)
MCSpec == MCInit /\ [][MCNext]_all /\ MCFairness

\* EventuallyTerminal and LockComesFree of the one source in one formula: the operation that
\* runs ends, with its executor or by a lookup after it, and whoever has apply.lock gives it
\* back, be it a child that survives its kill, a worker that died or an operator.
Busy == (\E s \in Slot : Running(s)) \/ lock # "free"
NothingHangs == Busy ~> ~Busy
=============================================================================
