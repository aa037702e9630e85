--------------------------- MODULE OperationSlot ---------------------------
(***************************************************************************)
(* What source_operations promises to a reader of one slot: "a slot is     *)
(* replaced only after its terminal state", a generation that ended never  *)
(* runs again, a result is published only by the generation that produced  *)
(* it, and a result that was withdrawn is never published again.           *)
(***************************************************************************)
EXTENDS Naturals

CONSTANTS Slot

VARIABLES generation,  \* generation[s]: how many operations slot s has had
          phase        \* phase[s]: where the latest of them stands

Phase == {"empty", "running", "published", "ended"}

Init == /\ generation = [s \in Slot |-> 0]
        /\ phase = [s \in Slot |-> "empty"]

\* A new operation takes the slot over, never from one that is still running.
Begin(s) == /\ phase[s] # "running"
            /\ generation'[s] > generation[s]
            /\ \A t \in Slot \ {s} : generation'[t] = generation[t]
            /\ phase' = [phase EXCEPT ![s] = "running"]

\* The running operation publishes a result.
Publish(s) == /\ phase[s] = "running"
              /\ phase' = [phase EXCEPT ![s] = "published"]
              /\ UNCHANGED generation

\* The operation fails, is interrupted, or its result is withdrawn.
End(S) == /\ \A s \in S : phase[s] \in {"running", "published"}
          /\ phase' = [s \in Slot |-> IF s \in S THEN "ended" ELSE phase[s]]
          /\ UNCHANGED generation

Next == \/ \E s \in Slot : Begin(s) \/ Publish(s)
        \/ \E S \in SUBSET Slot : End(S)

vars == <<generation, phase>>

Spec == Init /\ [][Next]_vars
=============================================================================
