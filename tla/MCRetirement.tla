---------------------------- MODULE MCRetirement ----------------------------
(***************************************************************************)
(* Retirement of a source without a history while its objects in NetBox    *)
(* change, and of a source with one, by up to two operations: the whole of *)
(* both would not fit.                                                     *)
(***************************************************************************)
EXTENDS Retirement

VARIABLE scene
mcvars == <<vars, scene>>

\* A "kept" source was retired and came back with a credential file; an "old" one has
\* an earlier retirement in its journal.
MCInit == /\ Init
          /\ scene \in {"new", "kept", "old", "old edited"}
          /\ scene \in {"old", "old edited"} <=> state[1] # "none"
          /\ scene = "kept" <=> state[1] = "none" /\ generation # 0
Untouched(o) == state'[o] = "none" /\ intent'[o] = "none" /\ request'.op # o /\ job'.op # o
MCNext == /\ Next
          /\ scene # "old" => \A o \in Op \ {1} : Untouched(o)
          /\ scene = "old" => edit' = edit
          /\ scene # "new" => inventory' = inventory \/ receipt' # receipt
          /\ UNCHANGED scene
MCSpec == MCInit /\ [][MCNext]_mcvars /\ Fairness
=============================================================================
