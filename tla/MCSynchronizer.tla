--------------------------- MODULE MCSynchronizer ---------------------------
(***************************************************************************)
(* When a source is synchronized, and what is written to NetBox then.  A   *)
(* behaviour is one of the schedules (MCScheduling) or one of NetBox's     *)
(* writers (MCNetBox), and the others stay as they began.                  *)
(***************************************************************************)
EXTENDS MCScheduling, MCNetBox

VARIABLE part
Unscheduled == Init /\ rule = Off /\ after = To /\ row = [s \in Source |-> SomeRow]
Unwritten == FullInit /\ GuardInit /\ scene = Nothing /\ world = "none"

SynchronizerInit == \/ part = "schedules" /\ MCInit /\ Unwritten
                    \/ part = "writers" /\ NetBoxInit /\ Unscheduled
SynchronizerNext == \/ part = "schedules" /\ MCNext /\ UNCHANGED <<fullVars, gvars, part>>
                    \/ part = "writers" /\ NetBoxNext /\ UNCHANGED <<vars, asked, part>>
SynchronizerSpec == SynchronizerInit /\ [][SynchronizerNext]_<<vars, asked, fullVars, gvars, part>>
=============================================================================
