------------------------------ MODULE MCNetBox ------------------------------
(***************************************************************************)
(* Both writers of NetBox's objects side by side: the synchronizer's       *)
(* stages, and the Guard plugin that creates and retires objects for it.   *)
(* A behaviour has a situation of one of them and leaves the other idle.   *)
(***************************************************************************)
EXTENDS MCFullSync, MCGuard

Nothing == [nb |-> NoObjects, conf |-> Config("strict", <<>>, FALSE), invs |-> <<>>]
MCScenesOrNone == MCScenes \cup {Nothing}
NetBoxInit == /\ FullInit /\ GuardInit
              /\ (scene.invs = <<>>) # (world = "none")
NetBoxNext == \/ world = "none" /\ FullNext /\ UNCHANGED gvars
              \/ world # "none" /\ GuardNext /\ UNCHANGED fullVars
NetBoxSpec == NetBoxInit /\ [][NetBoxNext]_<<fullVars, gvars>>
=============================================================================
