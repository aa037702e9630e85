------------------------------- MODULE NetBox -------------------------------
(***************************************************************************)
(* The NetBox objects a synchronization reads and writes, the identities   *)
(* that say which source an object stands for, and how an object found by  *)
(* discovery is matched with them.                                         *)
(*                                                                         *)
(* A NetBox state nb is a record of partial functions, one per endpoint,   *)
(* from object ids to objects:                                             *)
(*   dev   [name, serial, site, cluster, spec, prim, cf]     dcim.devices  *)
(*   hif   [dev, name, val]                             dcim.interfaces    *)
(*   vm    [name, cluster, tenant, res, disk, note, prim, dev, cf]         *)
(*   nic   [vm, name, on, pmac, cf]           virtualization.interfaces    *)
(*   mac   [addr, at]                                dcim.mac_addresses    *)
(*   ip    [addr, vrf, at]                            ipam.ip_addresses    *)
(*   disk  [vm, name, size, ident]         virtualization.virtual_disks    *)
(* Names stand for their casefolded form.  prim, pmac, dev and vrf are 0   *)
(* when NetBox has null; at is Unassigned or <<endpoint, id>>.  cf is the  *)
(* custom-field map: the sync identities, the original names and managed   *)
(* values the synchronizer keeps there, the observations of each source,   *)
(* whether a provider's inventory refers to the object, the fields that    *)
(* provider owns and the system identifiers it reported, and misc for      *)
(* everything the synchronizer must leave alone.                           *)
(***************************************************************************)
EXTENDS Integers, FiniteSets, SequencesExt, FiniteSetsExt, TLC

Endpoints == {"dev", "hif", "vm", "nic", "mac", "ip", "disk"}
Unassigned == <<"none", 0>>
NoObjects == [e \in Endpoints |-> <<>>]
NoFields == [ids |-> {}, names |-> <<>>, val |-> "", obs |-> <<>>,
             refs |-> FALSE, own |-> {}, sel |-> {}, misc |-> ""]

(* Objects the synchronizer creates are numbered below Foreign, objects    *)
(* created by anybody else from Foreign on.                                *)
Foreign == 50
NextId(nb, ep) == 1 + Max({0} \cup {i \in DOMAIN nb[ep] : i < Foreign})

(***************************************************************************)
(* Source identities.                                                      *)
(***************************************************************************)
Identity(inst, kind, key) == [schema |-> "v2", inst |-> inst, kind |-> kind, key |-> key]
LegacyIdentity(key) == [schema |-> "v1", inst |-> "", kind |-> "", key |-> key]

host_source_identity(h) == Identity(h.inst, "host", h.key)
lxc_source_identity(g) == Identity(g.inst, "lxc", g.key)
virtual_machine_source_identity(g) == Identity(g.inst, g.kind, g.key)
guest_identity(g) == IF g.kind = "lxc" THEN lxc_source_identity(g)
                                       ELSE virtual_machine_source_identity(g)
nic_source_identity(g, n) == Identity(g.inst, g.kind \o "-nic", g.key \o ":" \o n.key)

vm_identity_source_id(g) == g.node \o ":" \o g.key
lxc_identity_source_id(g) == g.node \o ":" \o g.key
nic_identity_source_id(g, n) == g.node \o ":" \o g.key \o ":" \o n.name

source_identity_match_rank(ids, want, old, owner) ==
    CASE want \in ids -> 2
      [] want \notin ids /\ owner /\ (\E k \in old : LegacyIdentity(k) \in ids) -> 1
      [] OTHER -> 0

merge_source_identities(ids, want) ==
    {i \in ids : i.schema = "v1" \/ i.inst # want.inst \/ i.kind # want.kind} \cup {want}

merge_original_name(names, want, name) == (<<want.inst, want.kind>> :> name) @@ names

(* All candidates at the best rank: Rank maps an object to 0, 1 or 2.      *)
select_best_identity_matches(objs, Rank(_)) ==
    LET top == Max({0} \cup {Rank(objs[i]) : i \in DOMAIN objs})
    IN  IF top = 0 THEN {} ELSE {i \in DOMAIN objs : Rank(objs[i]) = top}

(***************************************************************************)
(* Hosts: by identity, else by system identifiers a provider reported.     *)
(***************************************************************************)
compare(left, right) ==
    LET Of(s, k) == {t \in s : t[1] = k}
        common == {t[1] : t \in left} \cap {t[1] : t \in right}
    IN  CASE left \cap right = {} -> "none"
          [] left \cap right # {} /\ \E k \in common : Of(left, k) # Of(right, k) -> "conflict"
          [] OTHER -> "match"

ProviderDevices(devs) == {d \in DOMAIN devs : devs[d].cf.refs}
SelectelHits(devs, h) ==
    {d \in ProviderDevices(devs) : compare(h.hw, devs[d].cf.sel) = "match"}
SelectelRefused(devs, h) ==
    \/ \E d \in ProviderDevices(devs) :
          \/ compare(h.hw, devs[d].cf.sel) = "conflict"
          \/ compare(h.hw, devs[d].cf.sel) = "none" /\ <<"serial", devs[d].serial>> \in h.hw
    \/ \E d \in SelectelHits(devs, h) : devs[d].cf.ids # {}
    \/ Cardinality(SelectelHits(devs, h)) > 1

sync_identity_match_rank(d, h) ==
    source_identity_match_rank(d.cf.ids, host_source_identity(h), {h.key}, h.owner)
HostsByIdentity(devs, h) ==
    LET Rank(d) == sync_identity_match_rank(d, h) IN select_best_identity_matches(devs, Rank)
find_sync_identity_matches(devs, h) ==
    IF HostsByIdentity(devs, h) # {} THEN HostsByIdentity(devs, h) ELSE SelectelHits(devs, h)
HostMatchRaises(devs, h) == HostsByIdentity(devs, h) = {} /\ SelectelRefused(devs, h)

build_device_custom_fields(h, cf) ==
    [cf EXCEPT !.ids = merge_source_identities(@, host_source_identity(h)),
               !.names = merge_original_name(@, host_source_identity(h), h.name),
               !.val = h.val]

(***************************************************************************)
(* Guests and their interfaces.                                            *)
(***************************************************************************)
FindVmByName(vms, g) ==
    {v \in DOMAIN vms : vms[v].name = g.name /\ virtual_machine_source_identity(g) \in vms[v].cf.ids}
find_vm_sync_identity_matches(vms, g) ==
    LET Rank(v) == source_identity_match_rank(v.cf.ids, virtual_machine_source_identity(g),
                                              {vm_identity_source_id(g)}, g.owner)
    IN  select_best_identity_matches(vms, Rank)
find_lxc_sync_identity_matches(vms, g) ==
    LET Rank(v) == source_identity_match_rank(v.cf.ids, lxc_source_identity(g),
                                              {lxc_identity_source_id(g)}, g.owner)
    IN  select_best_identity_matches(vms, Rank)
find_guest(vms, g) == IF g.kind = "lxc" THEN find_lxc_sync_identity_matches(vms, g)
                                        ELSE find_vm_sync_identity_matches(vms, g)

build_vm_custom_fields(g, cf) ==
    [cf EXCEPT !.ids = merge_source_identities(@, virtual_machine_source_identity(g)),
               !.names = merge_original_name(@, virtual_machine_source_identity(g), g.name)]
build_lxc_custom_fields(g, cf) ==
    [cf EXCEPT !.ids = merge_source_identities(@, lxc_source_identity(g)),
               !.names = merge_original_name(@, lxc_source_identity(g), g.name),
               !.val = g.val]

(* A container's interface may still carry the identity written from its   *)
(* displayed name; it is read once so that the next update replaces it.    *)
nic_sync_identity_match_rank(i, g, n) ==
    LET rank == source_identity_match_rank(i.cf.ids, nic_source_identity(g, n),
                                           {nic_identity_source_id(g, n)}, g.owner)
    IN  IF rank > 0 \/ g.kind # "lxc" \/ n.key = n.name THEN rank
        ELSE source_identity_match_rank(i.cf.ids,
                 Identity(g.inst, "lxc-nic", g.key \o ":" \o n.name), {}, FALSE)
find_nic_sync_identity_matches(nics, g, n) ==
    LET Rank(i) == nic_sync_identity_match_rank(i, g, n)
    IN  select_best_identity_matches(nics, Rank)

NicFieldsUnowned(g, n, cf) == [cf EXCEPT !.val = n.bridge]
build_nic_custom_fields(g, n, cf) ==
    [cf EXCEPT !.ids = merge_source_identities(@, nic_source_identity(g, n)),
               !.names = merge_original_name(@, nic_source_identity(g, n), n.name),
               !.val = n.bridge,
               !.obs = IF n.obs = {} THEN @ ELSE (g.inst :> n.obs) @@ @]

(***************************************************************************)
(* Interface labels.                                                       *)
(***************************************************************************)
LabelBase(n) == IF n.bridge = "" THEN n.name ELSE n.bridge
interface_display_name(g, n) ==
    IF Cardinality({i \in DOMAIN g.nics : LabelBase(g.nics[i]) = LabelBase(n)}) > 1
    THEN LabelBase(n) \o " / " \o n.key ELSE LabelBase(n)

(* Native fields a provider's inventory owns on this object.               *)
owned_fields(r) == IF r.cf.refs THEN r.cf.own ELSE {}
primary_owned(r) == "primary_ip4_id" \in owned_fields(r)
=============================================================================
