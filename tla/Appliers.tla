------------------------------ MODULE Appliers ------------------------------
(***************************************************************************)
(* The stages of a synchronization.  A stage reads NetBox once, checks the *)
(* whole batch of discovered objects against what it read, and then writes *)
(* one object at a time:                                                   *)
(*   Prepare(stage, nb, hosts) = [ok, todo]                                *)
(* ok is FALSE when the stage raises before its first write; todo is the   *)
(* sequence of writes it will make.  Guest stages decide every write from  *)
(* what they read at the start.  The host stage decides the device write   *)
(* then, but reads the interfaces, each address and the primary address    *)
(* again just before it writes them: those are the steps Expand replaces   *)
(* on the state it finds.                                                  *)
(***************************************************************************)
EXTENDS NetBox

CONSTANTS Site,             \* the target site and cluster of the source
          Cluster,
          Spec_             \* role, platform and device type of its mapping

(***************************************************************************)
(* Writes, and the accumulator of a stage: the writes so far and the next  *)
(* id of each endpoint.                                                    *)
(***************************************************************************)
Create(ep, id, obj) == [do |-> "create", ep |-> ep, id |-> id, set |-> obj]
UpdateOf(ep, id, chg) == [do |-> "update", ep |-> ep, id |-> id, set |-> chg]
Batch(nb) == [next |-> [e \in Endpoints |-> NextId(nb, e)], todo |-> <<>>]
Creating(acc, ep, obj) ==
    [acc EXCEPT !.next[ep] = @ + 1, !.todo = Append(@, Create(ep, acc.next[ep], obj))]
Updating(acc, ep, id, chg) ==
    IF DOMAIN chg = {} THEN acc ELSE [acc EXCEPT !.todo = Append(@, UpdateOf(ep, id, chg))]
(* A stage writes nothing unless its whole batch passed.                   *)
Checked(ok, todo) == IF ok THEN [ok |-> TRUE, todo |-> todo] ELSE [ok |-> FALSE, todo |-> <<>>]
Changed(old, want) == [f \in {f \in DOMAIN want : old[f] # want[f]} |-> want[f]]
Without(chg, fields) == [f \in DOMAIN chg \ fields |-> chg[f]]
Only(s) == CHOOSE x \in s : TRUE
IdOr0(s) == IF s = {} THEN 0 ELSE Only(s)
Distinct(s) == Cardinality(Range(s)) = Len(s)
Guests(hosts, kinds) ==
    FlattenSeq([i \in DOMAIN hosts |-> SelectSeq(hosts[i].guests, LAMBDA g : g.kind \in kinds)])
VMs(hosts) == Guests(hosts, {"qemu", "vm"})
LXCs(hosts) == Guests(hosts, {"lxc"})
Restricted(f, S) == [x \in DOMAIN f \cap S |-> f[x]]

(***************************************************************************)
(* HOST.                                                                   *)
(***************************************************************************)
Bare(addr) == addr[1]
ManagementIpMatches(nb, h) ==
    {d \in DOMAIN nb.dev : nb.dev[d].prim # 0 /\ Bare(nb.ip[nb.dev[d].prim].addr) = h.mgmt}
RejectUnowned(nb, h) ==
    ManagementIpMatches(nb, h) # {} \/ \E d \in DOMAIN nb.dev : nb.dev[d].name = h.name
resolve_device(nb, h) ==
    LET m == find_sync_identity_matches(nb.dev, h)
    IN  /\ ~HostMatchRaises(nb.dev, h)
        /\ Cardinality(m) <= 1
        /\ IF m = {} THEN ~RejectUnowned(nb, h) ELSE nb.dev[Only(m)].site = Site

InterfacesOf(nb, d) == {i \in DOMAIN nb.hif : nb.hif[i].dev = d}
load_existing_interfaces(nb, d) ==
    \A i, j \in InterfacesOf(nb, d) : nb.hif[i].name = nb.hif[j].name => i = j
find_ip_matches(nb, addr) == {i \in DOMAIN nb.ip : nb.ip[i].addr = addr /\ nb.ip[i].vrf = 0}

management_binding(h) ==
    UNION {{<<h.ifs[k].name, a>> : a \in {x \in Range(h.ifs[k].addrs) : Bare(x) = h.mgmt}} :
           k \in DOMAIN h.ifs}
checked_host_addresses(nb, h, d) ==
    \A k \in DOMAIN h.ifs : \A a \in Range(h.ifs[k].addrs) :
        LET m == find_ip_matches(nb, a)
        IN  /\ Cardinality(m) <= 1
            /\ \A i \in m : \/ nb.ip[i].at = Unassigned
                            \/ \E f \in InterfacesOf(nb, d) :
                                 nb.hif[f].name = h.ifs[k].name /\ nb.ip[i].at = <<"hif", f>>

HostDevice(nb, h) == IdOr0(find_sync_identity_matches(nb.dev, h))
prepare_host_context(nb, h, net) ==
    /\ resolve_device(nb, h)
    /\ net => /\ load_existing_interfaces(nb, HostDevice(nb, h))
              /\ Distinct([k \in DOMAIN h.ifs |-> h.ifs[k].name])
              /\ Cardinality(management_binding(h)) = 1
              /\ checked_host_addresses(nb, h, HostDevice(nb, h))

device_changes(d, h) ==
    Without(Changed(d, [site |-> Site, spec |-> Spec_, cluster |-> Cluster,
                        cf |-> build_device_custom_fields(h, d.cf)]),
            IF "site_id" \in owned_fields(d) THEN {"site"} ELSE {})
write_device(acc, nb, h) ==
    LET d == HostDevice(nb, h)
    IN  IF d = 0
        THEN Creating(acc, "dev", [name |-> h.name, serial |-> "", site |-> Site, cluster |-> Cluster,
                                   spec |-> Spec_, prim |-> 0,
                                   cf |-> build_device_custom_fields(h, NoFields)])
        ELSE Updating(acc, "dev", d, device_changes(nb.dev[d], h))
(* The rest of the host is read again when its turn comes.                 *)
write_host(acc, nb, h, net) ==
    LET d == IF HostDevice(nb, h) = 0 THEN acc.next["dev"] ELSE HostDevice(nb, h)
        later == [write_device(acc, nb, h) EXCEPT
                     !.todo = Append(@, [do |-> "interfaces", dev |-> d, host |-> h])]
    IN  IF net THEN later ELSE write_device(acc, nb, h)

apply_hosts(nb, hosts, net) ==
    Checked(\A k \in DOMAIN hosts : prepare_host_context(nb, hosts[k], net),
     FoldLeft(LAMBDA acc, h : write_host(acc, nb, h, net), Batch(nb), hosts).todo)

(* _write_interfaces: reload, then create or update each interface; the    *)
(* addresses and the primary follow, each a step of its own.               *)
write_interface(acc, nb, d, f) ==
    LET m == {i \in InterfacesOf(nb, d) : nb.hif[i].name = f.name}
    IN  IF m = {} THEN Creating(acc, "hif", [dev |-> d, name |-> f.name, val |-> f.val])
        ELSE Updating(acc, "hif", Only(m), Changed(nb.hif[Only(m)], [val |-> f.val]))
InterfaceId(nb, d, h, k) ==
    LET New(f) == \A i \in InterfacesOf(nb, d) : nb.hif[i].name # f.name
    IN  IF New(h.ifs[k]) THEN NextId(nb, "hif") + Cardinality({j \in 1..(k - 1) : New(h.ifs[j])})
        ELSE Only({i \in InterfacesOf(nb, d) : nb.hif[i].name = h.ifs[k].name})
InterfaceSteps(nb, d, h) ==
    FoldLeft(LAMBDA acc, f : write_interface(acc, nb, d, f), Batch(nb), h.ifs).todo
      \o FlattenSeq([k \in DOMAIN h.ifs |-> [j \in DOMAIN h.ifs[k].addrs |->
             [do |-> "address", dev |-> d, at |-> <<"hif", InterfaceId(nb, d, h, k)>>,
              addr |-> h.ifs[k].addrs[j]]]])
      \o <<[do |-> "primary", dev |-> d, ip |-> 0,
            addr |-> (CHOOSE b \in management_binding(h) : TRUE)[2]]>>

(***************************************************************************)
(* QEMU VM.                                                                *)
(***************************************************************************)
InCluster(nb) == Restricted(nb.vm, {v \in DOMAIN nb.vm : nb.vm[v].cluster = Cluster})
NameMatches(vms, name, tenant, except) ==
    {v \in DOMAIN vms : vms[v].name = name /\ vms[v].tenant = tenant /\ v # except}
preflight_vm(nb, g) ==
    LET m == find_vm_sync_identity_matches(nb.vm, g)
    IN  /\ Cardinality(m) <= 1
        /\ IF m = {} THEN NameMatches(InCluster(nb), g.name, "", 0) = {}
           ELSE LET v == nb.vm[Only(m)]
                IN  /\ v.cluster = Cluster
                    /\ NameMatches(InCluster(nb), g.name, v.tenant, Only(m)) = {}

MiB == 1048576
MB == 1000000
DiskTotal(g) == FoldLeft(LAMBDA n, d : n + d.size, 0, g.disks) \div MiB
build_vm_create_fields(g) ==
    [name |-> g.name, cluster |-> Cluster, tenant |-> "", res |-> g.res, disk |-> DiskTotal(g),
     note |-> g.note, prim |-> 0, dev |-> 0, cf |-> build_vm_custom_fields(g, NoFields)]
vm_changes(v, g) ==
    Without(Changed(v, [name |-> g.name, cluster |-> Cluster, res |-> g.res,
                        disk |-> DiskTotal(g), note |-> g.note,
                        cf |-> build_vm_custom_fields(g, v.cf)]), owned_fields(v))
(* A guest with disk records of its own keeps its aggregate size.          *)
NativeDisks(nb, v) == \E d \in DOMAIN nb.disk : nb.disk[d].vm = v
write_virtual_machine(acc, nb, g) ==
    LET v == IdOr0(find_vm_sync_identity_matches(nb.vm, g))
    IN  IF v = 0 THEN Creating(acc, "vm", build_vm_create_fields(g))
        ELSE Updating(acc, "vm", v, Without(vm_changes(nb.vm[v], g),
                                            IF NativeDisks(nb, v) THEN {"disk"} ELSE {}))
validate_discovered_vms(gs) ==
    /\ Distinct([k \in DOMAIN gs |-> <<gs[k].node, gs[k].key>>])
    /\ Distinct([k \in DOMAIN gs |-> gs[k].name])
apply_virtual_machines(nb, hosts) ==
    Checked(/\ validate_discovered_vms(VMs(hosts))
            /\ \A g \in Range(VMs(hosts)) : preflight_vm(nb, g),
     FoldLeft(LAMBDA acc, g : write_virtual_machine(acc, nb, g), Batch(nb), VMs(hosts)).todo)

(***************************************************************************)
(* LXC: unlike a VM, any guest of the cluster with the name is refused,    *)
(* and no field is left to a provider or to disk records.                  *)
(***************************************************************************)
prepare_lxc_contexts(nb, gs) ==
    /\ Distinct([k \in DOMAIN gs |-> <<gs[k].node, gs[k].key>>])
    /\ \A g \in Range(gs) :
          LET m == find_lxc_sync_identity_matches(nb.vm, g)
          IN  /\ Cardinality(m) <= 1
              /\ IF m = {} THEN \A v \in DOMAIN InCluster(nb) : nb.vm[v].name # g.name
                 ELSE nb.vm[Only(m)].cluster = Cluster
lxc_changes(v, g) ==
    Changed(v, [name |-> g.name, cluster |-> Cluster, res |-> g.res, disk |-> DiskTotal(g),
                cf |-> build_lxc_custom_fields(g, v.cf)])
write_lxc_container(acc, nb, g) ==
    LET v == IdOr0(find_lxc_sync_identity_matches(nb.vm, g))
    IN  IF v = 0
        THEN Creating(acc, "vm", [name |-> g.name, cluster |-> Cluster, tenant |-> "", res |-> g.res,
                                  disk |-> DiskTotal(g), note |-> "", prim |-> 0, dev |-> 0,
                                  cf |-> build_lxc_custom_fields(g, NoFields)])
        ELSE Updating(acc, "vm", v, lxc_changes(nb.vm[v], g))
apply_lxc_containers(nb, hosts) ==
    Checked(prepare_lxc_contexts(nb, LXCs(hosts)),
     FoldLeft(LAMBDA acc, g : write_lxc_container(acc, nb, g), Batch(nb), LXCs(hosts)).todo)
=============================================================================
