---------------------------- MODULE GuestNetwork ----------------------------
(***************************************************************************)
(* The network stages of VMs and containers, the placement of guests on    *)
(* their hosts, the disks of VMs, the sequence of stages, and the run of a *)
(* stage's writes.                                                         *)
(***************************************************************************)
EXTENDS Appliers

CONSTANT Unusable           \* loopback, link-local, multicast and null addresses

usable_addresses(n) == SelectSeq(n.ips, LAMBDA a : Bare(a) \notin Unusable)
NicsOf(nb, v) == Restricted(nb.nic, {i \in DOMAIN nb.nic : nb.nic[i].vm = v})
MacRecords(nb, addr) == {i \in DOMAIN nb.mac : nb.mac[i].addr = addr}
IpRecords(nb, addr, vrf) == {i \in DOMAIN nb.ip : nb.ip[i].addr = addr /\ nb.ip[i].vrf = vrf}
NicId(nb, v, g, n) == IdOr0(find_nic_sync_identity_matches(NicsOf(nb, v), g, n))
Available(at, nic) == at = Unassigned \/ (nic # 0 /\ at = <<"nic", nic>>)

(***************************************************************************)
(* Checks of one guest's interfaces.                                       *)
(***************************************************************************)
interface_match(nb, v, g, n) ==
    LET m == find_nic_sync_identity_matches(NicsOf(nb, v), g, n)
    IN  /\ Cardinality(m) <= 1
        /\ m = {} => \A i \in DOMAIN NicsOf(nb, v) :
                        nb.nic[i].name \notin {n.name, interface_display_name(g, n)}
validate_interface_names(nb, v, g) ==
    /\ Distinct([k \in DOMAIN g.nics |-> interface_display_name(g, g.nics[k])])
    /\ \A k \in DOMAIN g.nics :
          /\ interface_match(nb, v, g, g.nics[k])
          /\ \A i \in DOMAIN NicsOf(nb, v) :
                nb.nic[i].name = interface_display_name(g, g.nics[k]) => i = NicId(nb, v, g, g.nics[k])

check_vm_mac(nb, nic, n) ==
    n.mac # "" => LET m == MacRecords(nb, n.mac)
                  IN  Cardinality(m) <= 1 /\ \A i \in m : Available(nb.mac[i].at, nic)
(* A container's interface keeps the primary MAC it has.                   *)
check_lxc_mac(nb, nic, n) ==
    /\ check_vm_mac(nb, nic, n)
    /\ n.mac # "" /\ nic # 0 => nb.nic[nic].pmac \in {0} \cup MacRecords(nb, n.mac)

check_vm_ips(nb, nic, n) ==
    \A a \in Range(usable_addresses(n)) :
        LET m == IpRecords(nb, a, n.vrf)
        IN  Cardinality(m) <= 1 /\ \A i \in m : Available(nb.ip[i].at, nic)
check_lxc_ips(nb, nic, n) == check_vm_ips(nb, nic, n)

(* The sole usable address of the guest is its candidate for the primary.  *)
Candidates(g) ==
    UNION {{<<a, g.nics[k].vrf>> : a \in Range(usable_addresses(g.nics[k]))} : k \in DOMAIN g.nics}
BelongsTo(nb, ip, v) ==
    \E i \in DOMAIN nb.nic : nb.ip[ip].at = <<"nic", i>> /\ nb.nic[i].vm = v
prepare_vm_primary(nb, v, g) ==
    LET c == Only(Candidates(g))
        cur == nb.vm[v].prim
        m == IpRecords(nb, c[1], c[2])
    IN  CASE primary_owned(nb.vm[v]) \/ Cardinality(Candidates(g)) # 1 -> "none"
          [] ~primary_owned(nb.vm[v]) /\ Cardinality(Candidates(g)) = 1 ->
               CASE cur = 0 -> "set"
                 [] cur # 0 /\ m = {cur} -> "match"
                 [] cur # 0 /\ m # {cur} -> IF BelongsTo(nb, cur, v) THEN "preserve_manual" ELSE "raise"

find_vm(nb, g) == find_vm_sync_identity_matches(InCluster(nb), g)
prepare_vm_network_context(nb, g) ==
    /\ Cardinality(find_vm(nb, g)) = 1
    /\ LET v == Only(find_vm(nb, g))
       IN  /\ validate_interface_names(nb, v, g)
           /\ \A k \in DOMAIN g.nics : /\ check_vm_mac(nb, NicId(nb, v, g, g.nics[k]), g.nics[k])
                                       /\ check_vm_ips(nb, NicId(nb, v, g, g.nics[k]), g.nics[k])
           /\ prepare_vm_primary(nb, v, g) # "raise"
prepare_lxc_network_context(nb, g) ==
    /\ Cardinality(find_lxc_sync_identity_matches(nb.vm, g)) = 1
    /\ LET v == Only(find_lxc_sync_identity_matches(nb.vm, g))
       IN  /\ nb.vm[v].cluster = Cluster
           /\ validate_interface_names(nb, v, g)
           /\ \A k \in DOMAIN g.nics : /\ check_lxc_mac(nb, NicId(nb, v, g, g.nics[k]), g.nics[k])
                                       /\ check_lxc_ips(nb, NicId(nb, v, g, g.nics[k]), g.nics[k])

NicsOfAll(gs) == FlattenSeq([k \in DOMAIN gs |-> gs[k].nics])
DuplicateMacs(gs) == ~Distinct(SelectSeq([k \in DOMAIN NicsOfAll(gs) |-> NicsOfAll(gs)[k].mac],
                                         LAMBDA m : m # ""))
DuplicateIps(gs) ==
    ~Distinct(FlattenSeq([k \in DOMAIN NicsOfAll(gs) |->
        LET n == NicsOfAll(gs)[k]
        IN  [j \in DOMAIN usable_addresses(n) |-> <<usable_addresses(n)[j], n.vrf>>]]))
prepare_vm_network_contexts(nb, gs) ==
    /\ \A g \in Range(gs) : prepare_vm_network_context(nb, g)
    /\ ~DuplicateMacs(gs) /\ ~DuplicateIps(gs)
prepare_lxc_network_contexts(nb, gs) ==
    /\ \A g \in Range(gs) : prepare_lxc_network_context(nb, g)
    /\ ~DuplicateMacs(gs) /\ ~DuplicateIps(gs)

(* The refusal a plan reports as a blocked item: the first check that      *)
(* fails is the MAC of an interface.                                       *)
ManagedMACConflict(nb, gs) ==
    \E k \in DOMAIN gs :
        /\ \A j \in 1..(k - 1) : prepare_vm_network_context(nb, gs[j])
        /\ Cardinality(find_vm(nb, gs[k])) = 1
        /\ LET g == gs[k]
               v == Only(find_vm(nb, g))
               Fine(i) == /\ check_vm_mac(nb, NicId(nb, v, g, g.nics[i]), g.nics[i])
                          /\ check_vm_ips(nb, NicId(nb, v, g, g.nics[i]), g.nics[i])
           IN  /\ validate_interface_names(nb, v, g)
               /\ \E i \in DOMAIN g.nics : /\ ~check_vm_mac(nb, NicId(nb, v, g, g.nics[i]), g.nics[i])
                                           /\ \A j \in 1..(i - 1) : Fine(j)

(***************************************************************************)
(* Writes of one guest's interfaces, in this order: the interface, its MAC *)
(* record, its primary MAC, its addresses; after the last interface, the   *)
(* primary address of the guest.                                           *)
(***************************************************************************)
desired_interface_changes(i, g, n) ==
    Changed(i, [name |-> interface_display_name(g, n), on |-> TRUE,
                cf |-> build_nic_custom_fields(g, n, i.cf)])
WriteInterface(acc, nb, v, g, n, nic) ==
    IF nic = 0
    THEN Creating(acc, "nic", [vm |-> v, name |-> interface_display_name(g, n), on |-> TRUE,
                               pmac |-> 0, cf |-> build_nic_custom_fields(g, n, NoFields)])
    ELSE Updating(acc, "nic", nic, desired_interface_changes(nb.nic[nic], g, n))
write_mac(acc, nb, n, old, nic) ==
    LET m == MacRecords(nb, n.mac)
        id == IF m = {} THEN acc.next["mac"] ELSE Only(m)
        record == IF m = {} THEN Creating(acc, "mac", [addr |-> n.mac, at |-> <<"nic", nic>>])
                  ELSE Updating(acc, "mac", id, IF nb.mac[id].at = Unassigned
                                                THEN [at |-> <<"nic", nic>>] ELSE <<>>)
    IN  IF n.mac = "" THEN acc
        ELSE Updating(record, "nic", nic, IF old # 0 /\ nb.nic[old].pmac = id THEN <<>>
                                          ELSE [pmac |-> id])
write_ip(acc, nb, a, vrf, nic) ==
    LET m == IpRecords(nb, a, vrf)
        id == IF m = {} THEN acc.next["ip"] ELSE Only(m)
        done == IF m = {} THEN Creating(acc, "ip", [addr |-> a, vrf |-> vrf, at |-> <<"nic", nic>>])
                ELSE Updating(acc, "ip", id, IF nb.ip[id].at = Unassigned
                                             THEN [at |-> <<"nic", nic>>] ELSE <<>>)
    IN  [done EXCEPT !.ips = (<<a, vrf>> :> id) @@ @]
WriteNic(acc, nb, v, g, n) ==
    LET old == NicId(nb, v, g, n)
        nic == IF old = 0 THEN acc.next["nic"] ELSE old
    IN  FoldLeft(LAMBDA b, a : write_ip(b, nb, a, n.vrf, nic),
                 write_mac(WriteInterface(acc, nb, v, g, n, old), nb, n, old, nic),
                 usable_addresses(n))
WritePrimary(acc, nb, v, g, chosen) ==
    LET ip == acc.ips[Only(Candidates(g))]
    IN  Updating(acc, "vm", v, IF chosen /\ nb.vm[v].prim # ip THEN [prim |-> ip] ELSE <<>>)
GuestWrites(acc, nb, v, g, chosen) ==
    WritePrimary(FoldLeft(LAMBDA b, n : WriteNic(b, nb, v, g, n), [acc EXCEPT !.ips = <<>>], g.nics),
                 nb, v, g, chosen)
NetworkBatch(nb) == [next |-> Batch(nb).next, todo |-> <<>>, ips |-> <<>>]

write_vm_network(acc, nb, g) ==
    LET v == Only(find_vm(nb, g))
    IN  GuestWrites(acc, nb, v, g, prepare_vm_primary(nb, v, g) \in {"set", "match"})
(* A container's sole address becomes its primary, whatever it was before. *)
write_lxc_network(acc, nb, g) ==
    LET v == Only(find_lxc_sync_identity_matches(nb.vm, g))
    IN  GuestWrites(acc, nb, v, g, ~primary_owned(nb.vm[v]) /\ Cardinality(Candidates(g)) = 1)

apply_vm_networks(nb, hosts) ==
    Checked(prepare_vm_network_contexts(nb, VMs(hosts)),
     FoldLeft(LAMBDA acc, g : write_vm_network(acc, nb, g), NetworkBatch(nb), VMs(hosts)).todo)
apply_lxc_networks(nb, hosts) ==
    Checked(prepare_lxc_network_contexts(nb, LXCs(hosts)),
     FoldLeft(LAMBDA acc, g : write_lxc_network(acc, nb, g), NetworkBatch(nb), LXCs(hosts)).todo)

(***************************************************************************)
(* GUEST PLACEMENT and VM DISKS.                                           *)
(***************************************************************************)
Replaceable(nb, v, g) ==
    nb.vm[v].dev # 0 => \E i \in nb.dev[nb.vm[v].dev].cf.ids : i.inst = g.inst
needs_placement(nb, h, g) ==
    LET v == Only(find_guest(nb.vm, g))
        d == Only(find_sync_identity_matches(nb.dev, h))
    IN  /\ Cardinality(find_guest(nb.vm, g)) = 1
        /\ nb.vm[v].dev # d => /\ Replaceable(nb, v, g)
                               /\ nb.vm[v].cluster = nb.dev[d].cluster
Placed(nb, h) ==
    LET d == Only(find_sync_identity_matches(nb.dev, h))
        gs == SelectSeq(h.guests, LAMBDA g : g.kind # "lxc") \o SelectSeq(h.guests, LAMBDA g : g.kind = "lxc")
        moved == SelectSeq(gs, LAMBDA g : nb.vm[Only(find_guest(nb.vm, g))].dev # d)
    IN  IF find_sync_identity_matches(nb.dev, h) = {} THEN <<>>
        ELSE [k \in DOMAIN moved |-> UpdateOf("vm", Only(find_guest(nb.vm, moved[k])), [dev |-> d])]
apply_guest_placement(nb, hosts) ==
    Checked(\A h \in Range(hosts) :
               /\ ~HostMatchRaises(nb.dev, h)
               /\ LET m == find_sync_identity_matches(nb.dev, h)
                  IN  m # {} => Cardinality(m) = 1 /\ \A g \in Range(h.guests) : needs_placement(nb, h, g),
     FlattenSeq([k \in DOMAIN hosts |-> Placed(nb, hosts[k])]))

disk_identity(g, d) == Identity(g.inst, "vm-disk", g.key \o ":" \o d.key)
DiskRecords(nb, g, d) == {i \in DOMAIN nb.disk : nb.disk[i].ident = disk_identity(g, d)}
plan_vm_disks(nb, v, g) ==
    /\ Distinct([k \in DOMAIN g.disks |-> g.disks[k].key])
    /\ \A k \in DOMAIN g.disks :
          LET m == DiskRecords(nb, g, g.disks[k])
          IN  /\ Cardinality(m) <= 1
              /\ \A i \in m : nb.disk[i].vm = v
              /\ \A i \in DOMAIN nb.disk \ m : nb.disk[i].vm = v => nb.disk[i].name # g.disks[k].name
WriteDisk(acc, nb, v, g, d) ==
    LET want == [name |-> d.name, size |-> (d.size + MB - 1) \div MB, ident |-> disk_identity(g, d)]
        m == DiskRecords(nb, g, d)
    IN  IF m = {} THEN Creating(acc, "disk", [vm |-> v] @@ want)
        ELSE Updating(acc, "disk", Only(m), Changed(nb.disk[Only(m)], want))
apply_virtual_disks(nb, hosts) ==
    Checked(\A g \in Range(VMs(hosts)) :
               /\ Cardinality(find_vm_sync_identity_matches(nb.vm, g)) = 1
               /\ plan_vm_disks(nb, Only(find_vm_sync_identity_matches(nb.vm, g)), g),
     FoldLeft(LAMBDA acc, g :
                  FoldLeft(LAMBDA b, d : WriteDisk(b, nb, Only(find_vm_sync_identity_matches(nb.vm, g)), g, d),
                           acc, g.disks),
                  Batch(nb), VMs(hosts)).todo)

(***************************************************************************)
(* The stages in their order, and the execution of one step of a stage.    *)
(***************************************************************************)
STAGES == <<"HOST", "QEMU VM", "QEMU NETWORK", "LXC", "LXC NETWORK", "GUEST PLACEMENT", "VM DISKS">>
Prepare(stage, nb, hosts) ==
    CASE stage = "HOST" -> apply_hosts(nb, hosts, TRUE)
      [] stage = "QEMU VM" -> apply_virtual_machines(nb, hosts)
      [] stage = "QEMU NETWORK" -> apply_vm_networks(nb, hosts)
      [] stage = "LXC" -> apply_lxc_containers(nb, hosts)
      [] stage = "LXC NETWORK" -> apply_lxc_networks(nb, hosts)
      [] stage = "GUEST PLACEMENT" -> apply_guest_placement(nb, hosts)
      [] stage = "VM DISKS" -> apply_virtual_disks(nb, hosts)

(* One NetBox call: PlanningRecord.update and PlanningEndpoint.create have *)
(* the effect on the overlay that the call has on NetBox.                  *)
Perform(nb, s) ==
    IF s.do = "create" THEN [nb EXCEPT ![s.ep] = (s.id :> s.set) @@ @]
                       ELSE [nb EXCEPT ![s.ep][s.id] = s.set @@ @]

NewAddress(nb, s) == <<Create("ip", NextId(nb, "ip"), [addr |-> s.addr, vrf |-> 0, at |-> s.at])>>
AddressUnchecked(nb, s) ==
    LET m == find_ip_matches(nb, s.addr)
    IN  [ok |-> Cardinality(m) <= 1,
         steps |-> IF m = {} THEN NewAddress(nb, s) ELSE <<UpdateOf("ip", Only(m), [at |-> s.at])>>]
(* _write_addresses: the address is looked up again, and refused when it   *)
(* is ambiguous or belongs to another interface by now.                    *)
write_address(nb, s) ==
    LET m == find_ip_matches(nb, s.addr)
        free == \E i \in m : nb.ip[i].at = Unassigned
    IN  [ok |-> Cardinality(m) <= 1 /\ \A i \in m : nb.ip[i].at \in {Unassigned, s.at},
         steps |-> IF m = {} THEN NewAddress(nb, s)
                   ELSE IF free THEN <<UpdateOf("ip", Only(m), [at |-> s.at])>> ELSE <<>>]
PrimarySteps(nb, s) ==
    IF nb.dev[s.dev].prim # s.ip /\ ~primary_owned(nb.dev[s.dev])
    THEN <<UpdateOf("dev", s.dev, [prim |-> s.ip])>> ELSE <<>>
(* The address a host's primary step will use is the record just checked.  *)
Bind(nb, s, rest) ==
    LET ip == IF find_ip_matches(nb, s.addr) = {} THEN NextId(nb, "ip") ELSE Only(find_ip_matches(nb, s.addr))
    IN  [k \in DOMAIN rest |-> IF rest[k].do = "primary" /\ rest[k].dev = s.dev /\ rest[k].addr = s.addr
                               THEN [rest[k] EXCEPT !.ip = ip] ELSE rest[k]]

(* What the next step does in state nb: raise, or replace itself by at     *)
(* most some NetBox calls.                                                 *)
Raises(nb, s) ==
    CASE s.do = "interfaces" -> ~load_existing_interfaces(nb, s.dev)
      [] s.do = "address" -> ~write_address(nb, s).ok
      [] s.do = "update" -> s.id \notin DOMAIN nb[s.ep]
      [] s.do \in {"create", "primary"} -> FALSE
Expand(nb, todo) ==
    LET s == Head(todo)
        rest == Tail(todo)
    IN  CASE s.do = "interfaces" -> InterfaceSteps(nb, s.dev, s.host) \o rest
          [] s.do = "address" -> write_address(nb, s).steps \o Bind(nb, s, rest)
          [] s.do = "primary" -> PrimarySteps(nb, s) \o rest
          [] s.do \in {"create", "update"} -> todo
=============================================================================
