------------------------------ MODULE Inventory ------------------------------
(***************************************************************************)
(* From a discovered inventory to the writes of a synchronization: the     *)
(* canonical order, the VRF of each interface, conflicting addresses, the  *)
(* inventory an executor may use, the simulation of every stage on a       *)
(* write-recording copy of NetBox, the report of missing objects, the      *)
(* discovery review and the plan an operator confirms.                     *)
(*                                                                         *)
(* conf is the source's configuration [policy, rules, ruled]: rules maps   *)
(* <<host key, network>> to a VRF id.  env says whether the selected VRFs  *)
(* and catalog objects are unchanged and the observation field is ready.   *)
(***************************************************************************)
EXTENDS GuestNetwork

CONSTANTS KeyOrder,         \* the provider keys in the order of their text
          NodeOf            \* the host key a legacy identity starts with

(***************************************************************************)
(* canonical_hosts: memberships sorted by key at every level.              *)
(***************************************************************************)
KeyRank(key) == SelectInSeq(KeyOrder, LAMBDA k : k = key)
Before(a, b) == KeyRank(a.key) < KeyRank(b.key)
Sorted(s) == SortSeq(s, Before)
HostsSorted(hosts) == Sorted(hosts)
canonical_hosts(hosts) ==
    Sorted([i \in DOMAIN hosts |->
        [hosts[i] EXCEPT !.guests = Sorted([j \in DOMAIN hosts[i].guests |->
            [hosts[i].guests[j] EXCEPT !.nics = Sorted(@), !.disks = Sorted(@)]])]])

(***************************************************************************)
(* Network scopes and conflicting facts.                                   *)
(***************************************************************************)
EachNic(hosts, F(_, _, _)) ==
    [i \in DOMAIN hosts |-> [hosts[i] EXCEPT !.guests =
        [j \in DOMAIN hosts[i].guests |-> [hosts[i].guests[j] EXCEPT !.nics =
            [k \in DOMAIN hosts[i].guests[j].nics |->
                F(hosts[i], hosts[i].guests[j], hosts[i].guests[j].nics[k])]]]]]

observe_mac_conflicts(nb, nic, n) ==
    LET m == MacRecords(nb, n.mac)
    IN  {i \in m : n.mac # "" /\ (nb.mac[i].at # <<"nic", nic>> \/ Cardinality(m) > 1)}
observe_ip_conflicts(nb, nic, n) ==
    LET bares == {Bare(a) : a \in Range(n.ips)}
    IN  {i \in DOMAIN nb.ip :
           LET r == nb.ip[i]
           IN  /\ Bare(r.addr) \in bares
               /\ \/ r.vrf = n.vrf /\ (r.at # <<"nic", nic>> \/ r.addr \notin Range(n.ips))
                  \/ r.vrf # n.vrf /\ nic # 0 /\ r.at = <<"nic", nic>>}
observe_scope_conflicts(nb, g, n) ==
    LET m == find_nic_sync_identity_matches(nb.nic, g, n)
    IN  IF Cardinality(m) > 1 THEN n
        ELSE [n EXCEPT !.macc = observe_mac_conflicts(nb, IdOr0(m), n),
                       !.ipc = {[id |-> i, addr |-> nb.ip[i].addr] : i \in observe_ip_conflicts(nb, IdOr0(m), n)}]
scoped_inventory(nb, hosts, conf) ==
    LET Scope(h, g, n) ==
            LET at == <<h.key, n.bridge>>
                scoped == [n EXCEPT !.vrf = IF at \in DOMAIN conf.rules THEN conf.rules[at] ELSE 0]
            IN  IF conf.ruled \/ conf.policy = "observe" THEN observe_scope_conflicts(nb, g, scoped)
                ELSE scoped
    IN  EachNic(hosts, Scope)

NicPlaces(hosts) ==
    {p \in (DOMAIN hosts) \X (1..9) \X (1..9) :
        p[2] \in DOMAIN hosts[p[1]].guests /\ p[3] \in DOMAIN hosts[p[1]].guests[p[2]].nics}
NicAt(hosts, p) == hosts[p[1]].guests[p[2]].nics[p[3]]
IpFacts(hosts) ==
    UNION {LET n == NicAt(hosts, p)
           IN  {<<Bare(a), n.vrf, p, a, 0>> : a \in Range(usable_addresses(n))}
                 \cup {<<Bare(c.addr), n.vrf, p, c.addr, c.id>> : c \in n.ipc} : p \in NicPlaces(hosts)}
MacFacts(hosts) ==
    UNION {LET n == NicAt(hosts, p)
           IN  IF n.mac = "" THEN {} ELSE {<<n.mac, p, i>> : i \in {0} \cup n.macc} : p \in NicPlaces(hosts)}
DisputedIps(hosts) ==
    {<<f[1], f[2]>> : f \in {f \in IpFacts(hosts) : \E g \in IpFacts(hosts) \ {f} :
                                                      g[1] = f[1] /\ g[2] = f[2]}}
DisputedMacs(hosts) ==
    {f[1] : f \in {f \in MacFacts(hosts) : \E g \in MacFacts(hosts) \ {f} : g[1] = f[1]}}
(* Keys two VMs, or two containers, of the inventory share.                *)
DisputedGuests(hosts) ==
    {k \in UNION {{g.key : g \in Range(h.guests)} : h \in Range(hosts)} :
        \E lxc \in BOOLEAN :
            Len(SelectSeq(IF lxc THEN LXCs(hosts) ELSE VMs(hosts), LAMBDA g : g.key = k)) > 1}
inventory_conflicts(hosts) ==
    ({"VM_IDENTITY"} \X DisputedGuests(hosts)) \cup ({"IP_ASSIGNMENT"} \X DisputedIps(hosts))
      \cup ({"MAC_ASSIGNMENT"} \X DisputedMacs(hosts))

(* Under the policy observe a disputed fact is evidence kept on the        *)
(* interface and no assignment.                                            *)
project_interface_observations(ips, macs, n) ==
    LET Is(a) == <<Bare(a), n.vrf>> \in ips
        seen == {a \in Range(n.ips) : Is(a)} \cup (IF n.mac \in macs THEN {<<n.mac, 0>>} ELSE {})
    IN  [n EXCEPT !.ips = SelectSeq(@, LAMBDA a : ~Is(a)),
                  !.mac = IF @ \in macs THEN "" ELSE @,
                  !.obs = IF seen = {} THEN {<<"clear", 0>>} ELSE seen]
assignment_inventory(hosts, policy) ==
    LET c == inventory_conflicts(hosts)
        Project(h, g, n) == project_interface_observations(DisputedIps(hosts), DisputedMacs(hosts), n)
    IN  IF policy = "strict" \/ DisputedGuests(hosts) # {}
        THEN [hosts |-> hosts, blockers |-> c, seen |-> {}]
        ELSE [hosts |-> EachNic(hosts, Project), blockers |-> {}, seen |-> c]
executable_inventory(nb, env, hosts, conf) ==
    LET a == assignment_inventory(canonical_hosts(scoped_inventory(nb, hosts, conf)), conf.policy)
    IN  [ok |-> env.vrf /\ (conf.policy = "observe" => a.blockers = {} /\ env.field),
         hosts |-> a.hosts, seen |-> a.seen]

(***************************************************************************)
(* A stage run to its end on a copy of NetBox.  result is [ok, nb, muts,   *)
(* why]: why names the stage that refused.                                 *)
(***************************************************************************)
RECURSIVE RunSteps(_, _)
RunSteps(result, todo) ==
    IF todo = <<>> \/ ~result.ok THEN result
    ELSE IF Raises(result.nb, Head(todo)) THEN [result EXCEPT !.ok = FALSE]
    ELSE LET next == Expand(result.nb, todo)
         IN  IF next # todo THEN RunSteps(result, next)
             ELSE RunSteps([result EXCEPT !.nb = Perform(@, Head(todo)), !.muts = Append(@, Head(todo))],
                           Tail(todo))
run_stage(result, stage, hosts) ==
    LET p == Prepare(stage, result.nb, hosts)
    IN  IF ~result.ok THEN result
        ELSE IF ~p.ok THEN [result EXCEPT !.ok = FALSE, !.why = stage]
        ELSE RunSteps([result EXCEPT !.why = stage], p.todo)
Simulate(nb, hosts) ==
    FoldLeft(LAMBDA r, stage : run_stage(r, stage, hosts),
             [ok |-> TRUE, nb |-> nb, muts |-> <<>>, why |-> ""], STAGES)

(***************************************************************************)
(* The report of managed objects discovery no longer shows.                *)
(***************************************************************************)
GuestsOf(hosts) == UNION {Range(h.guests) : h \in Range(hosts)}
DiscoveredGuests(hosts) ==
    UNION {{LegacyIdentity(vm_identity_source_id(g)), guest_identity(g)} : g \in GuestsOf(hosts)}
DiscoveredNics(hosts) ==
    UNION {UNION {{LegacyIdentity(nic_identity_source_id(g, n)), nic_source_identity(g, n)} :
                  n \in Range(g.nics)} : g \in GuestsOf(hosts)}
(* Legacy keys count under a host whose source owns legacy identities.     *)
V2Of(cf, hosts) == {i \in cf.ids : i.schema = "v2" /\ \E h \in Range(hosts) : i.inst = h.inst}
LegacyOf(cf, hosts) ==
    {i \in cf.ids : i.schema = "v1" /\ \E h \in Range(hosts) : h.owner /\ NodeOf[i.key] = h.key}
managed_identity(cf, hosts) == IF V2Of(cf, hosts) # {} THEN V2Of(cf, hosts) ELSE LegacyOf(cf, hosts)

find_missing_objects(nb, hosts) ==
    LET Managed(cf) == managed_identity(cf, hosts)
        guests == {v \in DOMAIN InCluster(nb) : Managed(nb.vm[v].cf) # {}}
        gone == {v \in guests : Managed(nb.vm[v].cf) \cap DiscoveredGuests(hosts) = {}}
        nics == {i \in DOMAIN nb.nic : nb.nic[i].vm \in guests \ gone /\ Managed(nb.nic[i].cf) # {}}
    IN  [guests |-> gone,
         nics |-> {i \in nics : Managed(nb.nic[i].cf) \cap DiscoveredNics(hosts) = {}},
         raises |-> \/ \E v \in DOMAIN InCluster(nb) : Cardinality(Managed(nb.vm[v].cf)) > 1
                    \/ \E i \in nics : Cardinality(Managed(nb.nic[i].cf)) > 1]

(***************************************************************************)
(* The discovery review: what a plan says of each discovered object.       *)
(***************************************************************************)
generic_item(ident, name, objs, target) ==
    LET managed == {i \in DOMAIN objs : ident \in objs[i].cf.ids}
        names == {i \in target : objs[i].name = name}
    IN  IF managed # {}
        THEN IF Cardinality(managed) = 1 /\ managed \subseteq target THEN "MANAGED" ELSE "CONFLICT"
        ELSE IF \E i \in names : objs[i].cf.ids # {} THEN "CONFLICT"
        ELSE IF names # {} THEN "REVIEW_REQUIRED" ELSE "WOULD_CREATE"
TargetDevices(nb) ==
    {d \in DOMAIN nb.dev : /\ nb.dev[d].site = Site
                           /\ \/ nb.dev[d].cluster = Cluster
                              \/ nb.dev[d].cluster = "" /\ nb.dev[d].cf.refs}
provider_host_item(nb, h) ==
    IF (\E d \in DOMAIN nb.dev : host_source_identity(h) \in nb.dev[d].cf.ids) \/ SelectelHits(nb.dev, h) = {}
    THEN "none"
    ELSE IF SelectelHits(nb.dev, h) \subseteq TargetDevices(nb) THEN "MANAGED" ELSE "CONFLICT"
proxmox_host_item(nb, h) ==
    LET item == generic_item(host_source_identity(h), h.name, nb.dev, TargetDevices(nb))
        m == ManagementIpMatches(nb, h)
    IN  IF provider_host_item(nb, h) # "none" THEN provider_host_item(nb, h)
        ELSE IF item # "WOULD_CREATE" \/ m = {} THEN item
        ELSE IF Cardinality(m) # 1 \/ ~(m \subseteq TargetDevices(nb)) \/ nb.dev[Only(m)].cf.ids # {}
        THEN "CONFLICT" ELSE "REVIEW_REQUIRED"
build_proxmox_review(nb, hosts) ==
    {<<"host", h.key, proxmox_host_item(nb, h), HostDevice(nb, h)>> : h \in Range(hosts)}
      \cup {<<g.kind, g.key, generic_item(guest_identity(g), g.name, nb.vm, DOMAIN InCluster(nb)),
               IdOr0(find_guest(nb.vm, g))>> : g \in GuestsOf(hosts)}

(***************************************************************************)
(* build_runtime_plan: a plan [status, muts, items].  "raise": no plan at  *)
(* all; "blocked": at least one blocking item; "ready": apply_allowed.     *)
(***************************************************************************)
NoPlan(status) == [status |-> status, muts |-> <<>>, seen |-> {}, review |-> {}, unmade |-> {}, same |-> {}]
(* The items of a plan: the writes the executors made on the copy, what    *)
(* needs review, what is only observed, creations nothing performed, and   *)
(* matched objects nothing changes.                                        *)
plan_from_mutations(nb, review, sim, seen) ==
    LET Endpoint(r) == IF r[1] = "host" THEN "dev" ELSE "vm"
        mutated == {<<s.ep, s.id>> : s \in Range(sim.muts)}
        Created(r) == \E s \in Range(sim.muts) :
                         /\ s.do = "create" /\ s.ep = Endpoint(r)
                         /\ \E i \in s.set.cf.ids : i.schema = "v2" /\ i.kind = r[1] /\ i.key = r[2]
    IN  [status |-> "ready", muts |-> sim.muts, seen |-> seen,
         review |-> {r \in review : r[3] = "REVIEW_REQUIRED"},
         unmade |-> {r \in review : r[3] = "WOULD_CREATE" /\ ~Created(r)},
         same |-> {r \in review : r[3] = "MANAGED" /\ <<Endpoint(r), r[4]>> \notin mutated}]
SimulatedPlan(nb, x, review, sim) ==
    IF sim.ok /\ ~find_missing_objects(nb, x.hosts).raises THEN plan_from_mutations(nb, review, sim, x.seen)
    ELSE NoPlan(IF sim.why = "QEMU NETWORK" /\ ManagedMACConflict(sim.nb, VMs(x.hosts))
                THEN "blocked" ELSE "raise")
ReviewedPlan(nb, env, x, review) ==
    IF (\E r \in review : r[3] = "CONFLICT") \/ ~x.ok THEN NoPlan("blocked")
    ELSE SimulatedPlan(nb, x, review, Simulate(nb, x.hosts))
PlanFor(nb, env, hosts, conf) ==
    IF \/ ~env.vrf \/ assignment_inventory(hosts, conf.policy).blockers # {}
       \/ \E h \in Range(hosts) : HostMatchRaises(nb.dev, h)
       \/ ~Distinct([k \in DOMAIN VMs(hosts) |-> VMs(hosts)[k].name])
    THEN NoPlan("blocked")
    ELSE IF ~env.place THEN NoPlan("raise")
    ELSE ReviewedPlan(nb, env, executable_inventory(nb, env, hosts, conf), build_proxmox_review(nb, hosts))
build_runtime_plan(nb, env, found, conf) ==
    PlanFor(nb, env, scoped_inventory(nb, canonical_hosts(found), conf), conf)
=============================================================================
