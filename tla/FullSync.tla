------------------------------ MODULE FullSync ------------------------------
(***************************************************************************)
(* Synchronizations of one source with NetBox: a plan is built and         *)
(* confirmed, apply_full_sync checks every stage on a copy of NetBox, and  *)
(* then each stage reads NetBox again, checks its whole batch and writes   *)
(* one object per NetBox call.  Meanwhile operators and other sources edit *)
(* NetBox, calls fail, and the process dies.                               *)
(***************************************************************************)
EXTENDS Inventory

CONSTANTS Scenes,           \* [nb, conf, invs]: what NetBox holds first, the
                            \* configuration, and what each run discovers
          Records,          \* objects other people may create: [ep, id, obj]
          MaxTrouble        \* how often somebody interferes or a call fails

VARIABLES nb, env, scene, phase, plan, hosts, stage, todo, wrote, rounds, handEdits, breaks,
          base, goal, clean
fullVars == <<nb, env, scene, phase, plan, hosts, stage, todo, wrote, rounds, handEdits, breaks, base, goal, clean>>
(* base is NetBox as the stage knows it, from its last read and its own    *)
(* writes since; goal is where the precheck ended; clean says that nobody  *)
(* else changed anything since the plan.                                   *)

Found == scene.invs[rounds]
Conf == scene.conf

FullInit ==
    /\ scene \in Scenes
    /\ nb = scene.nb /\ base = nb /\ goal = nb
    /\ env = [vrf |-> TRUE, place |-> TRUE, field |-> TRUE]
    /\ phase = "idle" /\ plan = NoPlan("none") /\ hosts = <<>>
    /\ stage = 0 /\ todo = <<>> /\ wrote = <<>>
    /\ rounds = 0 /\ handEdits = 0 /\ breaks = 0 /\ clean = TRUE

(* The provider is read and a plan is built.                               *)
Plan ==
    /\ phase \in {"idle", "done", "failed", "died", "refused"} /\ rounds < Len(scene.invs)
    /\ rounds' = rounds + 1
    /\ plan' = IF Conf.direct THEN NoPlan("direct") ELSE build_runtime_plan(nb, env, scene.invs[rounds'], Conf)
    /\ phase' = IF plan'.status \in {"direct", "ready"} THEN "planned" ELSE "refused"
    /\ clean' = TRUE /\ wrote' = <<>> /\ hosts' = <<>> /\ stage' = 0 /\ todo' = <<>>
    /\ base' = nb /\ goal' = nb
    /\ UNCHANGED <<nb, env, scene, handEdits, breaks>>

(* apply_full_sync up to its first write.  A confirmed plan is compared    *)
(* with one built from a fresh read first.                                 *)
Fresh(p) == p.status = "direct" \/ p = build_runtime_plan(nb, env, Found, Conf)
Precheck(x, sim) == x.ok /\ env.place /\ sim.ok /\ ~find_missing_objects(nb, x.hosts).raises
GlobalPrecheck(x, sim) ==
    IF Fresh(plan) /\ Precheck(x, sim)
    THEN phase' = "writing" /\ hosts' = x.hosts /\ stage' = 1 /\ goal' = sim.nb
    ELSE phase' = "refused" /\ UNCHANGED <<hosts, stage, goal>>
apply_full_sync ==
    /\ phase = "planned"
    /\ \E x \in {executable_inventory(nb, env, canonical_hosts(Found), Conf)} :
          GlobalPrecheck(x, Simulate(nb, x.hosts))
    /\ UNCHANGED <<nb, env, scene, plan, todo, wrote, rounds, handEdits, breaks, base, clean>>

(* A stage reads what it needs and checks its batch.  stage is odd while   *)
(* the stage 1 + stage \div 2 has yet to start, even while it writes.      *)
StageName == STAGES[(stage + 1) \div 2]
BeginStage ==
    /\ phase = "writing" /\ stage % 2 = 1
    /\ \E p \in {Prepare(StageName, nb, hosts)} :
           IF p.ok /\ env.place THEN /\ todo' = p.todo /\ stage' = stage + 1 /\ base' = nb
                                     /\ UNCHANGED phase
           ELSE phase' = "failed" /\ UNCHANGED <<todo, stage, base>>
    /\ UNCHANGED <<nb, env, scene, plan, hosts, wrote, rounds, handEdits, breaks, goal, clean>>

Writing == phase = "writing" /\ stage % 2 = 0 /\ todo # <<>>
(* The host stage reads again before some of its writes.                   *)
ReadAgain ==
    /\ Writing /\ ~Raises(nb, Head(todo)) /\ Expand(nb, todo) # todo
    /\ todo' = Expand(nb, todo) /\ base' = nb
    /\ UNCHANGED <<nb, env, scene, phase, plan, hosts, stage, wrote, rounds, handEdits, breaks, goal, clean>>
Raise ==
    /\ Writing /\ Raises(nb, Head(todo))
    /\ phase' = "failed"
    /\ UNCHANGED <<nb, env, scene, plan, hosts, stage, todo, wrote, rounds, handEdits, breaks, base, goal, clean>>
Write ==
    /\ Writing /\ ~Raises(nb, Head(todo)) /\ Expand(nb, todo) = todo
    /\ nb' = Perform(nb, Head(todo)) /\ wrote' = Append(wrote, Head(todo)) /\ todo' = Tail(todo)
    /\ base' = Perform(base, Head(todo))
    /\ UNCHANGED <<env, scene, phase, plan, hosts, stage, rounds, handEdits, breaks, goal, clean>>
EndStage ==
    /\ phase = "writing" /\ stage % 2 = 0 /\ todo = <<>>
    /\ stage' = stage + 1
    /\ phase' = IF stage \div 2 = Len(STAGES) THEN "done" ELSE phase
    /\ UNCHANGED <<nb, env, scene, plan, hosts, todo, wrote, rounds, handEdits, breaks, base, goal, clean>>

(* A call fails, with or without its effect, or the process dies.          *)
Fault ==
    /\ Writing /\ handEdits + breaks < MaxTrouble
    /\ Head(todo).do \in {"create", "update"} /\ ~Raises(nb, Head(todo))
    /\ breaks' = breaks + 1 /\ phase' = "died"
    /\ nb' \in {nb, Perform(nb, Head(todo))}
    /\ UNCHANGED <<env, scene, plan, hosts, stage, todo, wrote, rounds, handEdits, base, goal, clean>>

(* Somebody else creates an object; changes a custom field, the owner or   *)
(* the name of a managed one; moves it; chooses its primary address; takes *)
(* an address or MAC away; or changes the catalog.                         *)
Managed(n, ep) == {i \in DOMAIN n[ep] : i < Foreign}
OtherEdits(n) ==
    {[n EXCEPT ![r.ep] = (r.id :> r.obj) @@ @] : r \in {r \in Records : r.id \notin DOMAIN n[r.ep]}}
      \cup UNION {UNION {{[n EXCEPT ![ep][i].cf.misc = "manual"],
                         [n EXCEPT ![ep][i].cf.ids = @ \cup {Identity("B", ep, "7")}],
                         [n EXCEPT ![ep][i].cf.refs = TRUE, ![ep][i].cf.own = {"primary_ip4_id"}],
                         [n EXCEPT ![ep][i].name = "other"]} : i \in Managed(n, ep)} : ep \in {"dev", "vm", "nic"}}
      \cup UNION {{[n EXCEPT ![ep][i].cluster = "elsewhere"] : i \in Managed(n, ep)} : ep \in {"dev", "vm"}}
      \cup {[n EXCEPT !.dev[i].site = "elsewhere"] : i \in Managed(n, "dev")}
      \cup UNION {{[n EXCEPT !.vm[i].prim = p] : p \in {0} \cup DOMAIN n.ip} : i \in Managed(n, "vm")}
      \cup {[n EXCEPT !.vm[i].dev = Foreign] : i \in Managed(n, "vm")}
      \cup UNION {{[n EXCEPT ![ep][i].at = a] : i \in Managed(n, ep), a \in {Unassigned, <<"nic", Foreign>>}} :
                  ep \in {"ip", "mac"}}
Edit ==
    /\ handEdits + breaks < MaxTrouble /\ phase \in {"planned", "writing"}
    /\ handEdits' = handEdits + 1 /\ clean' = FALSE
    /\ \/ nb' \in OtherEdits(nb) \ {nb} /\ UNCHANGED env
       \/ (\E f \in DOMAIN env : env' = [env EXCEPT ![f] = FALSE]) /\ UNCHANGED nb
    /\ UNCHANGED <<scene, phase, plan, hosts, stage, todo, wrote, rounds, breaks, base, goal>>

FullNext == Plan \/ apply_full_sync \/ BeginStage \/ ReadAgain \/ Raise \/ Write \/ EndStage \/ Fault \/ Edit
FullSpec == FullInit /\ [][FullNext]_fullVars

-----------------------------------------------------------------------------
(* What applying the same discovery now would do.                          *)
Repeat(x) == IF x.ok THEN Simulate(nb, x.hosts) ELSE [ok |-> FALSE, nb |-> nb, muts |-> <<>>, why |-> ""]
Again == Repeat(executable_inventory(nb, env, canonical_hosts(Found), Conf))
Settled(result) == result.ok /\ result.muts = <<>>
EndsAt(result, end) == result.ok /\ result.nb = end

(* "every stage must complete its read-only precheck before ANY stage may  *)
(* write": when the simulated precheck passed and nobody else changed      *)
(* NetBox since, no stage refuses or raises in the write phase, so a       *)
(* refusal never leaves a run half written.                                *)
NoLateRefusal == phase = "failed" => ~clean

(* A run nobody interfered with writes exactly the mutations of the plan   *)
(* the operator confirmed, in their order, and ends where the precheck     *)
(* ended (plan_from_mutations over the recording facade).                  *)
PlanIsExact ==
    phase = "done" /\ clean => nb = goal /\ (plan.status = "ready" => wrote = plan.muts)

(* After a run the same discovery asks for nothing more: the comparisons   *)
(* of every stage see what the writes stored as equal.                     *)
Idempotent == phase = "done" /\ clean => Settled(Again)

(* A run that died between two calls, or whose last call failed with or    *)
(* without its effect, can be repeated: its own half-written objects are   *)
(* recognised, nothing is refused, and the repeat ends where the           *)
(* interrupted run would have ended.                                       *)
Resumable == phase = "died" /\ clean => EndsAt(Again, goal)

(* The plan does not depend on the order in which the provider listed its  *)
(* guests (canonical_hosts).                                               *)
Reordered(hs) == [i \in DOMAIN hs |-> [hs[i] EXCEPT !.guests = Reverse(@)]]
OrderIsIrrelevant ==
    phase = "planned" /\ plan.status = "ready" /\ clean =>
        build_runtime_plan(nb, env, Reordered(Found), Conf) = plan

(* In a plan that may be applied every discovered guest is written, left   *)
(* as it is, or listed for review, and no creation the review announced is *)
(* missing from what the executors did (plan_from_mutations,               *)
(* EXECUTOR_CREATE_UNSUPPORTED).                                           *)
PlanAccounts ==
    plan.status = "ready" =>
        /\ plan.unmade = {}
        /\ phase = "planned" /\ clean =>
              \A g \in GuestsOf(Found) :
                  \/ \E r \in plan.same \cup plan.review : r[1] = g.kind /\ r[2] = g.key
                  \/ \E s \in Range(plan.muts) : s.ep = "vm" /\ "cf" \in DOMAIN s.set /\ guest_identity(g) \in s.set.cf.ids
                  \/ \E s \in Range(plan.muts) : s.ep = "vm" /\ find_guest(nb.vm, g) = {s.id}

(* The reviewed plan is the truth about the run: it does not depend on the *)
(* listing order, accounts for every guest, is carried out to the letter,  *)
(* and is refused before the first write or not at all.                    *)
PlanHolds == NoLateRefusal /\ PlanIsExact /\ OrderIsIrrelevant /\ PlanAccounts

(* The same synchronization once more: it changes nothing after a run that *)
(* ended, and completes one that was cut off at any call.                  *)
Repeatable == Idempotent /\ Resumable

(* The disappearance report and the executors agree: a guest reported as   *)
(* missing is none a stage would update, and every guest of the target     *)
(* cluster with an identity of this source is one or the other.            *)
MissingIsExact ==
    phase = "planned" =>
        LET gone == find_missing_objects(nb, Found).guests
            met == UNION {find_guest(nb.vm, g) : g \in GuestsOf(Found)}
        IN  /\ gone \cap met = {}
            /\ \A v \in DOMAIN InCluster(nb) : V2Of(nb.vm[v].cf, Found) # {} => v \in gone \cup met

(* Two objects the synchronizer made or matched never carry one identity:  *)
(* renames, moves and interrupted runs do not make it create a second one. *)
OneIdentity ==
    \A ep \in {"dev", "vm", "nic"} : \A i, j \in DOMAIN nb[ep] \ {r.id : r \in Records} :
        i # j => ~\E x \in nb[ep][i].cf.ids \cap nb[ep][j].cf.ids : x.inst = "A"

(* What NetBox calls an object of this source is one: no identity twice,   *)
(* and every one of them either discovered or reported as missing.         *)
IdentitiesExact == OneIdentity /\ MissingIsExact

-----------------------------------------------------------------------------
BySync == handEdits' = handEdits
Touched(ep) == {i \in DOMAIN nb[ep] : nb'[ep][i] # nb[ep][i]}

(* An address or MAC record another interface holds is not taken over: a   *)
(* step assigns only what is unassigned in NetBox, or was when the stage   *)
(* looked, should somebody have assigned it in between (the checks of each *)
(* stage, and the second look of the host stage); the stage's own          *)
(* assignments count too.                                                  *)
NoTakeover ==
    [][BySync => \A ep \in {"ip", "mac"} : \A i \in Touched(ep) :
           nb'[ep][i].at # nb[ep][i].at => i \in DOMAIN base[ep] /\ base[ep][i].at = Unassigned]_fullVars

(* Writing an object takes nothing of others out of NetBox that the stage  *)
(* knew of: identities and names of other sources, legacy identities,      *)
(* provider data and manual custom fields ("Send the complete current +    *)
(* managed CF map so existing manual fields are preserved").  Only what    *)
(* somebody else wrote after the stage's read may be set back to that.     *)
OfOthers(ids) == {x \in ids : x.schema = "v1" \/ x.inst # "A"}
KeepsOthers ==
    [][BySync => \A ep \in {"dev", "vm", "nic"} : \A i \in Touched(ep) :
           LET at == nb[ep][i].cf
               is == nb'[ep][i].cf
               known == base[ep][i].cf
               Kept(f) == is[f] = at[f] \/ (is[f] = known[f] /\ at[f] # known[f])
           IN  /\ OfOthers(at.ids) \ is.ids \subseteq at.ids \ known.ids
               /\ \A f \in {"misc", "refs", "own", "sel"} : Kept(f)]_fullVars

(* The same at the moment of the write: "Full merged map preserves all     *)
(* unrelated/manual custom fields."                                        *)
ManualKept ==
    [][BySync => \A ep \in {"dev", "vm"} : \A i \in Touched(ep) : nb'[ep][i].cf.misc = nb[ep][i].cf.misc]_fullVars

(* A primary address a provider owns stays; a VM's primary is only filled  *)
(* in where there was none, whatever addresses the guest reports later     *)
(* (prepare_vm_primary, "preserve_manual"), as far as the stage could know. *)
PrimaryKept ==
    [][BySync => \A ep \in {"dev", "vm"} : \A i \in Touched(ep) :
           nb'[ep][i].prim # nb[ep][i].prim =>
             /\ ~primary_owned(base[ep][i])
             /\ (ep = "vm" /\ \E x \in nb.vm[i].cf.ids : x.kind = "qemu" /\ x.inst = "A") => base.vm[i].prim = 0]_fullVars

(* A primary address a step sets is assigned to an interface of the same   *)
(* guest or host.                                                          *)
PrimaryIsOwn ==
    [][BySync /\ clean =>
         /\ \A i \in Touched("vm") : nb'.vm[i].prim # nb.vm[i].prim => BelongsTo(nb', nb'.vm[i].prim, i)
         /\ \A i \in Touched("dev") : nb'.dev[i].prim # nb.dev[i].prim =>
               \E f \in InterfacesOf(nb', i) : nb'.ip[nb'.dev[i].prim].at = <<"hif", f>>]_fullVars

(* A guest is created or renamed only to a name that was free in its       *)
(* cluster and tenant when the stage looked; names alone never make an     *)
(* object of somebody else ours.                                           *)
NamesFree ==
    [][BySync => \A i \in DOMAIN nb'.vm :
           (i \in DOMAIN nb.vm => nb'.vm[i].name # nb.vm[i].name) =>
               NameMatches(InCluster(base), nb'.vm[i].name, nb'.vm[i].tenant, i) = {}]_fullVars

(* An address two interfaces of the inventory report is assigned to        *)
(* neither, whatever their masks: strict blocks the plan, observe leaves   *)
(* the address to the observations.                                        *)
Reporters(addr) ==
    {p \in NicPlaces(Found) : \E a \in Range(NicAt(Found, p).ips) : Bare(a) = Bare(addr)}
DisputedNotAssigned ==
    [][BySync /\ ~Conf.direct => \A i \in DOMAIN nb'.ip :
           (i \in DOMAIN nb.ip => nb'.ip[i].at # nb.ip[i].at) /\ nb'.ip[i].at[1] = "nic"
             => Cardinality(Reporters(nb'.ip[i].addr)) <= 1]_fullVars

(* A step of the synchronizer leaves what belongs to others as far as its  *)
(* stage knows it: assigned addresses and MACs, their fields and           *)
(* identities, primary addresses, names in use, and addresses two          *)
(* interfaces claim.                                                       *)
OthersKept ==
    /\ NoTakeover /\ KeepsOthers /\ DisputedNotAssigned
    /\ PrimaryKept /\ PrimaryIsOwn /\ NamesFree
=============================================================================
