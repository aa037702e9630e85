------------------------------- MODULE Guard -------------------------------
(***************************************************************************)
(* The Guard plugin inside NetBox: it creates objects for a source with a  *)
(* claim and a receipt, retires single objects and whole sources after a   *)
(* review, archives a source, and gives a re-created VM a new identity.    *)
(* Two locks order its requests: the namespace lock of the source (an      *)
(* advisory lock, held by a creation until it commits and by a retirement  *)
(* for its whole request) and the database fence, which no writer passes,  *)
(* so that what happens behind it is one step.  NetBox users edit, move,   *)
(* delete and re-create objects between any two steps.                     *)
(* A fingerprint is the object itself; disks, MAC and IP addresses hang on *)
(* their parent the way an interface does.                                 *)
(***************************************************************************)
EXTENDS Integers, FiniteSets

CONSTANTS None,
          Ids,       \* object ids
          KindOf,    \* "cluster", "device", "vm" or "nic" of each
          Sources,
          Requests,  \* creations a run may ask for: nonce, source, kind and the object's fields
          Nonces,    \* of the retirement intents
          Procs,     \* NetBox workers
          Worlds     \* the objects and claims there are, and what is asked

VARIABLES world, db, at, evidence, used
gvars == <<world, db, at, evidence, used>>

Bound == Worlds[world]
Idle == [step |-> "idle"]
GuardInit ==
        /\ world \in DOMAIN Worlds
        /\ db = [objs |-> Bound.objs, claims |-> Bound.claims, created |-> [n \in {r.nonce : r \in Requests} \cup {"replace"} |-> None],
                 intents |-> [n \in Nonces |-> None], receipts |-> [n \in Nonces |-> None],
                 closed |-> [s \in Sources |-> None], bound |-> {}, age |-> [o \in Ids |-> IF Bound.objs[o] = None THEN 0 ELSE 1],
                 may |-> TRUE]
        /\ at = [p \in Procs |-> Idle] /\ evidence = None /\ used = [i \in 1..3 |-> 0]

\* ---- NetBox's own objects and relations. -------------------------------------
Live(d) == {o \in Ids : d.objs[o] # None}
OfKind(d, k) == {o \in Live(d) : KindOf[o] = k}
\* Interfaces go with their parent, a VM protects its cluster and its host, a device only loses its cluster.
Cascade(d, S) == S \cup {o \in OfKind(d, "nic") : d.objs[o].up \in S}
Protected(d, S) == {v \in OfKind(d, "vm") : d.objs[v].cluster \in S \/ d.objs[v].up \in S}
Nulled(d, S) == {o \in OfKind(d, "device") : d.objs[o].cluster \in S}
\* signals.py: every deletion takes the claim along.
invalidate_claim(d, S) == [d EXCEPT !.claims = [o \in Ids |-> IF o \in S THEN None ELSE @[o]]]
Deleted(d, S) ==
  invalidate_claim([d EXCEPT !.objs = [o \in Ids |-> IF o \in S THEN None
                                                     ELSE IF o \in Nulled(d, S) THEN [@[o] EXCEPT !.cluster = None] ELSE @[o]]], S)

\* ---- dependencies.py ----------------------------------------------------------
_snapshot(d, S) == [o \in S |-> d.objs[o]]
\* What deleting the roots takes along; refused when a root is missing, protected, or would change a survivor.
Collects(d, roots) == /\ roots \subseteq Live(d) /\ Protected(d, roots) = {}
                      /\ Nulled(d, roots) \subseteq Cascade(d, roots)
_closure(d, roots) == _snapshot(d, Cascade(d, roots))
visible_dependency_blockers(d, S) ==
  {<<"protected", v>> : v \in Protected(d, S) \ S} \cup {<<"update", o>> : o \in Nulled(d, S) \ Cascade(d, S)}

\* ---- service.py: ownership. -----------------------------------------------------
_permission(d) == d.may
_scope(d, o) == IF KindOf[o] = "cluster" THEN o
                ELSE IF KindOf[o] = "nic" THEN d.objs[d.objs[o].up].cluster ELSE d.objs[o].cluster
_owners(obj, s) == \A i \in obj.ids : i[1] = s
Proves(d, o, s) == d.claims[o] # None => d.claims[o].source = s /\ d.claims[o].age = d.objs[o].age
\* The parent is this source's: by a claim, or by nothing but its identities.
_parent_owner(d, obj, s) ==
  obj.up # None => /\ obj.up \in Live(d) /\ _owners(d.objs[obj.up], s) /\ Proves(d, obj.up, s)
                   /\ (d.claims[obj.up] = None => d.objs[obj.up].ids # {})
AnyGeneration(d, S, s, c) ==
  /\ S \cap d.bound = {}
  /\ \A o \in S : d.claims[o] # None /\ d.claims[o].source = s /\ d.claims[o].cluster = c
_claims(d, S, s, c) ==
  /\ S \cap d.bound = {}
  /\ \A o \in S : /\ d.claims[o] # None /\ d.claims[o].source = s /\ d.claims[o].cluster = c
                  /\ d.objs[o].age = d.claims[o].age
                  /\ _scope(d, o) = c /\ _owners(d.objs[o], s) /\ _parent_owner(d, d.objs[o], s)

\* ---- service.py: creation. ---------------------------------------------------------
assert_open(d, s) == d.closed[s] = None
New(r, age) == [cluster |-> r.cluster, up |-> r.up, ids |-> r.ids, text |-> 0, age |-> age]
validated_create_values(d, r) == {r.cluster, r.up} \ {None} \subseteq Live(d)
\* CREATE, claim and receipt in one transaction, on an id NetBox never used.
create_owned(d, r, o) ==
  LET obj == New(r, 1)
      new == [d EXCEPT !.objs[o] = obj, !.age[o] = 1]
      c == _scope(new, o)
  IN IF /\ _permission(d) /\ validated_create_values(d, r) /\ _owners(obj, r.source) /\ _parent_owner(new, obj, r.source)
        /\ (r.kind # "cluster" => r.place = c)
     THEN [new EXCEPT !.claims[o] = [source |-> r.source, cluster |-> c, age |-> 1],
                      !.created[r.nonce] = [kind |-> r.kind, source |-> r.source, obj |-> o, digest |-> r]]
     ELSE d

\* ---- audit_source and source_closure.py ------------------------------------------------
\* Creation receipts of the source.  A replacement leaves one too, whose resource no model has.
ReceiptsOf(d, s) == {d.created[n] : n \in {m \in DOMAIN d.created : d.created[m] # None /\ d.created[m].source = s}}
Recorded(d, s) == {e.obj : e \in ReceiptsOf(d, s)}
Replacements(d, s) == {e \in ReceiptsOf(d, s) : e.kind = "vm-replacement"}
Claimed(d, s) == {o \in Ids : d.claims[o] # None /\ d.claims[o].source = s}
Identified(d, s) == {o \in Live(d) : \E i \in d.objs[o].ids : i[1] = s}
\* Looking up the model of a replacement receipt fails, so there is no audit after one.
Auditable(d, s) == _permission(d) /\ Replacements(d, s) = {}
audit_source(d, s) ==
  LET S == Claimed(d, s) \cup Identified(d, s) \cup Recorded(d, s)
  IN [objects |-> [o \in S |-> [obj |-> d.objs[o], claimed |-> o \in Claimed(d, s) /\ (o \in Live(d) => Proves(d, o, s))]],
      dependencies |-> visible_dependency_blockers(d, S \cap Live(d))]
seal(d, n, gone) == [d EXCEPT !.closed[d.intents[n].source] = n, !.receipts[n] = gone]
review_archive(d, n, s) ==
  IF d.intents[n] = None /\ assert_open(d, s) /\ Auditable(d, s)
  THEN [d EXCEPT !.intents[n] = [format |-> 4, source |-> s, cluster |-> None, roots |-> {}, objects |-> _snapshot(d, {}),
                                 print |-> None, retained |-> audit_source(d, s)]]
  ELSE d
archive_source(d, n) ==
  LET i == d.intents[n]
  IN IF /\ d.receipts[n] = None /\ assert_open(d, i.source) /\ Auditable(d, i.source)
        /\ audit_source(d, i.source) = i.retained
     THEN seal(d, n, {}) ELSE d

\* ---- source_retirement.py ------------------------------------------------------------------
InScope(d, c) ==
  LET hosts == {o \in OfKind(d, "device") : d.objs[o].cluster = c}
      vms == {o \in OfKind(d, "vm") : d.objs[o].cluster = c \/ d.objs[o].up \in hosts}
  IN Cascade(d, hosts \cup vms) \cup (IF d.claims[c] # None THEN {c} ELSE {})
Inventory(ok, objects, roots, print) == [ok |-> ok, objects |-> objects, roots |-> roots, print |-> print]
_inventory(d, s, c) ==
  LET S == InScope(d, c)
  IN Inventory(/\ \A o \in Claimed(d, s) : o \in S /\ d.claims[o].cluster = c
               /\ _claims(d, S, s, c), _snapshot(d, S), {o \in S : KindOf[o] # "nic"}, d.objs[c])
\* Without its cluster, a source must have nothing left anywhere; what was reviewed counts as its own.
_confirmed_inventory(d, s, c, expected) ==
  IF c \in Live(d) THEN _inventory(d, s, c)
  ELSE Inventory(/\ (Claimed(d, s) \cup Recorded(d, s) \cup expected \cup Identified(d, s)) \cap Live(d) = {}
                 /\ Replacements(d, s) = {}, _snapshot(d, {}), {}, None)
Intent(format, s, c, inv) ==
  [format |-> format, source |-> s, cluster |-> c, roots |-> inv.roots, objects |-> inv.objects, print |-> inv.print, retained |-> None]
Reviewed(d, n, format, s, c, inv) ==
  IF d.intents[n] = None /\ _permission(d) /\ inv.ok THEN [d EXCEPT !.intents[n] = Intent(format, s, c, inv)] ELSE d
review_source(d, n, s, c) == Reviewed(d, n, 2, s, c, _confirmed_inventory(d, s, c, {}))

\* VMs, then hosts, then the cluster; a phase that does not delete exactly reviewed objects rolls all back.
Phase(i, acc, kind) ==
  LET batch == {o \in i.roots : KindOf[o] = kind}
      taken == Cascade(acc.d, batch)
  IN IF batch = {} \/ ~acc.ok THEN acc
     ELSE [ok |-> Collects(acc.d, batch) /\ taken \subseteq acc.left /\ _claims(acc.d, taken, i.source, i.cluster),
           d |-> Deleted(acc.d, taken), left |-> acc.left \ taken]
retire_source(d, n) ==
  LET i == d.intents[n]
      inv == _confirmed_inventory(d, i.source, i.cluster, DOMAIN i.objects)
      begin == [ok |-> TRUE, d |-> d, left |-> DOMAIN i.objects]
      end == Phase(i, Phase(i, Phase(i, begin, "vm"), "device"), "cluster")
  IN IF ~_permission(d) \/ d.receipts[n] # None \/ ~assert_open(d, i.source) \/ ~inv.ok THEN d
     ELSE IF inv.print = None THEN seal(d, n, {})
     ELSE IF /\ inv.objects = i.objects /\ inv.roots = i.roots /\ inv.print = i.print
             /\ end.ok /\ end.left = {} THEN seal(end.d, n, DOMAIN i.objects) ELSE d

\* ---- service.py: the retirement of one object. ------------------------------------------------
OneRoot(d, s, c, root) ==
  LET S == Cascade(d, {root})
  IN Inventory(c \in Live(d) /\ Collects(d, {root}) /\ _claims(d, S, s, c), _closure(d, {root}), {root}, d.objs[c])
review(d, n, s, c, root) == Reviewed(d, n, 1, s, c, OneRoot(d, s, c, root))
retire(d, n) ==
  LET i == d.intents[n]
      root == CHOOSE o \in i.roots : TRUE
  IN IF /\ _permission(d) /\ d.receipts[n] = None /\ assert_open(d, i.source)
        /\ root \in Live(d) /\ OneRoot(d, i.source, i.cluster, root) = Inventory(TRUE, i.objects, i.roots, i.print)
     THEN [Deleted(d, DOMAIN i.objects) EXCEPT !.receipts[n] = DOMAIN i.objects] ELSE d

\* ---- vm_replacement.py ----------------------------------------------------------------------------
\* The VM carries one identity, everything under it is the source's, and nobody wrote anything by hand.
_evidence(d, v, s, c) ==
  LET S == Cascade(d, {v})
  IN [ok |-> /\ _claims(d, S, s, c) /\ Cardinality(d.objs[v].ids) = 1 /\ d.objs[v].cluster = c /\ assert_open(d, s)
             /\ \A o \in S \ {v} : d.objs[o].text = 0,
      source |-> s, cluster |-> c, vm |-> v, objects |-> _closure(d, {v}), children |-> S \ {v}]
replace(d, e, new) ==
  LET v == e.vm
  IN IF /\ _permission(d) /\ v \in Live(d) /\ d.created["replace"] = None
        /\ _evidence(d, v, e.source, e.cluster) = e
        /\ d.objs[v].ids # {new} /\ \A o \in OfKind(d, "vm") : new \notin d.objs[o].ids
     THEN [Deleted(d, e.children) EXCEPT !.objs[v].ids = {new},
                                         !.created["replace"] = [kind |-> "vm-replacement", source |-> e.source, obj |-> v, digest |-> e]]
     ELSE d

\* ---- The requests. ------------------------------------------------------------------------------------
May(n, bound) == used[n] < bound
Spend(n) == used' = [used EXCEPT ![n] = @ + 1]
Moves(p, state) == at' = [at EXCEPT ![p] = state]
\* pg_advisory_lock of the namespace: nobody else creates or retires for the source.
NamespaceFree(p, s) == \A q \in Procs \ {p} : at[q].step \in {"insert", "fenced"} => at[q].source # s
NonceFree(p, n) == \A q \in Procs \ {p} : at[q].step = "insert" => at[q].nonce # n

\* CreateOwned.post up to its transaction: a known nonce skips the validation.
Post(p, r) ==
  /\ at[p] = Idle /\ r \in Bound.asks /\ May(1, Bound.posts) /\ _permission(db)
  /\ (db.created[r.nonce] = None => validated_create_values(db, r))
  /\ Moves(p, [step |-> "enter", req |-> r, source |-> r.source, nonce |-> r.nonce]) /\ Spend(1)
  /\ UNCHANGED <<world, db, evidence>>
EnterUnlocked(p) ==
  /\ at[p].step = "enter"
  /\ Moves(p, IF ~assert_open(db, at[p].source) \/ db.created[at[p].nonce] # None THEN Idle ELSE [at[p] EXCEPT !.step = "insert"])
  /\ UNCHANGED <<world, db, evidence, used>>
\* Both advisory locks, then closed and receipt are read; a receipt only decides what is answered.
Enter(p) ==
  /\ at[p].step = "enter" /\ NamespaceFree(p, at[p].source) /\ NonceFree(p, at[p].nonce)
  /\ Moves(p, IF ~assert_open(db, at[p].source) \/ db.created[at[p].nonce] # None THEN Idle ELSE [at[p] EXCEPT !.step = "insert"])
  /\ UNCHANGED <<world, db, evidence, used>>
Insert(p) ==
  /\ at[p].step = "insert"
  /\ \E o \in {x \in Ids : db.age[x] = 0 /\ KindOf[x] = at[p].req.kind} : db' = create_owned(db, at[p].req, o)
  /\ Moves(p, Idle) /\ UNCHANGED <<world, evidence, used>>

Formats == [retire |-> 1, retire_source |-> 2, archive |-> 4]
\* namespace_fence: taken or refused at once, before the database fence.
Fence(p, n, what) ==
  /\ at[p] = Idle /\ what \in Bound.tools /\ May(2, Bound.reviews) /\ _permission(db) /\ db.intents[n] # None
  /\ db.intents[n].format = Formats[what] /\ NamespaceFree(p, db.intents[n].source)
  /\ Moves(p, [step |-> "fenced", what |-> what, nonce |-> n, source |-> db.intents[n].source]) /\ Spend(2)
  /\ UNCHANGED <<world, db, evidence>>
FenceReview(p, n, s) ==
  /\ at[p] = Idle /\ "archive" \in Bound.tools /\ May(2, Bound.reviews) /\ _permission(db) /\ NamespaceFree(p, s)
  /\ Moves(p, [step |-> "fenced", what |-> "review", nonce |-> n, source |-> s]) /\ Spend(2)
  /\ UNCHANGED <<world, db, evidence>>
\* Behind the database fence, to the end of the request.
Execute(p) ==
  /\ at[p].step = "fenced"
  /\ LET n == at[p].nonce IN
       db' = CASE at[p].what = "retire" -> retire(db, n)
               [] at[p].what = "retire_source" -> retire_source(db, n)
               [] at[p].what = "archive" -> archive_source(db, n)
               [] at[p].what = "review" -> review_archive(db, n, at[p].source)
  /\ Moves(p, Idle) /\ UNCHANGED <<world, evidence, used>>
\* A lock or statement timeout, the 30 s budget, or the end of the worker: rolled back, locks released.
GiveUp(p) == at[p] # Idle /\ Moves(p, Idle) /\ UNCHANGED <<world, db, evidence, used>>

\* Requests that only pass the database fence; one that is refused leaves everything as it was.
Fenced(d) == d # db /\ db' = d /\ Spend(2) /\ UNCHANGED <<world, at, evidence>>
ReviewSource(n, s, c) == "retire_source" \in Bound.tools /\ May(2, Bound.reviews) /\ db.intents[n] = None /\ Fenced(review_source(db, n, s, c))
Review(n, s, c, root) == /\ "retire" \in Bound.tools /\ May(2, Bound.reviews) /\ db.intents[n] = None /\ {c, root} \subseteq Live(db)
                         /\ Fenced(review(db, n, s, c, root))
ReviewReplacement(v, s, c) ==
  /\ "replace" \in Bound.tools /\ May(2, Bound.reviews) /\ v \in OfKind(db, "vm") /\ _evidence(db, v, s, c).ok
  /\ evidence' = _evidence(db, v, s, c) /\ Spend(2) /\ UNCHANGED <<world, db, at>>
Replace(new) == evidence # None /\ May(2, Bound.reviews) /\ Fenced(replace(db, evidence, new))

\* ---- NetBox users, other sources and the provider side. ------------------------------------------------
Edits(d) == May(3, Bound.edits) /\ d # db /\ db' = d /\ Spend(3) /\ UNCHANGED <<world, at, evidence>>
UserWrite(o) == "write" \in Bound.others /\ Edits([db EXCEPT !.objs[o].text = 1])
Tag(o, i) == "tag" \in Bound.others /\ Edits([db EXCEPT !.objs[o].ids = @ \cup {i}])
Move(o, c) == /\ "move" \in Bound.others /\ KindOf[o] \in {"device", "vm"} /\ db.objs[o].up = None
              /\ Edits([db EXCEPT !.objs[o].cluster = c])
BindTo(o) == "bind" \in Bound.others /\ KindOf[o] \in {"device", "vm"} /\ Edits([db EXCEPT !.bound = @ \cup {o}])
UserDelete(o) == LET S == Cascade(db, {o}) IN
  "delete" \in Bound.others /\ Protected(db, S) = {} /\ S \cap db.bound = {} /\ Edits(Deleted(db, S))
Recreate(o) == LET obj == [Bound.arrivals[o] EXCEPT !.age = db.age[o] + 1] IN
  /\ o \in DOMAIN Bound.arrivals /\ o \notin Live(db) /\ {obj.cluster, obj.up} \ {None} \subseteq Live(db)
  /\ Edits([db EXCEPT !.objs[o] = obj, !.age[o] = @ + 1])
Revoke == "revoke" \in Bound.others /\ Edits([db EXCEPT !.may = ~@])

Clusters == {o \in Ids : KindOf[o] = "cluster"}
Requested(p) == \/ \E r \in Requests : Post(p, r)
                \/ Enter(p) \/ Insert(p) \/ Execute(p) \/ GiveUp(p)
                \/ \E n \in Nonces, what \in DOMAIN Formats : Fence(p, n, what)
                \/ \E n \in Nonces, s \in Sources : FenceReview(p, n, s)
Users == \/ \E o \in Live(db) : \/ UserWrite(o) \/ BindTo(o) \/ UserDelete(o)
                                \/ \E c \in Clusters \cap Live(db) : Move(o, c)
                                \/ \E i \in Bound.tags : Tag(o, i)
         \/ \E o \in Ids : Recreate(o)
         \/ Revoke
GuardNext == \/ \E p \in Procs : Requested(p)
             \/ \E n \in Nonces, s \in Sources, c \in Clusters : \/ ReviewSource(n, s, c)
                                                                 \/ \E root \in Ids : Review(n, s, c, root)
             \/ \E v \in Ids, s \in Sources, c \in Clusters : ReviewReplacement(v, s, c)
             \/ \E i \in Bound.tags : Replace(i)
             \/ Users
GuardSpec == GuardInit /\ [][GuardNext]_gvars

\* ---- Properties ------------------------------------------------------------------------------------------
\* "An ordinary external deletion must not leave a claim for a reused object ID": whoever deletes, a claim
\* never outlives the object it was made for.
ClaimsLive == \A o \in Ids : db.claims[o] # None => o \in Live(db) /\ db.claims[o].age = db.objs[o].age

\* "Permanent namespace fence": once a retirement closed a source, nothing the source created is there and
\* nothing will be, however late a creation commits; an archive closes it over exactly what was retained.
\* No claim is left over for a later object with the same id.
ClosedIsEmpty ==
  /\ ClaimsLive
  /\ \A s \in Sources : db.closed[s] # None =>
    LET i == db.intents[db.closed[s]]
    IN IF i.format = 2
       THEN Claimed(db, s) = {} /\ \A o \in DOMAIN i.objects \cap Live(db) : db.objs[o].age # i.objects[o].age
       ELSE Claimed(db, s) \subseteq DOMAIN i.retained.objects

\* Guard deletes or changes only objects the source created itself, in that generation, where they were
\* reviewed and as they were reviewed, of a source still open, unbound to a provider and shared with nobody.
DeletesOwned ==
  [][used'[3] = used[3] => \A o \in Live(db) : db'.objs[o] # db.objs[o] =>
       /\ db.claims[o] # None /\ db.claims[o].age = db.objs[o].age /\ o \notin db.bound
       /\ LET c == db.claims[o] IN
            /\ db.closed[c.source] = None /\ _scope(db, o) = c.cluster /\ _owners(db.objs[o], c.source)
            /\ \/ \E n \in Nonces : /\ db.receipts[n] = None /\ db'.receipts[n] # None /\ o \in db'.receipts[n]
                                    /\ db.intents[n].source = c.source /\ db.intents[n].objects[o] = db.objs[o]
               \/ evidence # None /\ o \in DOMAIN evidence.objects /\ evidence.objects[o] = db.objs[o]]_gvars

\* "Audit lists exact model/ID, presence and claim status": a permitted audit of a source answers.
AuditAnswers == \A s \in Sources : _permission(db) => Auditable(db, s)

\* ---- An inductive invariant --------------------------------------------------------------------------------
SourceIds == Sources \X STRING
ObjectKinds == {"cluster", "device", "vm", "nic"}
GuardObject == [cluster : {None} \cup Clusters, up : {None} \cup Ids, ids : SUBSET SourceIds, text : {0, 1}, age : Nat \ {0}]
GuardClaim == [source : Sources, cluster : {None} \cup Ids, age : Nat \ {0}]
AskNonces == {r.nonce : r \in Requests}
Inserting == [step : {"enter", "insert"}, req : Requests, source : Sources, nonce : AskNonces]
Retiring == [step : {"fenced"}, what : {"retire", "retire_source", "archive", "review"}, nonce : Nonces, source : Sources]

ASSUME GuardAssumption ==
  /\ KindOf \in [Ids -> ObjectKinds]
  /\ \A r \in Requests : /\ r.source \in Sources /\ r.kind \in ObjectKinds /\ r.cluster \in {None} \cup Clusters
                         /\ r.up \in {None} \cup Ids /\ r.ids \subseteq SourceIds /\ r.place \in {None} \cup Ids
  /\ \A w \in DOMAIN Worlds :
       /\ Worlds[w].objs \in [Ids -> {None} \cup GuardObject] /\ Worlds[w].claims \in [Ids -> {None} \cup GuardClaim]
       /\ \A o \in Ids : /\ Worlds[w].objs[o] # None => Worlds[w].objs[o].age = 1
                         /\ Worlds[w].claims[o] # None => Worlds[w].objs[o] # None /\ Worlds[w].claims[o].age = 1
       /\ Worlds[w].tags \subseteq SourceIds
       /\ \A o \in DOMAIN Worlds[w].arrivals : Worlds[w].arrivals[o] \in GuardObject
ASSUME GuardNoneAssumption ==
  /\ None \notin GuardObject /\ None \notin GuardClaim /\ None \notin Nonces /\ None \notin Ids
  /\ \A S \in SUBSET Ids : None # S

Tables(d) == /\ d = [objs |-> d.objs, claims |-> d.claims, created |-> d.created, intents |-> d.intents, receipts |-> d.receipts,
                     closed |-> d.closed, bound |-> d.bound, age |-> d.age, may |-> d.may]
             /\ d.objs \in [Ids -> {None} \cup GuardObject] /\ d.claims \in [Ids -> {None} \cup GuardClaim]
             /\ d.created = [n \in AskNonces \cup {"replace"} |-> d.created[n]] /\ d.intents = [n \in Nonces |-> d.intents[n]]
             /\ d.receipts \in [Nonces -> {None} \cup SUBSET Ids] /\ d.closed \in [Sources -> {None} \cup Nonces]
             /\ d.bound \subseteq Ids /\ d.age \in [Ids -> Nat] /\ d.may \in BOOLEAN
\* What is in an intent was there, in a generation NetBox has reached.
IntentIs(d, i) == /\ i.source \in Sources
                  /\ \A o \in DOMAIN i.objects : /\ o \in Ids /\ i.objects[o] \in GuardObject
                                                 /\ i.objects[o].age <= d.age[o]
ClosedIs(d, s) ==
  LET i == d.intents[d.closed[s]]
  IN /\ i # None
     /\ i.format = 2 => Claimed(d, s) = {} /\ \A o \in DOMAIN i.objects \cap Live(d) : d.objs[o].age # i.objects[o].age
     /\ i.format # 2 => Claimed(d, s) \subseteq DOMAIN i.retained.objects
Healthy(d) == /\ Tables(d)
              /\ \A o \in Ids : d.objs[o] # None => d.objs[o].age <= d.age[o]
              /\ \A o \in Ids : d.claims[o] # None => d.objs[o] # None /\ d.claims[o].age = d.objs[o].age
              /\ \A n \in Nonces : d.intents[n] # None => IntentIs(d, d.intents[n])
              /\ \A s \in Sources : d.closed[s] # None => ClosedIs(d, s)
\* The namespace lock: one holder for a source, a creation holds it only while the source is open, and a
\* retirement holds the one of the intent it carries out.
Holding(p) == at[p].step \in {"insert", "fenced"}
Locked(p) == /\ at[p].step \in {"enter", "insert"} => at[p].req.source = at[p].source
             /\ at[p].step = "insert" => db.closed[at[p].source] = None
             /\ at[p].step = "fenced" /\ at[p].what # "review" =>
                  /\ db.intents[at[p].nonce] # None /\ db.intents[at[p].nonce].source = at[p].source
                  /\ db.intents[at[p].nonce].format = Formats[at[p].what]
             /\ \A q \in Procs : p # q /\ Holding(p) /\ Holding(q) => at[p].source # at[q].source
GuardIInv == /\ world \in DOMAIN Worlds /\ Healthy(db) /\ used \in [1..3 -> Nat]
             /\ at \in [Procs -> {Idle} \cup Inserting \cup Retiring] /\ \A p \in Procs : Locked(p)
             /\ evidence # None => evidence.ok
=============================================================================
