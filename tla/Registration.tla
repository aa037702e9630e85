---------------------------- MODULE Registration ----------------------------
(* Registration of a source: the checked credentials an operator hands over, *)
(* the reservation of the host's hardware identity, the durable job with its *)
(* credentials staged at the secret broker, the cluster made through the     *)
(* catalog journal, and the registry row.  API requests, the background      *)
(* continuation, legacy admission and NetBox interleave; a process crash, a  *)
(* database failover (every advisory session lock is gone while the callers  *)
(* go on), lost answers, torn files and late POSTs count against MaxFaults.  *)
EXTENDS Naturals, FiniteSets

CONSTANTS
    Workers,    \* request threads of the API
    Cont,       \* the continuation thread (registration_lifespan)
    Attempts,   \* requests operators post: [source, op, actor, host, name, create]
    Esxi,       \* sources of type esxi; the others are proxmox
    Legacy,     \* registered esxi sources without a recorded hardware identity
    Closed,     \* source names whose generation the guard plugin has closed
    Hosts,      \* hardware identities
    Tokens,     \* capacity of the in-memory credential hand-off (128 in the code)
    Values,     \* secret values an operator may type
    Modes,      \* deployments: [durable, guarded, attempts, staged, legacy]; attempts are the requests
                \* that may arrive there, staged those an earlier process left READY, legacy its old rows
    Followed,   \* sources whose staged registrations are followed to their end
    MaxFresh, MaxFaults,
    None

Procs == Workers \cup {Cont}
Sources == {a.source : a \in Attempts} \cup Legacy
Names == {a.name : a \in Attempts}
Id(a) == <<a.source, a.op, a.actor>>
Ids == {Id(a) : a \in Attempts}

\* references(), bind_intent: keys derived from actor, source and operation.
references(id) == {<<id, "secret">>} \cup
                  (IF id[1] \in Esxi THEN {} ELSE {<<id, "token">>})
\* SourceOnboardingService._key: a random key per label.
RandomKeys(n) == {<<<<n>>, "secret">>, <<<<n>>, "token">>}
Keys == (UNION {references(i) : i \in Ids}) \cup (UNION {RandomKeys(n) : n \in 1..MaxFresh})

JobRow == [attempt : Attempts, state : {"STAGING", "READY", "BLOCKED", "COMPLETED"}]
Entry == [name : Names, status : {"UNCERTAIN", "CREATED", "REFUSED", "EXISTS_REVIEW_REQUIRED"}]
Handoff == [actor : {a.actor : a \in Attempts}, host : Hosts, value : Values, esxi : BOOLEAN,
            bound : Ids \cup {None}]
Claiming == [host : Hosts, id : Ids]
Running == [id : Ids, resume : BOOLEAN]
Refusals == {"RESERVED", "IDENTITY_CONFLICT", "ALREADY_REGISTERED", "REVIEW_REQUIRED", "INTENT_CHANGED"}

ASSUME RegistrationAssumption ==
    /\ Esxi \subseteq Sources /\ Legacy \subseteq Esxi /\ Followed \subseteq Sources \ Legacy
    /\ \A a \in Attempts : a.host \in Hosts /\ a.create \in BOOLEAN
    /\ \A m \in Modes : /\ m.durable \in BOOLEAN /\ m.guarded \in BOOLEAN
                        /\ m.attempts \subseteq Attempts /\ m.legacy \subseteq Legacy
                        /\ m.staged \subseteq {a \in Attempts : a.source \notin Esxi}
                        /\ m.staged # {} => m.durable /\ Values # {}
                        /\ \A a, b \in m.staged : a.source = b.source => a = b
    /\ MaxFresh \in Nat /\ MaxFaults \in Nat
    \* None is a value of its own.
    /\ None \notin Attempts /\ None \notin Hosts /\ None \notin Refusals
    /\ None \notin JobRow /\ None \notin Entry /\ None \notin Claiming
    /\ None \notin Handoff /\ None \notin Running

NoFile == [op |-> None, value |-> None, complete |-> FALSE]

VARIABLES
    mode,       \* the deployment
    tokens,     \* EphemeralOnboardingStore._items
    held,       \* advisory session locks: "job", "admission", "host"
    reserved,   \* host_reservations by source, with the anchor
    intents,    \* registration_intents
    jobs,       \* registration_jobs
    files,      \* the broker's directory
    registry,   \* sources
    journal,    \* catalog-<operation>.json
    catalog,    \* operation whose child runs under the apply and bootstrap locks
    made,       \* clusters NetBox holds that an operation has created
    foreign,    \* clusters other NetBox users have made: none, empty or occupied
    wire,       \* catalog POSTs still on their way to NetBox
    cursor,     \* RegistrationContinuation.after
    at, req,    \* where a process is, and its request
    tok,        \* its token, and once consumed the secret the token held
    own,        \* the cluster it will register is one its operation created
    fresh, faults

store == <<reserved, intents, registry>>
netbox == <<journal, catalog, made, foreign, wire>>
vars == <<mode, tokens, held, store, jobs, files, netbox, cursor, at, req, tok, own, fresh, faults>>

----------------------------------------------------------------------------
(* Rows and predicates *)

NoRow == [present |-> FALSE, anchor |-> None, observed |-> None, enabled |-> FALSE,
          refs |-> {}, by |-> None, own |-> FALSE]
LegacyRow == [NoRow EXCEPT !.present = TRUE, !.enabled = TRUE]

Registered(s) == registry[s].present

\* registration_anchor: the proved identity, else the observed endpoint.
registration_anchor(r) == IF r.anchor # None THEN r.anchor ELSE r.observed

\* HostReservations._live_rows with the two questions asked of them.
existing(h) == {s \in Esxi : Registered(s) /\ registration_anchor(registry[s]) = h}
unknown == {s \in Esxi : registry[s].enabled /\ registry[s].anchor = None}

\* The active reservation of a host names exactly this attempt.
Claims(s, a) == /\ reserved[s] # None
                /\ reserved[s].host = a.host
                /\ reserved[s].id = Id(a)
ClaimedByOther(a) == \E s \in Sources : reserved[s] # None /\ reserved[s].host = a.host
                                        /\ reserved[s].id # Id(a)

\* pg_try_advisory_lock on the source's job and on the host.
JobFree(s) == \A p \in Procs : ~("job" \in held[p] /\ req[p].source = s)
HostFree(p, h) == \A q \in Procs \ {p} : ~("host" \in held[q] /\ req[q].host = h)

Goto(p, l) == at' = [at EXCEPT ![p] = l]
\* Every context manager of the request unwinds.
Leave(p) == /\ at' = [at EXCEPT ![p] = "idle"]
            /\ held' = [held EXCEPT ![p] = {}]
            /\ req' = [req EXCEPT ![p] = None]
            /\ tok' = [tok EXCEPT ![p] = None]
            /\ own' = [own EXCEPT ![p] = FALSE]
Go(p, l) == Goto(p, l) /\ UNCHANGED <<held, req, tok, own>>

Fault == faults < MaxFaults /\ faults' = faults + 1

mark(s, state) == jobs' = [jobs EXCEPT ![s].state = state]

\* RegistrationContinuation.run's handler: codes of a definite conflict block the
\* job, every other failure leaves it READY.  Without jobs the request just fails.
Blocking == {"SELECTION_REQUIRED", "CLUSTER_REVIEW_REQUIRED", "CONFLICT", "INTENT_CHANGED",
             "ALREADY_REGISTERED", "IDENTITY_CONFLICT", "SOURCE_CLOSED", "REVIEW_REQUIRED"}
Fail(p, code) ==
    /\ IF mode.durable
       THEN mark(req[p].source, IF code \in Blocking THEN "BLOCKED" ELSE "READY")
       ELSE UNCHANGED jobs
    /\ Leave(p)

Init ==
    /\ mode \in Modes
    /\ tokens = [t \in Tokens |-> None]
    /\ held = [p \in Procs |-> {}]
    /\ reserved = [s \in Sources |-> None]
    /\ intents = [s \in Sources |-> None]
    /\ jobs = [s \in Sources |-> IF \E a \in mode.staged : a.source = s
                                 THEN [attempt |-> CHOOSE a \in mode.staged : a.source = s, state |-> "READY"]
                                 ELSE None]
    /\ files = [k \in Keys |-> IF \E a \in mode.staged : k \in references(Id(a))
                               THEN [op |-> k[1], value |-> CHOOSE v \in Values : TRUE, complete |-> TRUE]
                               ELSE NoFile]
    /\ registry = [s \in Sources |-> IF s \in mode.legacy THEN LegacyRow ELSE NoRow]
    /\ journal = [i \in Ids |-> None]
    /\ catalog = None
    /\ made = [i \in Ids |-> 0]
    /\ foreign = [n \in Names |-> "none"]
    /\ wire = {}
    /\ cursor = None
    /\ at = [p \in Procs |-> "idle"]
    /\ req = [p \in Procs |-> None]
    /\ tok = [p \in Procs |-> None]
    /\ own = [p \in Procs |-> FALSE]
    /\ fresh = 0
    /\ faults = 0

----------------------------------------------------------------------------
(* Checked credentials *)

\* HostReservations.check: an unclaimed identity, or exactly this attempt's.
check(a, resume) ==
    a.source \in Esxi => /\ existing(a.host) = {}
                         /\ unknown = {}
                         /\ IF resume THEN Claims(a.source, a) ELSE \A s \in Sources :
                               reserved[s] # None => reserved[s].host # a.host

\* connection_test: the probe has reached the host; a resumed attempt is bound to
\* its job (STAGING) or its reservation.  issue() refuses a full store.
ConnectionTest(a, v, t) ==
    /\ tokens[t] = None
    /\ LET job == jobs[a.source] IN
       \E resume \in BOOLEAN :
          /\ IF resume
             THEN /\ job # None => Id(job.attempt) = Id(a)
                  /\ IF job # None /\ job.state = "STAGING" THEN job.attempt.host = a.host
                     ELSE a.source \in Esxi /\ check(a, TRUE)
             ELSE check(a, FALSE)
          /\ tokens' = [tokens EXCEPT ![t] =
                           [actor |-> a.actor, host |-> a.host, value |-> v,
                            esxi |-> a.source \in Esxi,
                            bound |-> IF resume THEN Id(a) ELSE None]]
    /\ UNCHANGED <<mode, held, store, jobs, files, netbox, cursor, at, req, tok, own, fresh, faults>>

\* _expire (the timer) and cancel_onboarding drop the hand-off.
Discard(t) ==
    /\ tokens[t] # None
    /\ tokens' = [tokens EXCEPT ![t] = None]
    /\ UNCHANGED <<mode, held, store, jobs, files, netbox, cursor, at, req, tok, own, fresh, faults>>

\* receipt.check, check_binding, registry.find.
check_registration(p) ==
    LET a == req[p]  t == tokens[tok[p]] IN
    /\ t # None
    /\ t.actor = a.actor /\ t.host = a.host /\ t.esxi = (a.source \in Esxi)
    /\ ~Registered(a.source)

----------------------------------------------------------------------------
(* Requests *)

\* register_source: the job guard, then the job's binding and fingerprint.
Submit(w, a, t) ==
    /\ at[w] = "idle"
    /\ LET job == jobs[a.source] IN
       /\ mode.durable => JobFree(a.source) /\ (job # None => job.attempt = a)
       /\ Goto(w, IF job = None \/ job.state = "STAGING" THEN "admit" ELSE "attest")
    /\ held' = [held EXCEPT ![w] = IF mode.durable THEN {"job"} ELSE {}]
    /\ req' = [req EXCEPT ![w] = a]
    /\ tok' = [tok EXCEPT ![w] = t]
    /\ UNCHANGED <<mode, tokens, store, jobs, files, netbox, cursor, own, fresh, faults>>

\* HostReservations.reserve with bind_intent in the same transaction: what it
\* demands of the registry and of the earlier claims.
reserve(p) ==
    LET a == req[p] IN
    a.source \in Esxi =>
        /\ HostFree(p, a.host)
        /\ existing(a.host) = {} /\ unknown = {}
        /\ ~ClaimedByOther(a)
        /\ reserved[a.source] = None \/ Claims(a.source, a)
        /\ intents[a.source] \in {None, a}
        /\ \A s \in Sources \ {a.source} : intents[s] = None \/ intents[s].op # a.op

\* registration_admission, the closed-generation fence, reserve_provider_identity.
Admit(w) ==
    /\ at[w] = "admit"
    /\ LET a == req[w] IN
       IF /\ check_registration(w)
          /\ a.source \notin Closed
          /\ tokens[tok[w]].bound \in {None, Id(a)}
          /\ reserve(w)
       THEN /\ Goto(w, "guard")
            /\ held' = [held EXCEPT ![w] = @ \cup {"admission"}]
            /\ IF a.source \in Esxi
               THEN /\ reserved' = [reserved EXCEPT ![a.source] = [host |-> a.host, id |-> Id(a)]]
                    /\ intents' = [intents EXCEPT ![a.source] = a]
               ELSE UNCHANGED <<reserved, intents>>
            /\ UNCHANGED <<req, tok, own>>
       ELSE Leave(w) /\ UNCHANGED <<reserved, intents>>
    /\ UNCHANGED <<mode, tokens, registry, jobs, files, netbox, cursor, fresh, faults>>

\* registration_guard: the host's session lock, then the reservation and the
\* registry again.  The refusal's code, or None.
GuardRefusal(p) ==
    LET a == req[p] IN
    CASE a.source \notin Esxi -> None
      [] ~HostFree(p, a.host) \/ ~Claims(a.source, a) -> "RESERVED"
      [] Cardinality(existing(a.host)) > 1 -> "IDENTITY_CONFLICT"
      [] existing(a.host) # {} -> "ALREADY_REGISTERED"
      [] unknown # {} -> "REVIEW_REQUIRED"
      [] intents[a.source] # a -> "INTENT_CHANGED"
      [] OTHER -> None

TakeGuard(p, l) == /\ Goto(p, l)
                   /\ held' = [held EXCEPT ![p] = @ \cup {"admission", "host"}]
                   /\ UNCHANGED <<req, tok, own>>

Guard(w) ==
    /\ at[w] = "guard"
    /\ IF GuardRefusal(w) # None THEN Leave(w)
       ELSE TakeGuard(w, IF mode.durable THEN "begin" ELSE "resolve")
    /\ UNCHANGED <<mode, tokens, store, jobs, files, netbox, cursor, fresh, faults>>

\* receipt.consume, consume, jobs.begin: the token is gone before the INSERT ... ON
\* CONFLICT DO NOTHING is compared with what was asked for.
Begin(w) ==
    /\ at[w] = "begin"
    /\ LET a == req[w]  t == tok[w]
           taken == \E s \in Sources \ {a.source} : jobs[s] # None /\ jobs[s].attempt.op = a.op
           row == [attempt |-> a, state |-> "STAGING"]
       IN IF tokens[t] = None THEN Leave(w) /\ UNCHANGED <<tokens, jobs>>
          ELSE /\ tokens' = [tokens EXCEPT ![t] = None]
               /\ IF jobs[a.source] = None /\ ~taken
                  THEN jobs' = [jobs EXCEPT ![a.source] = row] ELSE UNCHANGED jobs
               /\ IF jobs'[a.source] # None /\ jobs'[a.source].attempt = a
                  THEN /\ Goto(w, IF a.source \in Esxi THEN "secret" ELSE "token")
                       /\ tok' = [tok EXCEPT ![w] = tokens[t].value]
                       /\ UNCHANGED <<held, req, own>>
                  ELSE Leave(w)
    /\ UNCHANGED <<mode, store, files, netbox, cursor, fresh, faults>>

\* SecretBrokerStore.create behind BrokerSecretStore._request, which sends the same
\* operation twice: the file is there and acknowledged; refused, because the key
\* holds another operation's, an incomplete or another value's file; or unknown:
\* written, unlinked again, or torn by a crash of the broker.
Created(k, op, v) == [files EXCEPT ![k] = [op |-> op, value |-> v, complete |-> TRUE]]
CreateSecret(k, op, v, Ok, Refused, Unknown) ==
    \/ /\ files[k] \in {NoFile, Created(k, op, v)[k]}
       /\ files' = Created(k, op, v) /\ UNCHANGED faults /\ Ok
    \/ /\ files[k] \notin {NoFile, Created(k, op, v)[k]}
       /\ UNCHANGED <<files, faults>> /\ Refused
    \/ /\ files[k] = NoFile /\ Fault /\ Unknown
       /\ files' \in {files, Created(k, op, v), [Created(k, op, v) EXCEPT ![k].complete = FALSE]}

\* RegistrationJobs.stage: the token's file, the secret's file, then READY.
Stage(w) ==
    /\ at[w] \in {"token", "secret"}
    /\ LET id == Id(req[w]) IN
       CreateSecret(<<id, at[w]>>, id, tok[w],
                    Go(w, IF at[w] = "token" THEN "secret" ELSE "ready"), Leave(w), Leave(w))
    /\ UNCHANGED <<mode, tokens, store, jobs, netbox, cursor, fresh>>

Ready(w) ==
    /\ at[w] = "ready"
    /\ mark(req[w].source, "READY")
    /\ Goto(w, "attest")
    /\ held' = [held EXCEPT ![w] = @ \ {"admission", "host"}]
    /\ tok' = [tok EXCEPT ![w] = None]
    /\ UNCHANGED <<mode, tokens, store, files, netbox, cursor, req, own, fresh, faults>>

----------------------------------------------------------------------------
(* Continuation: shared by the request that staged the job and the background *)

PendingJobs == {s \in Sources : jobs[s] # None /\ jobs[s].state \in {"STAGING", "READY"}}
Opn(s) == jobs[s].attempt.op
\* Faulty variant: always the first job.
pendingFirst(s) == s \in PendingJobs /\ \A r \in PendingJobs : Opn(s) <= Opn(r)

\* pending: the first STAGING or READY job after the cursor, else the first one.
pending(s) ==
    /\ s \in PendingJobs
    /\ LET later == {r \in PendingJobs : cursor # None /\ Opn(r) > cursor}
       IN /\ later # {} => s \in later
          /\ \A r \in (IF later = {} THEN PendingJobs ELSE later) : Opn(s) <= Opn(r)

\* __call__: the cursor moves even when the job's guard is taken.
Continue ==
    /\ mode.durable /\ at[Cont] = "idle"
    /\ \E s \in Sources :
       /\ pending(s)
       /\ cursor' = Opn(s)
       /\ IF JobFree(s)
          THEN /\ Goto(Cont, "attest")
               /\ held' = [held EXCEPT ![Cont] = {"job"}]
               /\ req' = [req EXCEPT ![Cont] = jobs[s].attempt]
               /\ UNCHANGED tok
          ELSE UNCHANGED <<at, held, req, tok>>
    /\ UNCHANGED <<mode, tokens, store, jobs, files, netbox, own, fresh, faults>>

\* Faulty variant: an incomplete file counts.
verify_stagedByKey(id) == \A k \in references(id) : files[k].op = id

\* verify_staged: every reference is complete and carries the job's operation.
verify_staged(id) == \A k \in references(id) : files[k].complete /\ files[k].op = id

Attest(p) ==
    /\ at[p] = "attest"
    /\ IF verify_staged(Id(req[p])) THEN Go(p, "lookup") /\ UNCHANGED jobs
       ELSE mark(req[p].source, "STAGING") /\ Leave(p)
    /\ UNCHANGED <<mode, tokens, store, files, netbox, cursor, fresh, faults>>

\* The configuration a registry row is made of.
staged_config(a, refs, mine) ==
    [present |-> TRUE, anchor |-> IF a.source \in Esxi THEN a.host ELSE None,
     observed |-> None, enabled |-> TRUE, refs |-> refs, by |-> a, own |-> mine]

\* RegistrationContinuation.run: a row that is already there is this job's, or not.
Lookup(p) ==
    /\ at[p] = "lookup"
    /\ LET a == req[p] IN
       IF ~Registered(a.source) THEN Go(p, "reguard") /\ UNCHANGED jobs
       ELSE /\ mark(a.source, IF registry[a.source].refs = references(Id(a)) THEN "COMPLETED" ELSE "BLOCKED")
            /\ Leave(p)
    /\ UNCHANGED <<mode, tokens, store, files, netbox, cursor, fresh, faults>>

\* complete_registration on a staged job: the closed fence, the guard, bind_intent.
Reguard(p) ==
    /\ at[p] = "reguard"
    /\ IF req[p].source \in Closed THEN Fail(p, "SOURCE_CLOSED")
       ELSE IF GuardRefusal(p) # None THEN Fail(p, GuardRefusal(p))
       ELSE TakeGuard(p, "resolve") /\ UNCHANGED jobs
    /\ UNCHANGED <<mode, tokens, store, files, netbox, cursor, fresh, faults>>

----------------------------------------------------------------------------
(* The cluster: bootstrap worker, its catalog child and NetBox *)

\* Clusters of a name NetBox lists: attempts' own, each as often as it was made, and a foreign one.
Mine(n) == {i \in Ids : journal[i] # None /\ journal[i].name = n /\ made[i] > 0}
Listed(n) == {x \in Mine(n) \X (1..2) : x[2] <= made[x[1]]} \cup (IF foreign[n] = "none" THEN {} ELSE {<<None, 1>>})
Several(S) == \E x, y \in S : x # y

\* catalog-reconcile of an attempt's operation: recorded as created, or (guarded)
\* found by its receipt, which is then recorded.
Receipt(i) == /\ journal[i] # None
              /\ \/ journal[i].status = "CREATED"
                 \/ mode.guarded /\ journal[i].status # "REFUSED" /\ made[i] > 0

\* Faulty variant: a cluster of the wanted name is taken for this attempt's own.
ResolveByName(p) ==
    /\ at[p] = "resolve"
    /\ LET a == req[p] IN
       CASE Listed(a.name) = {} -> Go(p, "cluster") /\ UNCHANGED jobs
         [] Several(Listed(a.name)) \/ foreign[a.name] = "occupied" -> Fail(p, "CLUSTER_REVIEW_REQUIRED")
         [] OTHER -> Go(p, "validate") /\ UNCHANGED jobs
    /\ UNCHANGED <<mode, tokens, store, files, netbox, cursor, fresh, faults>>

\* resolve-placement, then the proof that a visible cluster is this attempt's own.
Resolve(p) ==
    /\ at[p] = "resolve"
    /\ LET a == req[p]  i == Id(a)  mine == made[i] > 0 /\ Mine(a.name) = {i} IN
       CASE Listed(a.name) = {} -> Go(p, "cluster") /\ UNCHANGED <<jobs, journal>>
         [] Several(Listed(a.name)) \/ foreign[a.name] = "occupied" ->
              Fail(p, "CLUSTER_REVIEW_REQUIRED") /\ UNCHANGED journal
         [] Listed(a.name) # {} /\ ~Several(Listed(a.name)) /\ foreign[a.name] # "occupied" /\ a.create ->
              IF journal[i] = None THEN Fail(p, "SELECTION_REQUIRED") /\ UNCHANGED journal
              ELSE IF catalog # None THEN Fail(p, "BUSY") /\ UNCHANGED journal
              ELSE IF Receipt(i)
              THEN /\ journal' = [journal EXCEPT ![i].status = "CREATED"]
                   /\ IF mine THEN /\ Goto(p, "validate") /\ own' = [own EXCEPT ![p] = TRUE]
                                   /\ UNCHANGED <<held, req, tok, jobs>>
                      ELSE Fail(p, "UNCERTAIN")
              ELSE /\ Fail(p, "UNCERTAIN")
                   /\ journal' = [journal EXCEPT ![i].status =
                        IF @ = "REFUSED" \/ mode.guarded THEN @ ELSE "EXISTS_REVIEW_REQUIRED"]
         [] OTHER -> /\ Goto(p, "validate") /\ own' = [own EXCEPT ![p] = mine]
                     /\ UNCHANGED <<held, req, tok, jobs, journal>>
    /\ UNCHANGED <<mode, tokens, store, files, catalog, made, foreign, wire, cursor, fresh, faults>>

\* Answer of registration-cluster to the waiting caller. A refusal carries its code: a
\* denied or unreachable NetBox, a selection it rejects, or a nonce used for another object.
Answer(p, status) ==
    CASE status = "CREATED" -> /\ Goto(p, "validate") /\ own' = [own EXCEPT ![p] = TRUE]
                               /\ UNCHANGED <<held, req, tok, jobs>>
      [] status = "EXISTS_REVIEW_REQUIRED" -> Fail(p, "CLUSTER_REVIEW_REQUIRED")
      [] status = "REFUSED" ->
           \E code \in {"PERMISSION_DENIED", "SELECTION_REQUIRED", "CONFLICT"} : Fail(p, code)
      [] OTHER -> Fail(p, "UNCERTAIN")

\* CatalogCreation.execute for a registration: another intent with this digest owns
\* it; a recorded outcome is returned; an open guarded intent is resumed; otherwise
\* UNCERTAIN is on disk before the child may send its POST.
Cluster(p) ==
    /\ at[p] = "cluster"
    /\ LET a == req[p]  i == Id(a)  j == journal[i]
           open == j = None \/ j.status = "REFUSED"
           prior == ~mode.guarded /\ \E k \in Ids \ {i} : journal[k] # None
                       /\ journal[k].name = a.name /\ journal[k].status # "REFUSED"
           run(resume) == /\ catalog' = [id |-> i, resume |-> resume]
                          /\ Go(p, "child") /\ UNCHANGED jobs
       IN CASE catalog # None -> Fail(p, "BUSY") /\ UNCHANGED <<journal, catalog>>
            [] catalog = None /\ ~open /\ j.name # a.name ->
                 Fail(p, "CONFLICT") /\ UNCHANGED <<journal, catalog>>
            [] catalog = None /\ ~open /\ j.name = a.name ->
                 IF mode.guarded /\ j.status # "CREATED"
                 THEN run(TRUE) /\ UNCHANGED journal
                 ELSE Answer(p, j.status) /\ UNCHANGED <<journal, catalog>>
            [] catalog = None /\ open ->
                 IF prior THEN Fail(p, "CLUSTER_REVIEW_REQUIRED") /\ UNCHANGED <<journal, catalog>>
                 ELSE /\ journal' = [journal EXCEPT ![i] = [name |-> a.name, status |-> "UNCERTAIN"]]
                      /\ run(FALSE)
    /\ UNCHANGED <<mode, tokens, store, files, made, foreign, wire, cursor, fresh, faults>>

\* NetBox's side of a POST: the guard plugin answers a repeated nonce with its receipt.
Post(i) == made' = [made EXCEPT ![i] = IF mode.guarded /\ @ > 0 THEN @ ELSE @ + 1]

\* The child's run, its journal entry and the answer.  The create child lists the
\* name first; the resume child goes by the receipt and keeps the recorded status
\* unless it learns that the cluster was created. NetBox may refuse as often as it likes.
Child ==
    /\ catalog # None
    /\ LET i == catalog.id  n == journal[i].name
           finish(status) ==
             /\ journal' = [journal EXCEPT ![i].status =
                              IF catalog.resume /\ status # "CREATED" THEN @ ELSE status]
             /\ LET waiting == {p \in Procs : at[p] = "child" /\ Id(req[p]) = i} IN
                IF waiting = {} THEN UNCHANGED <<at, held, req, tok, own, jobs>>
                ELSE \E p \in waiting : Answer(p, journal'[i].status)
       IN \/ /\ ~catalog.resume /\ Listed(n) # {}
             /\ finish("EXISTS_REVIEW_REQUIRED") /\ UNCHANGED <<made, wire, faults>>
          \/ /\ catalog.resume \/ Listed(n) = {}
             /\ \/ Post(i) /\ finish("CREATED") /\ UNCHANGED <<wire, faults>>
                \/ Fault /\ Post(i) /\ finish("UNCERTAIN") /\ UNCHANGED wire
                \/ Fault /\ finish("UNCERTAIN") /\ wire' = wire \cup {i} /\ UNCHANGED made
                \/ finish("REFUSED") /\ UNCHANGED <<made, wire, faults>>
    /\ catalog' = None
    /\ UNCHANGED <<mode, tokens, store, files, foreign, cursor, fresh>>

\* create_call: a transport failure while the child still runs.
GiveUp(p) ==
    /\ at[p] = "child" /\ Fault
    /\ Fail(p, "UNCERTAIN")
    /\ UNCHANGED <<mode, tokens, store, files, netbox, cursor, fresh>>

\* A POST that outlived its child reaches NetBox.
LatePost(i) ==
    /\ i \in wire
    /\ wire' = wire \ {i}
    /\ Post(i)
    /\ UNCHANGED <<mode, tokens, held, store, jobs, files, journal, catalog, foreign, cursor,
                   at, req, tok, own, fresh, faults>>

\* Other users of NetBox.
ForeignCluster(n) ==
    /\ foreign[n] # "occupied"
    /\ foreign' = [foreign EXCEPT ![n] = IF @ = "none" THEN "empty" ELSE "occupied"]
    /\ UNCHANGED <<mode, tokens, held, store, jobs, files, journal, catalog, made, wire, cursor,
                   at, req, tok, own, fresh, faults>>

\* catalog_validate with require_empty_cluster, then bind_intent.
Validate(p) ==
    /\ at[p] = "validate"
    /\ IF ~own[p] /\ foreign[req[p].name] = "occupied" THEN Fail(p, "CLUSTER_REVIEW_REQUIRED")
       ELSE Go(p, IF mode.durable THEN "insert" ELSE "consume") /\ UNCHANGED jobs
    /\ UNCHANGED <<mode, tokens, store, files, netbox, cursor, fresh, faults>>

----------------------------------------------------------------------------
(* The registry row *)

\* register_staged: an equal row is this registration's; the INSERT may be refused,
\* or commit while its answer and the look-up after it are lost.
Insert(p) ==
    /\ at[p] = "insert"
    /\ LET a == req[p]  config == staged_config(a, references(Id(a)), own[p])
           row == [registry EXCEPT ![a.source] = config]
       IN IF Registered(a.source)
          THEN /\ UNCHANGED <<registry, faults>>
               /\ IF registry[a.source] = config
                  THEN mark(a.source, "COMPLETED") /\ Leave(p) ELSE Fail(p, "UNCERTAIN")
          ELSE \/ /\ registry' = row /\ mark(a.source, "COMPLETED") /\ Leave(p)
                  /\ UNCHANGED faults
               \/ Fault /\ registry' \in {row, registry} /\ Fail(p, "UNCERTAIN")
    /\ UNCHANGED <<mode, tokens, reserved, intents, files, netbox, cursor, fresh>>

\* Without durable jobs, _consume_registration: the token, its binding, no row yet.
Consume(w) ==
    /\ at[w] = "consume"
    /\ IF ~check_registration(w)
       THEN /\ Leave(w) /\ UNCHANGED fresh
            /\ tokens' = [tokens EXCEPT ![tok[w]] = None]
       ELSE /\ tokens' = [tokens EXCEPT ![tok[w]] = None]
            /\ IF req[w].source \in Esxi THEN Goto(w, "dsecret") /\ UNCHANGED fresh
               ELSE fresh < MaxFresh /\ fresh' = fresh + 1 /\ Goto(w, "dtoken")
            /\ tok' = [tok EXCEPT ![w] = <<fresh', tokens[tok[w]].value>>]
            /\ UNCHANGED <<held, req, own>>
    /\ UNCHANGED <<mode, store, jobs, files, netbox, cursor, faults>>

DirectId(w) == IF req[w].source \in Esxi THEN Id(req[w]) ELSE <<tok[w][1]>>
DirectKeys(w) == IF req[w].source \in Esxi THEN references(Id(req[w])) ELSE RandomKeys(tok[w][1])

\* _rollback: every file of the attempt that carries its receipt; an unanswered
\* request leaves the outcome open.
_rollback(w) == files' = [k \in Keys |-> IF k \in DirectKeys(w) THEN NoFile ELSE files[k]]

\* _create_registration_secrets: a derived key is never rolled back, a random one is.
CreateSecrets(w) ==
    /\ at[w] \in {"dtoken", "dsecret"}
    /\ LET label == IF at[w] = "dtoken" THEN "token" ELSE "secret"
           k == <<DirectId(w), label>>
       IN \/ CreateSecret(k, k[1], tok[w][2], Go(w, IF label = "token" THEN "dsecret" ELSE "dinsert"),
                          Leave(w), Leave(w))
          \/ /\ req[w].source \notin Esxi /\ Fault
             /\ Leave(w) /\ _rollback(w)
    /\ UNCHANGED <<mode, tokens, store, jobs, netbox, cursor, fresh>>

\* _persist_registration: a derived key's file stays whatever the INSERT did; a
\* random one goes only when the row has definitely not been written.
Persist(w) ==
    /\ at[w] = "dinsert"
    /\ LET a == req[w]  config == staged_config(a, DirectKeys(w), own[w])
           row == [registry EXCEPT ![a.source] = config]
       IN \/ /\ ~Registered(a.source) /\ registry' = row /\ UNCHANGED <<files, faults>>
          \/ /\ ~Registered(a.source) /\ Fault
             /\ registry' \in {row, registry} /\ UNCHANGED files
          \/ /\ Registered(a.source) \/ faults < MaxFaults
             /\ faults' = faults + (IF Registered(a.source) THEN 0 ELSE 1)
             /\ UNCHANGED registry
             /\ IF a.source \in Esxi THEN UNCHANGED files ELSE _rollback(w)
    /\ Leave(w)
    /\ UNCHANGED <<mode, tokens, reserved, intents, jobs, netbox, cursor, fresh>>

----------------------------------------------------------------------------
(* Legacy sources and faults *)

\* The exclusive admission lock meets every shared holder.
Exclusive == \A p \in Procs : "admission" \notin held[p]

\* Faulty variant: a reservation is no claim.
UnclaimedByRows(l, h) == existing(h) \ {l} = {}

\* No other claim on h.
Unclaimed(l, h) == /\ existing(h) \ {l} = {}
                   /\ \A s \in Sources \ {l} : reserved[s] # None => reserved[s].host # h

\* LegacyAdmission.confirm: ISOLATE, or OBSERVE with the endpoint's identity.
AdmitLegacy(l) ==
    /\ Exclusive
    /\ registration_anchor(registry[l]) = None
    /\ \E h \in Hosts \cup {None} :
         /\ h # None => Unclaimed(l, h)
         /\ registry' = [registry EXCEPT ![l].observed = h, ![l].enabled = FALSE]
    /\ UNCHANGED <<mode, tokens, held, reserved, intents, jobs, files, netbox, cursor, at, req, tok,
                   own, fresh, faults>>

\* IdentityVerification.confirm: discovery has proved the hardware identity.
VerifyLegacy(l) ==
    /\ Exclusive
    /\ \E h \in Hosts :
         /\ registration_anchor(registry[l]) \in {None, h}
         /\ Unclaimed(l, h)
         /\ registry' = [registry EXCEPT ![l].anchor = h, ![l].observed = None]
    /\ UNCHANGED <<mode, tokens, held, reserved, intents, jobs, files, netbox, cursor, at, req, tok,
                   own, fresh, faults>>

\* The API process dies with its threads, its tokens and its sessions.
Crash ==
    /\ Fault
    /\ at' = [p \in Procs |-> "idle"] /\ held' = [p \in Procs |-> {}]
    /\ req' = [p \in Procs |-> None] /\ tok' = [p \in Procs |-> None]
    /\ own' = [p \in Procs |-> FALSE]
    /\ tokens' = [t \in Tokens |-> None]
    /\ cursor' = None
    /\ UNCHANGED <<mode, store, jobs, files, netbox, fresh>>

\* The database drops its sessions: the advisory locks are gone, the callers are not.
DropSessions ==
    /\ Fault
    /\ \E p \in Procs : held[p] # {}
    /\ held' = [p \in Procs |-> {}]
    /\ UNCHANGED <<mode, tokens, store, jobs, files, netbox, cursor, at, req, tok, own, fresh>>

\* The steps of one thread once it has its request.
Step(p) == \/ Attest(p) \/ Lookup(p) \/ Reguard(p) \/ Resolve(p) \/ Cluster(p)
           \/ Validate(p) \/ Insert(p)
WorkerStep(w) == \/ Admit(w) \/ Guard(w) \/ Begin(w) \/ Stage(w) \/ Ready(w)
                 \/ Consume(w) \/ CreateSecrets(w) \/ Persist(w)

Next ==
    \/ \E a \in mode.attempts, t \in Tokens : \E v \in Values : ConnectionTest(a, v, t)
    \/ \E t \in Tokens : Discard(t)
    \/ \E w \in Workers : \E a \in mode.attempts, t \in Tokens : Submit(w, a, t)
    \/ \E w \in Workers : WorkerStep(w)
    \/ \E p \in Procs : Step(p) \/ GiveUp(p)
    \/ Continue \/ Child
    \/ \E i \in Ids : LatePost(i)
    \/ \E a \in mode.attempts \cup mode.staged : ForeignCluster(a.name)
    \/ \E l \in mode.legacy : AdmitLegacy(l) \/ VerifyLegacy(l)
    \/ Crash \/ DropSessions

\* Every call of a thread has a deadline, the continuation thread wakes every five
\* seconds, and the catalog child is given 28 seconds.
Fairness == /\ WF_vars(Continue \/ Step(Cont)) /\ WF_vars(Child)
            /\ \A w \in Workers : WF_vars(WorkerStep(w) \/ Step(w))

Spec == Init /\ [][Next]_vars /\ Fairness

----------------------------------------------------------------------------
(* Properties *)

File == [op : Ids \cup {<<n>> : n \in 1..MaxFresh} \cup {None}, value : Values \cup {None},
         complete : BOOLEAN]
Row == [present : BOOLEAN, anchor : Hosts \cup {None}, observed : Hosts \cup {None}, enabled : BOOLEAN,
        refs : SUBSET Keys, by : Attempts \cup {None}, own : BOOLEAN]
Places == {"idle", "admit", "guard", "begin", "token", "secret", "ready", "attest", "lookup", "reguard",
           "resolve", "cluster", "child", "validate", "insert", "consume", "dtoken", "dsecret", "dinsert"}

TypeOK ==
    /\ mode \in Modes
    /\ tokens \in [Tokens -> Handoff \cup {None}]
    /\ held \in [Procs -> SUBSET {"job", "admission", "host"}]
    /\ reserved \in [Sources -> Claiming \cup {None}]
    /\ intents \in [Sources -> Attempts \cup {None}]
    /\ jobs \in [Sources -> JobRow \cup {None}]
    /\ files \in [Keys -> File]
    /\ registry \in [Sources -> Row]
    /\ journal \in [Ids -> Entry \cup {None}]
    /\ catalog \in Running \cup {None}
    /\ made \in [Ids -> Nat]
    /\ foreign \in [Names -> {"none", "empty", "occupied"}]
    /\ wire \subseteq Ids
    /\ cursor \in {a.op : a \in Attempts} \cup {None}
    /\ at \in [Procs -> Places]
    /\ req \in [Procs -> Attempts \cup {None}]
    /\ tok \in [Procs -> Tokens \cup Values \cup ((0..MaxFresh) \X Values) \cup {None}]
    /\ own \in [Procs -> BOOLEAN]
    /\ fresh \in 0..MaxFresh
    /\ faults \in 0..MaxFaults

\* No hardware identity has two claimants: two live esxi rows never carry one
\* identity, and an active reservation never stands beside another source's row or
\* reservation for that identity -- also after every advisory lock has been lost.
Claimants(h) == existing(h) \cup {s \in Sources : reserved[s] # None /\ reserved[s].host = h}
OneClaim == \A h \in Hosts : \A s, t \in Claimants(h) : s = t

\* A registered source's credentials are whole: every file its row refers to is in
\* the broker's directory, complete, under its operation, whatever another attempt,
\* a retry or a rollback has done.
CredentialsKept ==
    \A s \in Sources : Registered(s) =>
       \A k \in registry[s].refs : files[k].complete /\ files[k].op = k[1]

\* Effects come after the claim: an esxi attempt that has a file at the broker or a
\* journalled cluster holds the reservation and the intent of exactly its request.
EffectsClaimed ==
    \A i \in Ids :
       (i[1] \in Esxi /\ (files[<<i, "secret">>] # NoFile \/ journal[i] # None \/ made[i] > 0)) =>
          /\ reserved[i[1]] # None /\ reserved[i[1]].id = i
          /\ intents[i[1]] # None /\ Id(intents[i[1]]) = i

\* A hardware identity is claimed by one source, and before anything is done for it.
ClaimedFirst == OneClaim /\ EffectsClaimed

\* Behind the guard plugin an attempt creates its cluster at most once, although its
\* POST is resumed after lost answers and may arrive late.
ClusterOnce == mode.guarded => \A i \in Ids : made[i] <= 1

\* A cluster of the wanted name is not proof of our CREATE: a request that asked for
\* a new cluster is registered only onto the one its own operation made.
CreatedIsOurs == \A s \in Sources : Registered(s) /\ s \notin Legacy =>
                    (registry[s].by.create => registry[s].own /\ made[Id(registry[s].by)] > 0)

\* What is registered is what was approved: the row, the immutable intent and the
\* durable job of a source come from one request.
RegisteredAsApproved ==
    \A s \in Sources \ Legacy : Registered(s) =>
       /\ s \notin Closed
       /\ s \in Esxi => intents[s] = registry[s].by
       /\ mode.durable => jobs[s] # None /\ jobs[s].attempt = registry[s].by

\* A job says COMPLETED only when the registry holds its row with its references.
CompletedIsRegistered ==
    \A s \in Sources : jobs[s] # None /\ jobs[s].state = "COMPLETED" =>
       Registered(s) /\ registry[s].refs = references(Id(jobs[s].attempt))

\* Every registry row is the outcome of one approved request: from its intent and its
\* job, onto the cluster it made (and made once), and known to its job as complete.
RegistrationSound == RegisteredAsApproved /\ CreatedIsOurs /\ CompletedIsRegistered /\ ClusterOnce

\* Staged jobs end: with the guard pinned and its name taken by nobody else, the
\* continuation reaches each job in turn and completes it, or blocks it for a
\* reviewed change, unless NetBox denies this one again and again, or operators post
\* requests without end.  A job that is denied for ever does not keep the others waiting.
Waiting(s) == mode.guarded /\ jobs[s] # None /\ jobs[s].state = "READY"
Denied(s) == /\ catalog # None /\ catalog.id[1] = s /\ catalog' = None
             /\ journal'[catalog.id].status \in {"REFUSED", "UNCERTAIN"} /\ UNCHANGED faults
Taken(s) == LET n == jobs[s].attempt.name IN foreign[n] # "none" \/ \E i \in Mine(n) : i[1] # s
StagedEnds == \A s \in Followed :
                 \/ []<><<Denied(s)>>_vars \/ []<>(\E w \in Workers : at[w] # "idle")
                 \/ (Waiting(s) ~> (~Waiting(s) \/ Taken(s)))

----------------------------------------------------------------------------
(* The inductive invariant of the proofs: what a thread knows at each of its *)
(* steps, and how the tables fit together when no thread looks.              *)

Placing == {"resolve", "cluster", "child", "validate"}
Direct == {"dtoken", "dsecret", "dinsert"}

\* The thread has a request, and is on the path of the deployment.
Requested(p) == /\ at[p] # "idle" => req[p] \in Attempts
                /\ at[p] \in {"begin", "token", "secret", "ready", "attest", "lookup", "reguard", "insert"}
                      => mode.durable
                /\ at[p] \in Direct \cup {"consume"} => ~mode.durable

\* From its admission on, the source is open and the intent is this request's.
Cleared(p) == at[p] \notin {"idle", "admit", "attest", "lookup", "reguard"} =>
                 /\ req[p].source \notin Closed
                 /\ req[p].source \in Esxi => intents[req[p].source] = req[p]

\* A thread that works on a job works on the job of its request; the continued one
\* has found its files whole.
Whole(k) == files[k].complete /\ files[k].op = k[1]
Staged(p) == mode.durable /\ at[p] \in Placing \cup {"lookup", "reguard", "insert"}
Bound(p) == /\ Staged(p) \/ at[p] \in {"token", "secret", "ready", "attest"} =>
                  jobs[req[p].source] # None /\ jobs[req[p].source].attempt = req[p]
            /\ Staged(p) => \A k \in references(Id(req[p])) : Whole(k)

\* Past the catalog a request for a new cluster has made it.
Creator(p) == at[p] \in Direct \cup {"validate", "insert", "consume"} /\ req[p].create =>
                 own[p] /\ made[Id(req[p])] > 0

\* The token, the secret it held, or the secret with the number of the random keys.
Handed(p) == /\ at[p] \in {"admit", "guard", "begin", "consume"} => tok[p] \in Tokens
             /\ at[p] \in Placing /\ ~mode.durable => tok[p] \in Tokens
             /\ at[p] \in {"token", "secret"} => tok[p] \in Values
             /\ at[p] \in Direct => tok[p] \in (0..fresh) \X Values

\* Only a proxmox source has a token's file; the direct path writes it before the
\* secret's, and both before the row.
Written(p) == /\ at[p] \in {"token", "dtoken"} => req[p].source \notin Esxi
              /\ at[p] = "dsecret" /\ req[p].source \notin Esxi => Whole(<<DirectId(p), "token">>)
              /\ at[p] = "dinsert" => \A k \in DirectKeys(p) : Whole(k)

\* Random keys are one thread's own until its row refers to them.
Holds(p) == at[p] \in Direct /\ req[p].source \notin Esxi
Apart == /\ \A p \in Procs : Holds(p) => tok[p][1] > 0
         /\ \A p, q \in Procs : Holds(p) /\ Holds(q) /\ tok[p][1] = tok[q][1] => p = q
Spent(k) == /\ \A p \in Procs : Holds(p) => k \notin RandomKeys(tok[p][1])
            /\ \A n \in (fresh + 1)..MaxFresh : k \notin RandomKeys(n)

Knows(p) == /\ Requested(p) /\ Cleared(p) /\ Bound(p)
            /\ Creator(p) /\ Handed(p) /\ Written(p)
Threads == Apart /\ \A p \in Procs : Knows(p)

\* A reservation and the intent of a source are written together, for its request.
Claim(s) == IF intents[s] = None THEN reserved[s] = None
            ELSE /\ intents[s].source = s
                 /\ reserved[s] = [host |-> intents[s].host, id |-> Id(intents[s])]
JobIs(s) == jobs[s] # None => mode.durable /\ jobs[s].attempt.source = s
RowIs(s) == IF s \in mode.legacy
            THEN registry[s].present /\ registry[s].refs = {} /\ intents[s] = None
            ELSE registry[s].present =>
                 /\ s \notin Closed
                 /\ registry[s].by \in Attempts /\ registry[s].by.source = s
                 /\ s \in Esxi => registry[s].anchor = registry[s].by.host /\ intents[s] = registry[s].by
                 /\ mode.durable => jobs[s] # None /\ jobs[s].attempt = registry[s].by
                 /\ registry[s].by.create => registry[s].own /\ made[Id(registry[s].by)] > 0
RowsWhole == \A s \in Sources : registry[s].present =>
                \A k \in registry[s].refs : Whole(k) /\ Spent(k)

\* NetBox's clusters, the POSTs on their way and the running child are journalled.
NetIs == /\ catalog # None => journal[catalog.id] # None
         /\ \A i \in Ids : i \in wire \/ made[i] > 0 => journal[i] # None
         /\ \A i \in Ids : journal[i] # None /\ journal[i].status = "CREATED" => made[i] > 0

Tables == /\ \A s \in Sources : Claim(s) /\ JobIs(s) /\ RowIs(s)
          /\ RowsWhole /\ NetIs /\ CompletedIsRegistered /\ ClusterOnce /\ ClaimedFirst
IInv == TypeOK /\ Threads /\ Tables
=============================================================================
