----------------------------- MODULE Bootstrap ------------------------------
(***************************************************************************)
(* First-run setup: the protected state document, its validation by a      *)
(* probe, and the preparation of NetBox's custom fields with a setup token *)
(* that is never stored.  Each request is a process of its own; a section  *)
(* under the document's lock is one step, what a child process does in     *)
(* NetBox is another, and a process may die between any two.  A lock that  *)
(* is taken refuses at once; a request so refused changes nothing, but in  *)
(* a preparation under way it is a failed save.                            *)
(***************************************************************************)
EXTENDS Integers, Sequences

CONSTANTS Nil,
          FIELDS,        \* the managed custom fields, in their order
          Urls,
          SetupTokens,   \* "v2": can be found and revoked, "v1": cannot, "plain": may not create
          GuardOn,       \* the probe also asks the Guard plugin
          Stages         \* what administrators enter, what NetBox has at first, and the bounds

VARIABLES stage,
          doc,       \* bootstrap.json
          customs,    \* the custom fields of each NetBox: rows of each name
          probes,    \* validations between their two locked sections
          plans,     \* plan requests between their two locked sections
          run,       \* the preparation under way
          reviewed,  \* the digest of the plan the administrator has seen
          posts,     \* POSTs on their way to NetBox
          worker,    \* another component that needs NetBox: admitted, then at work
          held,      \* who holds apply.lock
          count      \* attempts, runs and edits so far
svars == <<stage, doc, customs, probes, plans, run, reviewed, posts, worker, held, count>>

Names == {FIELDS[i] : i \in DOMAIN FIELDS}
Kinds == {"missing", "conflict", "provisioning", "ready"}
Grants == {"unknown", "reader", "writer"}
Tokens == [read : Grants, apply : Grants]
Rows == [same : BOOLEAN, status : {"active", "provisioning", "deleting"}]
Digests == Nat \X Urls \X [Names -> Kinds]
Thens == {"close", "create", "next", "revoke"}
Codes == {"NOT_SENT", "UNCERTAIN", "RECONCILE", "CONFLICT", "WAITING", "CREATED", "REJECTED"}
Statuses == Codes \cup {"NONE", "PLANNED", "RUNNING", "CANCELLED", "STALE", "TOKEN_REJECTED", "EXPIRED", "RECHECK_REQUIRED", "PREPARED"}
Revocations == {"NOT_ATTEMPTED", "UNCONFIRMED", "CONFIRMED"}
ASSUME StagesAssumption ==
  /\ FIELDS \in Seq(Names)
  /\ \A s \in DOMAIN Stages : /\ Stages[s].configs \subseteq [url : Urls, read : Grants, apply : Grants]
                              /\ Stages[s].begin \in [Urls -> [Names -> SUBSET Rows]]
ASSUME NilAssumption ==
  /\ Nil \notin Urls /\ Nil \notin Names /\ Nil \notin Tokens /\ Nil \notin [Names -> Kinds] /\ Nil \notin Digests
  /\ Nil \notin {"run", "worker", "ok", "failed"} /\ Nil \notin Thens /\ Nil \notin Statuses /\ Nil \notin Revocations
  /\ "kept" \notin Names
NoPreparation == [status |-> "NONE", fields |-> Nil, digest |-> Nil, uncertain |-> Nil, created |-> {},
                  revocation |-> "NOT_ATTEMPTED", run |-> 0, old |-> FALSE]
read == [revision |-> 0, status |-> "FRESH", url |-> Nil, tokens |-> Nil, completed |-> FALSE,
         attempt |-> 0, old |-> FALSE, prep |-> NoPreparation]

\* ---- NetBox's custom fields, as the code sees them. ----------------------
\* A row is one definition: whether it differs from what is managed, and its lifecycle.
Row(same, status) == [same |-> same, status |-> status]
_field_differences(row) == IF row.same THEN {} ELSE {"schema"}
Classify(rows) ==
  IF rows = {} THEN "missing"
  ELSE IF \E r, s \in rows : r # s THEN "conflict"
  ELSE LET row == CHOOSE r \in rows : TRUE IN
       IF _field_differences(row) # {} THEN "conflict"
       ELSE CASE row.status = "provisioning" -> "provisioning" [] row.status = "active" -> "ready" [] OTHER -> "conflict"
reconcile(url) == [f \in Names |-> Classify(customs[url][f])]
AllReady(fields) == \A f \in Names : fields[f] = "ready"
digest(revision, url, fields) == <<revision, url, fields>>

SetupBusy == doc.status = "VALIDATING" \/ doc.prep.status = "RUNNING"
check(revision) == revision = doc.revision /\ ~SetupBusy

Scope == Stages[stage]
SetupInit == /\ doc = read
             /\ stage \in DOMAIN Stages /\ customs = Stages[stage].begin
             /\ probes = {} /\ plans = {} /\ run = Nil /\ reviewed = Nil /\ posts = {}
             /\ worker = Nil /\ held = Nil
             /\ count = [attempts |-> 0, runs |-> 0, edits |-> 0]

\* ---- bootstrap_state.py --------------------------------------------------
\* status(), which the pages poll: an attempt past its time is closed.
Expired(d) == [d EXCEPT !.status = IF d.status = "VALIDATING" /\ d.old THEN "ATTENTION" ELSE @,
                        !.prep.status = IF @ = "RUNNING" /\ d.prep.old THEN "UNCERTAIN" ELSE @]
Status == /\ doc' = Expired(doc) /\ doc' # doc
          /\ UNCHANGED <<stage, customs, probes, plans, run, reviewed, posts, worker, held, count>>

\* Time passes for what the document times: a validation's start or end; a plan or a run.
AgeDoc == /\ doc.status \in {"VALIDATING", "VALIDATED"} /\ ~doc.old
          /\ doc' = [doc EXCEPT !.old = TRUE]
          /\ UNCHANGED <<stage, customs, probes, plans, run, reviewed, posts, worker, held, count>>
AgePrep == /\ doc.prep.status \in {"PLANNED", "RUNNING"} /\ ~doc.prep.old
           /\ doc' = [doc EXCEPT !.prep.old = TRUE]
           /\ UNCHANGED <<stage, customs, probes, plans, run, reviewed, posts, worker, held, count>>

OnlyWhenCompleted(c) == doc.completed => c.url = doc.url
\* A NetBox once finished, or once prepared, is not exchanged for another.
SameNetBox(c) == doc.completed \/ doc.prep # NoPreparation => c.url = doc.url
Configured(c) ==
  [doc EXCEPT !.revision = @ + 1, !.status = "CONFIGURED", !.url = c.url,
              !.tokens = [read |-> c.read, apply |-> c.apply], !.old = FALSE]
LockFree == held = Nil
configure(c, replace) ==
  /\ LockFree /\ c.read # c.apply
  /\ doc.revision < Scope.revisions /\ ~SetupBusy
  /\ doc.tokens # Nil => replace
  /\ SameNetBox(c)
  /\ doc' = Configured(c)
  /\ UNCHANGED <<stage, customs, probes, plans, run, reviewed, posts, worker, held, count>>

\* The first section of validate(); a running or still fresh validation answers as it is.
ValidateBegins ==
  LET attempt == count.attempts + 1 IN
  /\ doc.prep.status # "RUNNING" /\ doc.tokens # Nil
  /\ ~(doc.status = "VALIDATING" \/ (doc.status = "VALIDATED" /\ ~doc.old))
  /\ count.attempts < Scope.attempts
  /\ doc' = [doc EXCEPT !.status = "VALIDATING", !.attempt = attempt, !.old = FALSE]
  /\ probes' = probes \cup {[attempt |-> attempt, revision |-> doc.revision, url |-> doc.url,
                             tokens |-> doc.tokens, code |-> Nil]}
  /\ count' = [count EXCEPT !.attempts = attempt]
  /\ UNCHANGED <<stage, customs, plans, run, reviewed, posts, worker, held>>

\* What the probe's child finds: the tokens at each endpoint, reader first, then Guard,
\* then the fields.  Any request may also fail on its way.
_check_endpoint(tokens) ==
  CASE tokens.read = "unknown" -> "AUTH_FAILED" [] tokens.read = "writer" -> "PERMISSION_DENIED"
    [] tokens.apply = "unknown" -> "AUTH_FAILED" [] tokens.apply = "reader" -> "PERMISSION_DENIED" [] OTHER -> "ok"
_check_guard == IF GuardOn THEN {"ok", "RETIREMENT_TOKEN_WRITE_REQUIRED", "RETIREMENT_GUARD_CHANGED"} ELSE {"ok"}
_check_prerequisites(url) == IF AllReady(reconcile(url)) THEN "ok" ELSE "PREREQUISITES_MISSING"
probe(p) ==
  {"NETWORK_UNREACHABLE"} \cup
  (IF _check_endpoint(p.tokens) # "ok" THEN {_check_endpoint(p.tokens)}
   ELSE {IF g # "ok" THEN g ELSE _check_prerequisites(p.url) : g \in _check_guard})
Probe(p) == /\ p.code = Nil
            /\ \E code \in probe(p) : probes' = (probes \ {p}) \cup {[p EXCEPT !.code = IF code = "ok" THEN code ELSE "failed"]}
            /\ UNCHANGED <<stage, doc, customs, plans, run, reviewed, posts, worker, held, count>>

AnyValidating(p) == doc.status = "VALIDATING"
\* The second section: only the attempt the document still waits for is published.
Awaited(p) == doc.revision = p.revision /\ doc.status = "VALIDATING" /\ doc.attempt = p.attempt
ValidateEnds(p) ==
  /\ p.code # Nil
  /\ probes' = probes \ {p}
  /\ doc' = IF Awaited(p) THEN [doc EXCEPT !.status = IF p.code = "ok" THEN "VALIDATED" ELSE "ATTENTION", !.old = FALSE] ELSE doc
  /\ UNCHANGED <<stage, customs, plans, run, reviewed, posts, worker, held, count>>
\* The document's lock is taken, or the process is gone.
ValidateLost(p) == /\ probes' = probes \ {p}
                   /\ UNCHANGED <<stage, doc, customs, plans, run, reviewed, posts, worker, held, count>>

finish == /\ LockFree /\ doc.status = "VALIDATED" /\ ~doc.old
          /\ doc' = [doc EXCEPT !.status = "READY", !.completed = TRUE]
          /\ UNCHANGED <<stage, customs, probes, plans, run, reviewed, posts, worker, held, count>>

\* A write of the web is admitted by the document's status; the worker that carries it
\* out reads the document again, under apply.lock, and only a READY one.
_admit_write == /\ worker = Nil /\ doc.status = "READY"
                /\ worker' = [is |-> "admitted", revision |-> 0]
                /\ UNCHANGED <<stage, doc, customs, probes, plans, run, reviewed, posts, held, count>>
runtime_netbox == /\ worker # Nil /\ worker.is = "admitted" /\ held = Nil
                  /\ IF doc.status = "READY"
                     THEN worker' = [is |-> "working", revision |-> doc.revision] /\ held' = "worker"
                     ELSE worker' = Nil /\ UNCHANGED held
                  /\ UNCHANGED <<stage, doc, customs, probes, plans, run, reviewed, posts, count>>
WorkerEnds == /\ worker # Nil /\ worker.is = "working"
              /\ worker' = Nil /\ held' = Nil
              /\ UNCHANGED <<stage, doc, customs, probes, plans, run, reviewed, posts, count>>

\* ---- bootstrap_setup.py: the plan. ---------------------------------------
read_fields(u, t) == IF t.read = "unknown" THEN {Nil} ELSE {Nil, reconcile(u)}
PlanBegins == /\ check(doc.revision) /\ doc.tokens # Nil /\ plans = {} /\ Scope.runs > 0
              /\ plans' = {[revision |-> doc.revision, url |-> doc.url, tokens |-> doc.tokens, fields |-> Nil]}
              /\ UNCHANGED <<stage, doc, customs, probes, run, reviewed, posts, worker, held, count>>
PlanReads(p) == /\ p.fields = Nil
                /\ \E fields \in read_fields(p.url, p.tokens) :
                     plans' = IF fields = Nil THEN {} ELSE {[p EXCEPT !.fields = fields]}
                /\ UNCHANGED <<stage, doc, customs, probes, run, reviewed, posts, worker, held, count>>
\* A field whose POST has no known outcome stays marked until it is seen in NetBox.
StillUncertain(fields) ==
  IF doc.prep.uncertain # Nil /\ fields[doc.prep.uncertain] # "missing" THEN Nil ELSE doc.prep.uncertain
PlanEnds(p) ==
  LET uncertain == StillUncertain(p.fields) IN
  /\ p.fields # Nil /\ plans' = {}
  /\ doc' = IF check(p.revision)
            THEN [doc EXCEPT !.prep = [@ EXCEPT !.status = IF uncertain # Nil THEN "UNCERTAIN" ELSE "PLANNED",
                    !.fields = p.fields, !.digest = digest(p.revision, doc.url, p.fields),
                    !.uncertain = uncertain, !.run = 0, !.old = FALSE]]
            ELSE doc
  /\ UNCHANGED <<stage, customs, probes, run, reviewed, posts, worker, held, count>>
cancel == /\ check(doc.revision) /\ doc.prep.status # "CANCELLED"
          /\ doc' = [doc EXCEPT !.prep.status = "CANCELLED"]
          /\ UNCHANGED <<stage, customs, probes, plans, run, reviewed, posts, worker, held, count>>
ReviewPlan == /\ doc.prep.digest # Nil /\ reviewed' = doc.prep.digest
              /\ UNCHANGED <<stage, doc, customs, probes, plans, run, posts, worker, held, count>>

\* ---- and its execution, under apply.lock. --------------------------------
\* What a save changes of the preparation.
Kept == [status |-> Nil, fields |-> Nil, uncertain |-> "kept", created |-> Nil, revocation |-> Nil]
Merged(prep, upd) ==
  [prep EXCEPT !.status = IF upd.status = Nil THEN @ ELSE upd.status,
               !.fields = IF upd.fields = Nil THEN @ ELSE upd.fields,
               !.uncertain = IF upd.uncertain = "kept" THEN @ ELSE upd.uncertain,
               !.created = IF upd.created = Nil THEN @ ELSE upd.created,
               !.revocation = IF upd.revocation = Nil THEN @ ELSE upd.revocation]
_start(token) ==
  LET id == count.runs + 1 IN
  /\ LockFree /\ check(doc.revision) /\ doc.tokens # Nil
  /\ token \notin {doc.tokens.read, doc.tokens.apply}
  /\ doc.prep.status = "PLANNED" /\ doc.prep.digest = reviewed /\ ~doc.prep.old /\ doc.prep.uncertain = Nil
  /\ \A f \in Names : doc.prep.fields[f] \notin {"conflict", "provisioning"}
  /\ count.runs < Scope.runs
  /\ doc' = [doc EXCEPT !.status = "ATTENTION", !.old = FALSE,
                        !.prep = [@ EXCEPT !.status = "RUNNING", !.run = id, !.revocation = "NOT_ATTEMPTED", !.old = FALSE]]
  /\ run' = [id |-> id, phase |-> "read", token |-> token, revocable |-> FALSE, revision |-> doc.revision,
             url |-> doc.url, tokens |-> doc.tokens, digest |-> reviewed, todo |-> {}, field |-> Nil, created |-> doc.prep.created,
             code |-> Nil, upd |-> Kept, then |-> Nil]
  /\ held' = "run" /\ count' = [count EXCEPT !.runs = id]
  /\ UNCHANGED <<stage, customs, probes, plans, reviewed, posts, worker>>

RunAt(phase) == run # Nil /\ run.phase = phase
Go(phase) == [run EXCEPT !.phase = phase]
Saving(upd, then) == [run EXCEPT !.phase = "save", !.upd = upd, !.then = then]
Ends(status) == Saving([Kept EXCEPT !.status = status], "close")

\* save(): refused when the document has another run, and when its lock is taken.
Owned == doc.prep.run = run.id
Save == /\ RunAt("save")
        /\ \/ Owned /\ doc' = [doc EXCEPT !.prep = Merged(@, run.upd)] /\ run' = [Go(run.then) EXCEPT !.upd = Kept, !.then = Nil]
           \/ UNCHANGED doc /\ run' = [Go("failed") EXCEPT !.upd = Kept, !.then = Nil]
        /\ UNCHANGED <<stage, customs, probes, plans, reviewed, posts, worker, held, count>>
Failed == /\ RunAt("failed") /\ run' = Go("close")
          /\ doc' \in {doc, IF Owned THEN [doc EXCEPT !.prep.status = "UNCERTAIN"] ELSE doc}
          /\ UNCHANGED <<stage, customs, probes, plans, reviewed, posts, worker, held, count>>
\* The finally clause of apply(); the token is forgotten with the process.
Close == /\ RunAt("close") /\ run' = Nil /\ held' = Nil
         /\ doc' \in {doc, IF Owned /\ doc.prep.revocation = "NOT_ATTEMPTED"
                           THEN [doc EXCEPT !.prep.revocation = "UNCONFIRMED"] ELSE doc}
         /\ UNCHANGED <<stage, customs, probes, plans, reviewed, posts, worker, count>>
Crash == /\ run # Nil /\ run' = Nil /\ held' = Nil
         /\ UNCHANGED <<stage, doc, customs, probes, plans, reviewed, posts, worker, count>>

RunReads == /\ RunAt("read")
            /\ \E fields \in read_fields(run.url, run.tokens) :
                 run' = IF fields = Nil THEN Go("failed")
                        ELSE IF digest(run.revision, run.url, fields) # run.digest THEN Ends("STALE")
                        ELSE [Go("identify") EXCEPT !.todo = {f \in Names : fields[f] = "missing"}]
            /\ UNCHANGED <<stage, doc, customs, probes, plans, reviewed, posts, worker, held, count>>
_identify == /\ RunAt("identify")
             /\ \/ run' = Ends("TOKEN_REJECTED")
                \/ /\ run.token # "plain"
                   /\ \E found \in {run.token = "v2", FALSE} : run' = [Go("next") EXCEPT !.revocable = found]
             /\ UNCHANGED <<stage, doc, customs, probes, plans, reviewed, posts, worker, held, count>>
\* The missing fields come in the order of FIELDS.
Before(f, g) == \E i, j \in DOMAIN FIELDS : i <= j /\ FIELDS[i] = f /\ FIELDS[j] = g
\* Each missing field: the marker is durable before its POST; past 90 seconds none is begun.
MarkFirst(f) == [Saving([Kept EXCEPT !.uncertain = f], "create") EXCEPT !.field = f]
NextField == /\ RunAt("next")
             /\ \/ run.todo = {} /\ run' = Go("final")
                \/ run.todo # {} /\ run' = Ends("EXPIRED")
                \/ \E f \in run.todo : (\A g \in run.todo : Before(f, g)) /\ run' = MarkFirst(f)
             /\ UNCHANGED <<stage, doc, customs, probes, plans, reviewed, posts, worker, held, count>>
\* The child reads the fields again, and sends its POST only for a field still missing.
create == /\ RunAt("create")
          /\ LET f == run.field
                 observed == reconcile(run.url)
                 now == observed[f] IN
             \/ run' = [Go("settle") EXCEPT !.code = "NOT_SENT"] /\ UNCHANGED posts
             \/ run' = [Go("settle") EXCEPT !.code = "UNCERTAIN"] /\ UNCHANGED posts
             \/ /\ now # "missing" /\ UNCHANGED posts
                /\ run' = [Go("settle") EXCEPT !.upd = [Kept EXCEPT !.fields = observed], !.code =
                     CASE now = "ready" -> "RECONCILE" [] now = "conflict" -> "CONFLICT" [] OTHER -> "WAITING"]
             \/ /\ now = "missing"
                /\ run' = Go("sent") /\ posts' = posts \cup {[url |-> run.url, field |-> f, run |-> run.id]}
          /\ UNCHANGED <<stage, doc, customs, probes, plans, reviewed, worker, held, count>>
GivesUp == /\ RunAt("sent") /\ run' = [Go("settle") EXCEPT !.code = "UNCERTAIN"]
           /\ UNCHANGED <<stage, doc, customs, probes, plans, reviewed, posts, worker, held, count>>
Settle ==
  LET created == run.created \cup IF run.code = "CREATED" THEN {run.field} ELSE {}
      more == [run EXCEPT !.todo = @ \ {run.field}, !.created = created, !.phase = "save", !.then = "next",
                          !.upd = [Kept EXCEPT !.uncertain = Nil, !.created = created]] IN
  /\ RunAt("settle")
  /\ run' = [(CASE run.code \in {"CONFLICT", "WAITING"} -> Saving([run.upd EXCEPT !.status = run.code, !.uncertain = Nil], "close")
                [] run.code = "NOT_SENT" -> Saving([Kept EXCEPT !.status = "RECHECK_REQUIRED", !.uncertain = Nil], "close")
                [] run.code = "REJECTED" -> Saving([Kept EXCEPT !.status = "REJECTED", !.uncertain = Nil], "close")
                [] run.code = "UNCERTAIN" -> Ends("UNCERTAIN")
                [] OTHER -> more) EXCEPT !.code = Nil]
  /\ UNCHANGED <<stage, doc, customs, probes, plans, reviewed, posts, worker, held, count>>
RunRereads == /\ RunAt("final")
              /\ \E fields \in read_fields(run.url, run.tokens) :
                   run' = IF fields = Nil THEN Go("failed")
                          ELSE IF AllReady(fields) THEN Saving([Kept EXCEPT !.status = "PREPARED", !.fields = fields], "revoke")
                          ELSE Saving([Kept EXCEPT !.status = "WAITING", !.fields = fields], "close")
              /\ UNCHANGED <<stage, doc, customs, probes, plans, reviewed, posts, worker, held, count>>
_revoke_token == /\ RunAt("revoke")
                 /\ \E r \in {"UNCONFIRMED"} \cup (IF run.revocable THEN {"CONFIRMED"} ELSE {}) :
                      run' = Saving([Kept EXCEPT !.revocation = r], "close")
                 /\ UNCHANGED <<stage, doc, customs, probes, plans, reviewed, posts, worker, held, count>>

\* ---- NetBox and its administrators, outside the program. -----------------
\* A POST arrives once and is taken or refused; its answer may reach the child that still waits,
\* or be lost.
Put(u, f, row) == [customs EXCEPT ![u][f] = @ \cup {row}]
Arrives(p) ==
  /\ posts' = posts \ {p}
  /\ \E row \in {Row(TRUE, "active"), Row(TRUE, "provisioning")}, taken, heard \in BOOLEAN :
       /\ taken => customs[p.url][p.field] = {}
       /\ customs' = IF taken THEN Put(p.url, p.field, row) ELSE customs
       /\ run' = IF heard /\ RunAt("sent") /\ run.id = p.run
                 THEN [Go("settle") EXCEPT !.code = IF taken THEN "CREATED" ELSE "REJECTED"] ELSE run
  /\ UNCHANGED <<stage, doc, probes, plans, reviewed, worker, held, count>>
NeverArrives(p) == /\ posts' = posts \ {p}
                   /\ UNCHANGED <<stage, doc, customs, probes, plans, run, reviewed, worker, held, count>>
\* A field is added by hand, as managed or differently, or ends its provisioning; nobody deletes one.
Edit(u, f) == /\ customs[u][f] = {} /\ count.edits < Scope.edits
              /\ \E same \in BOOLEAN : customs' = Put(u, f, Row(same, "active"))
              /\ count' = [count EXCEPT !.edits = @ + 1]
              /\ UNCHANGED <<stage, doc, probes, plans, run, reviewed, posts, worker, held>>
Provisioned(u, f) == /\ customs[u][f] = {Row(TRUE, "provisioning")}
                     /\ customs' = [customs EXCEPT ![u][f] = {Row(TRUE, "active")}]
                     /\ UNCHANGED <<stage, doc, probes, plans, run, reviewed, posts, worker, held, count>>

SetupNext == \/ Status \/ AgeDoc \/ AgePrep \/ ValidateBegins \/ finish
             \/ \E c \in Scope.configs, replace \in BOOLEAN : configure(c, replace)
             \/ \E p \in probes : Probe(p) \/ ValidateEnds(p) \/ ValidateLost(p)
             \/ _admit_write \/ runtime_netbox \/ WorkerEnds
             \/ PlanBegins \/ cancel \/ ReviewPlan
             \/ \E p \in plans : PlanReads(p) \/ PlanEnds(p)
             \/ \E token \in SetupTokens : _start(token)
             \/ Save \/ Failed \/ Close \/ Crash
             \/ RunReads \/ _identify \/ NextField \/ create \/ GivesUp \/ Settle \/ RunRereads \/ _revoke_token
             \/ \E p \in posts : Arrives(p) \/ NeverArrives(p)
             \/ \E u \in Urls, f \in Names : Edit(u, f) \/ Provisioned(u, f)

\* What runtime_netbox() hands out as READY was validated: the reader only reads, the writer
\* writes, every managed field is there.  A probe that outlived its attempt, a configuration
\* that changed under it or a preparation begun after it never make the document READY; and who
\* holds apply.lock with those credentials works with the ones that are configured to the end.
ReadyIsSound ==
  /\ doc.status = "READY" => /\ doc.tokens.read = "reader" /\ doc.tokens.apply = "writer"
                             /\ AllReady(reconcile(doc.url))
  /\ worker # Nil /\ worker.is = "working" => doc.revision = worker.revision
\* "Crash/timeout never permits a blind retry": while the outcome of a POST is open, its field
\* is in NetBox or marked in the document of that very NetBox, and no second POST is under way.
NoBlindRetry ==
  \A p \in posts :
    /\ customs[p.url][p.field] # {} \/ (doc.url = p.url /\ doc.prep.uncertain = p.field)
    /\ \A q \in posts : q.url = p.url /\ q.field = p.field => q = p
SetupSpec == SetupInit /\ [][SetupNext]_svars

\* ---- An inductive invariant ------------------------------------------------
RunPhases == {"read", "identify", "next", "save", "create", "sent", "settle", "final", "revoke", "failed", "close"}
Prep == [status : Statuses, fields : {Nil} \cup [Names -> Kinds], digest : {Nil} \cup Digests, uncertain : {Nil} \cup Names,
         created : SUBSET Names, revocation : Revocations, run : Nat, old : BOOLEAN]
Upd == [status : {Nil} \cup Statuses, fields : {Nil} \cup [Names -> Kinds], uncertain : {"kept", Nil} \cup Names,
        created : {Nil} \cup SUBSET Names, revocation : {Nil} \cup Revocations]
Doc == [revision : Nat, status : {"FRESH", "CONFIGURED", "VALIDATING", "VALIDATED", "ATTENTION", "READY"}, url : {Nil} \cup Urls,
        tokens : {Nil} \cup Tokens, completed : BOOLEAN, attempt : Nat, old : BOOLEAN, prep : Prep]
Probes == [attempt : Nat, revision : Nat, url : Urls, tokens : Tokens, code : {Nil, "ok", "failed"}]
Plans == [revision : Nat, url : Urls, tokens : Tokens, fields : {Nil} \cup [Names -> Kinds]]
Run == [id : Nat, phase : RunPhases, token : SetupTokens, revocable : BOOLEAN, revision : Nat, url : Urls, tokens : Tokens,
        digest : {Nil} \cup Digests, todo : SUBSET Names, field : {Nil} \cup Names, created : SUBSET Names, code : {Nil} \cup Codes, upd : Upd,
        then : {Nil} \cup Thens]
SetupTypeOK ==
  /\ stage \in DOMAIN Stages /\ doc \in Doc /\ customs \in [Urls -> [Names -> SUBSET Rows]]
  /\ probes \subseteq Probes /\ plans \subseteq Plans /\ run \in {Nil} \cup Run /\ reviewed \in {Nil} \cup Digests
  /\ posts \subseteq [url : Urls, field : Names, run : Nat]
  /\ worker \in {Nil} \cup [is : {"admitted", "working"}, revision : Nat] /\ held \in {Nil, "run", "worker"}
  /\ count \in [attempts : Nat, runs : Nat, edits : Nat]

\* A probe's finding stays true of the credentials it was made with: fields do not become unready.
Sound(c) == c.tokens.read = "reader" /\ c.tokens.apply = "writer" /\ AllReady(reconcile(c.url))
DocIs == /\ doc.tokens # Nil => doc.url \in Urls
         /\ doc.status \in {"VALIDATED", "READY"} => doc.tokens # Nil /\ Sound(doc)
         /\ doc.status = "VALIDATING" => doc.tokens # Nil
ProbeIs(p) == /\ p.revision <= doc.revision
              /\ p.revision = doc.revision => p.url = doc.url /\ p.tokens = doc.tokens
              /\ p.code = "ok" => Sound(p)
PlanIs(p) == /\ p.revision <= doc.revision
             /\ p.revision = doc.revision => p.url = doc.url
             /\ p.fields # Nil => \A f \in Names : p.fields[f] # "missing" => customs[p.url][f] # {}
WorkerIs == worker # Nil /\ worker.is = "working" => held = "worker" /\ worker.revision = doc.revision

\* A POST whose field NetBox does not have yet.
Open(p) == customs[p.url][p.field] = {}
PostIs(p) == /\ p.run <= count.runs
             /\ Open(p) => doc.url = p.url /\ doc.prep.uncertain = p.field
             /\ \A q \in posts : q.run = p.run \/ (q.url = p.url /\ q.field = p.field) => q = p
\* The preparation under way has the lock; a POST may be open only while it waits for the answer, or
\* after it has given up, and then it ends with the marker in the document.
Waits == run.phase = "sent"
GivenUp == \/ run.phase = "settle" /\ run.code = "UNCERTAIN"
           \/ run.phase = "save" /\ run.upd.uncertain = "kept" /\ run.then = "close"
           \/ run.phase \in {"failed", "close"}
RunIs ==
  run # Nil =>
    /\ held = "run" /\ doc.url = run.url /\ run.id <= count.runs
    /\ run.phase = "save" => run.then # Nil
    /\ run.phase \in {"create", "sent", "settle"} => run.field # Nil
    /\ run.phase = "save" /\ run.then = "create" => run.field # Nil /\ run.upd.uncertain = run.field
    /\ run.phase = "create" => doc.prep.uncertain = run.field \/ customs[run.url][run.field] # {}
    /\ run.phase = "settle" => run.code # Nil
    /\ \A p \in posts : /\ Open(p) \/ p.run = run.id => Waits \/ GivenUp
                        /\ Open(p) /\ Waits => p.run = run.id
SetupIInv == /\ SetupTypeOK /\ DocIs /\ WorkerIs /\ RunIs
             /\ \A p \in probes : ProbeIs(p)
             /\ \A p \in plans : PlanIs(p)
             /\ \A p \in posts : PostIs(p)
=============================================================================
