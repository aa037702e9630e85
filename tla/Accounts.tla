------------------------------ MODULE Accounts ------------------------------
(***************************************************************************)
(* Selectel accounts: the protected state file of each, the runner process *)
(* that collects and imports, the scheduler, receipt reconciliation, and   *)
(* the reviewed lifecycle decisions (detach, delete, activate, accept a    *)
(* historical baseline).  The import and each decision are one POST to the *)
(* Guard plugin, one transaction there, which may be served long after its *)
(* sender has given up or died.  A section under the store lock is one     *)
(* step.  Errors no command tells apart are "failed".                      *)
(***************************************************************************)
EXTENDS Integers, FiniteSets

CONSTANTS None, Accounts,
          MaxRuns,
          Requests,   \* the connection forms' request ids
          Scenes      \* what the administrator does, and the bounds

VARIABLES scene,
          acct,     \* the state files
          runs,     \* how many runs were launched
          runner,   \* the process of each run: its account, where it is and its result
          post,     \* the import POST of each run: "none", "flying", or Guard's answer
          guard,    \* the Guard plugin's tables
          control,  \* the lifecycle call that holds the store lock, or None
          lposts,   \* lifecycle POSTs on their way
          review,   \* the plan the administrator has seen last
          forms,    \* the connection generation each form was opened at
          count,    \* lifecycle nonces, lifecycle POSTs and foreign edits so far
          launches  \* how many runs each form launched
vars == <<scene, acct, runs, runner, post, guard, control, lposts, review, forms, count, launches>>

Bound == Scenes[scene]
Runs == 1..MaxRuns
Operations == {"detach", "delete", "activate", "baseline"}
Prints == Nat \X Nat
Planned == [a : Accounts, operation : Operations, key : 0..MaxRuns, fingerprint : Prints]
Decision == [a : Accounts, operation : Operations, key : 0..MaxRuns, fingerprint : Prints, nonce : Nat]
Call == [a : Accounts, try : Nat, answer : {None, "done", "rolled_back"}]
Form == [a : Accounts, generation : Nat]
ASSUME ScenesAssumption ==
  /\ MaxRuns \in Nat
  /\ \A s \in DOMAIN Scenes : /\ Scenes[s].accounts \subseteq Accounts /\ Scenes[s].operations \subseteq Operations
                             /\ Scenes[s].runs \in 0..MaxRuns /\ Scenes[s].starts \subseteq {"started", "unknown", "failed"}
ASSUME NoneAssumption ==
  /\ None \notin Accounts /\ None \notin Requests /\ None \notin {"done", "rolled_back"}
  /\ None \notin Prints /\ None \notin Planned /\ None \notin Decision /\ None \notin Call /\ None \notin Form
Uncertain == {"unconfirmed", "interrupted"}
Blank == [password |-> FALSE, status |-> "none", error |-> "none", run |-> 0, pid |-> FALSE, age |-> "none",
          enabled |-> TRUE, scheduled |-> FALSE, due |-> "none", intent |-> FALSE, pending |-> None,
          deleted |-> FALSE, generation |-> 0, request |-> None]

Init == /\ scene \in DOMAIN Scenes
        /\ acct = [a \in Accounts |-> Blank] /\ runs = 0
        /\ runner = [r \in Runs |-> [a |-> None, phase |-> "dead", result |-> "none"]]
        /\ post = [r \in Runs |-> "none"]
        /\ guard = [committed |-> {}, retired |-> [r \in Runs |-> None], fence |-> [a \in Accounts |-> FALSE],
                    receipts |-> {}, revision |-> [a \in Accounts |-> 0], epoch |-> [a \in Accounts |-> 0]]
        /\ control = None /\ lposts = {} /\ review = None /\ count = [nonces |-> 0, tries |-> 0, edits |-> 0]
        /\ forms = [q \in Requests |-> None] /\ launches = [q \in Requests |-> 0]

\* ---- selectel_control.py: what a state file says. ------------------------
\* A reservation counts as running at first; later only its process, found by its pid.
running(s) ==
  /\ s.status = "running" /\ s.age # "old"
  /\ s.age = "fresh" \/ (s.pid /\ runner[s.run].phase # "dead")
interrupted(s) == [s EXCEPT !.status = "attention", !.error = "interrupted", !.due = "none"]
LeftOpen(s) == s
Closed(s) == IF s.status = "running" /\ ~running(s) THEN interrupted(s) ELSE s
AnyRunning == \E a \in Accounts : running(acct[a])
_account_error(s) == s.pending # None \/ s.deleted
StoreFree == control = None
next_run(s) == IF s.scheduled THEN "later" ELSE "none"

\* launch(): the reservation is durable before the process is made.  The launcher may die
\* before it has written the pid, and then the process runs unknown.
Reserved(s, r) == [s EXCEPT !.status = "running", !.error = "none", !.run = r, !.age = "fresh", !.pid = FALSE,
                            !.intent = FALSE, !.due = next_run(s)]
launch(a, all) ==
  LET r == runs + 1
      s == Reserved(all[a], r) IN
  /\ runs < Bound.runs /\ runs' = r
  /\ \E how \in Bound.starts :
       /\ acct' = [all EXCEPT ![a] = CASE how = "started" -> [s EXCEPT !.pid = TRUE]
                                       [] how = "unknown" -> s
                                       [] OTHER -> [s EXCEPT !.status = "attention", !.error = "failed"]]
       /\ runner' = [runner EXCEPT ![r] = [a |-> a, phase |-> IF how = "failed" THEN "dead" ELSE "spawned",
                                           result |-> "none"]]

_set_enabled(a, on) ==
  LET s == acct[a] IN
  /\ StoreFree /\ ~_account_error(s) /\ s # Blank
  /\ on => s.password
  /\ acct' = [acct EXCEPT ![a] = [s EXCEPT !.enabled = on, !.due = IF on THEN next_run(s) ELSE "none"]]
  /\ UNCHANGED <<scene, runs, runner, post, guard, control, lposts, review, forms, count, launches>>

_set_schedule(a, on) ==
  LET s == acct[a] IN
  /\ StoreFree /\ ~_account_error(s) /\ s # Blank /\ "schedule" \in Bound.commands
  /\ acct' = [acct EXCEPT ![a] = [s EXCEPT !.scheduled = on, !.due = IF on /\ s.enabled THEN "later" ELSE "none"]]
  /\ UNCHANGED <<scene, runs, runner, post, guard, control, lposts, review, forms, count, launches>>

_save_account(s) ==
  IF s.error \in Uncertain THEN [s EXCEPT !.password = TRUE]
  ELSE [s EXCEPT !.password = TRUE, !.status = "configured", !.error = "none"]
Save(a) ==
  /\ "save" \in Bound.commands /\ StoreFree /\ ~_account_error(acct[a]) /\ ~running(acct[a])
  /\ acct' = [acct EXCEPT ![a] = _save_account(Closed(acct[a]))]
  /\ UNCHANGED <<scene, runs, runner, post, guard, control, lposts, review, forms, count, launches>>

_collect_account(a) ==
  LET s == Closed(acct[a]) IN
  /\ StoreFree /\ ~_account_error(acct[a]) /\ ~running(acct[a])
  /\ IF /\ s.password /\ s.enabled /\ s.status # "running" /\ s.error \notin Uncertain
        /\ ~\E b \in Accounts : running(acct[b])
     THEN launch(a, [acct EXCEPT ![a] = s])
     ELSE /\ s # acct[a] /\ acct' = [acct EXCEPT ![a] = s]   \* only the stale reservation is closed
          /\ UNCHANGED <<runs, runner>>
  /\ UNCHANGED <<scene, post, guard, control, lposts, review, forms, count, launches>>

\* ---- selectel_connect.py -------------------------------------------------
\* A form is opened at the account's generation; sent again, late or twice, it keeps it.
OpenForm(q) == /\ "connect" \in Bound.commands /\ forms[q] = None
               /\ \E a \in Bound.accounts : ~acct[a].deleted /\ forms' = [forms EXCEPT ![q] = [a |-> a, generation |-> acct[a].generation]]
               /\ UNCHANGED <<scene, acct, runs, runner, post, guard, control, lposts, review, count, launches>>
SameGeneration(f) == f.generation = acct[f.a].generation
connect(q) ==
  LET f == forms[q]
      s == acct[f.a] IN
  /\ StoreFree /\ f # None /\ ~_account_error(s)
  /\ SameGeneration(f)
  /\ s.error \notin Uncertain /\ ~(s.status = "running" /\ ~running(s))
  /\ s.request # q /\ ~s.password /\ ~AnyRunning
  /\ launch(f.a, [acct EXCEPT ![f.a] = [_save_account(s) EXCEPT !.request = q, !.enabled = TRUE,
                                                                 !.scheduled = FALSE, !.due = "none"]])
  /\ launches' = [launches EXCEPT ![q] = @ + 1]
  /\ UNCHANGED <<scene, post, guard, control, lposts, review, forms, count>>

\* ---- selectel_scheduler.py -----------------------------------------------
Due(s) == ~s.deleted /\ s.pending = None /\ s.enabled /\ s.scheduled /\ s.due = "now" /\ s.error \notin Uncertain
\* tick(): nothing while a run is active; stale reservations are closed before one is launched.
tick ==
  LET all == [a \in Accounts |-> Closed(acct[a])]
      due == {a \in Accounts : Due(all[a])} IN
  /\ StoreFree /\ ~AnyRunning
  /\ IF due # {} /\ runs < Bound.runs THEN \E a \in due : launch(a, all)
     ELSE acct' = all /\ acct' # acct /\ UNCHANGED <<runs, runner>>
  /\ UNCHANGED <<scene, post, guard, control, lposts, review, forms, count, launches>>
Clock(a) == /\ acct[a].due = "later" /\ acct' = [acct EXCEPT ![a].due = "now"]
            /\ UNCHANGED <<scene, runs, runner, post, guard, control, lposts, review, forms, count, launches>>
\* Five seconds, then an hour, which a suspended host may take.
Age(a) == /\ acct[a].status = "running" /\ acct[a].age = "fresh"
          /\ acct' = [acct EXCEPT ![a].age = "late"]
          /\ UNCHANGED <<scene, runs, runner, post, guard, control, lposts, review, forms, count, launches>>
Hour(a) == /\ acct[a].status = "running" /\ acct[a].age = "late" /\ "hour" \in Bound.commands
           /\ acct' = [acct EXCEPT ![a].age = "old"]
          /\ UNCHANGED <<scene, runs, runner, post, guard, control, lposts, review, forms, count, launches>>

\* ---- selectel_runner.py --------------------------------------------------
CollectionFree == \A r \in Runs : runner[r].phase \notin {"begun", "collected", "checked", "import", "sent"}
At(r, phase) == runner[r].phase = phase
Goto(r, phase, result) == runner' = [runner EXCEPT ![r].phase = phase, ![r].result = result]
Mine(r) == acct[runner[r].a].run = r
RunnerOnly == UNCHANGED <<scene, runs, guard, control, lposts, review, forms, count, launches>>

\* Under collection.lock: the account must still name this run.
Begin(r) ==
  /\ At(r, "spawned")
  /\ IF ~CollectionFree \/ ~StoreFree THEN Goto(r, "finishing", "failed")
     ELSE IF Mine(r) THEN Goto(r, "begun", "none") ELSE Goto(r, "dead", "none")
  /\ RunnerOnly /\ UNCHANGED <<acct, post>>
\* Preflight and collection by children; either may fail.
Collect(r) == /\ At(r, "begun")
              /\ Goto(r, "collected", "none") \/ Goto(r, "finishing", "failed")
              /\ RunnerOnly /\ UNCHANGED <<acct, post>>
\* Under apply.lock, which another component may hold: disabled meanwhile, nothing is imported.
Check(r) ==
  LET a == runner[r].a IN
  /\ At(r, "collected")
  /\ \/ Goto(r, "finishing", "failed") /\ UNCHANGED acct
     \/ ~Mine(r) /\ Goto(r, "dead", "none") /\ UNCHANGED acct
     \/ /\ Mine(r) /\ ~acct[a].enabled /\ Goto(r, "dead", "none")
        /\ acct' = [acct EXCEPT ![a].status = "attention", ![a].error = "failed"]
     \/ Mine(r) /\ acct[a].enabled /\ Goto(r, "checked", "none") /\ UNCHANGED acct
  /\ RunnerOnly /\ UNCHANGED post
\* The second check writes what is about to be sent, unless a file cannot be read or the store
\* stays locked.  Disabled here, the run just ends.
Intend(r) ==
  LET a == runner[r].a IN
  /\ At(r, "checked")
  /\ \/ Goto(r, "finishing", "failed") /\ UNCHANGED acct
     \/ ~(Mine(r) /\ acct[a].enabled) /\ Goto(r, "dead", "none") /\ UNCHANGED acct
     \/ /\ Mine(r) /\ acct[a].enabled /\ Goto(r, "import", "none")
        /\ acct' = [acct EXCEPT ![a].intent = TRUE]
  /\ RunnerOnly /\ UNCHANGED post
Send(r) == /\ At(r, "import") /\ Goto(r, "sent", "none") /\ post' = [post EXCEPT ![r] = "flying"]
           /\ RunnerOnly /\ UNCHANGED acct
\* main(): what the import child prints.  Without an answer nothing proves that no write ran.
main(r) == CASE post[r] = "committed" -> {"answer", "unconfirmed"} [] post[r] = "refused" -> {"refused", "unconfirmed"}
             [] OTHER -> {"unconfirmed"}
AnyFailure(output) == IF output = "answer" THEN {output, "refused"} ELSE {"refused"}
\* Too much output, an exit code or no JSON; child() also stops it at its timeout.
child_result(output) == {output, "unconfirmed"}
child(r) == {"unconfirmed"} \cup UNION {child_result(output) : output \in main(r)}
confirmed_import(output) == CASE output = "answer" -> "completed" [] output = "refused" -> "failed" [] OTHER -> "unconfirmed"
Answer(r) == /\ At(r, "sent") /\ \E output \in child(r) : Goto(r, "finishing", confirmed_import(output))
             /\ RunnerOnly /\ UNCHANGED <<acct, post>>
\* _finish_run(), after the locks are released; it gives up when the store stays locked.
Finished(s, result) ==
  CASE result = "completed" -> [s EXCEPT !.status = "completed", !.error = "none"]
    [] result = "unconfirmed" -> [s EXCEPT !.status = "attention", !.error = "unconfirmed", !.due = "none"]
    [] OTHER -> [s EXCEPT !.status = "attention", !.error = "failed"]
_finish_run(r) ==
  /\ At(r, "finishing") /\ Goto(r, "dead", "none")
  /\ acct' = IF StoreFree /\ Mine(r) THEN [acct EXCEPT ![runner[r].a] = Finished(@, runner[r].result)] ELSE acct
  /\ RunnerOnly /\ UNCHANGED post
\* The process dies; the child of a run that was about to send may still send.
Crash(r) == /\ runner[r].phase # "dead" /\ Goto(r, "dead", "none")
            /\ post' \in IF At(r, "import") THEN {post, [post EXCEPT ![r] = "flying"]} ELSE {post}
            /\ RunnerOnly /\ UNCHANGED acct
Runner(r) == Begin(r) \/ Collect(r) \/ Check(r) \/ Intend(r) \/ Send(r) \/ Answer(r) \/ _finish_run(r)

\* ---- The Guard plugin, one transaction a POST. ---------------------------
Unretired(r) == FALSE
retired(r) == guard.retired[r] # None
\* import_account(): a retired run and a deleted account are refused.
Importable(r) == ~retired(r) /\ ~guard.fence[runner[r].a]
Imported(r) == [guard EXCEPT !.committed = @ \cup {r}, !.revision[runner[r].a] = @ + 1]
\* The POST: committed whole, or rolled back and refused, as other reviews may do too.
ServeImport(r) ==
  /\ post[r] = "flying"
  /\ \/ post' = [post EXCEPT ![r] = "refused"] /\ UNCHANGED guard
     \/ Importable(r) /\ post' = [post EXCEPT ![r] = "committed"] /\ guard' = Imported(r)
  /\ UNCHANGED <<scene, acct, runs, runner, control, lposts, review, forms, count, launches>>

\* A plan's fingerprint covers the account's rows, and all but a baseline's the last decision;
\* that of activate covers the decision alone, and that the account is deleted.
Fingerprint(a, operation) == <<IF operation = "activate" THEN 0 ELSE guard.revision[a],
                               IF operation = "baseline" THEN 0 ELSE guard.epoch[a]>>
\* prepare() of a baseline: no receipt of that run, and the account is not deleted.
Preparable(a, key) == key \notin guard.committed /\ ~guard.fence[a]
_prepare(p) ==
  CASE p.operation = "baseline" -> Preparable(p.a, p.key)
    [] p.operation = "delete" -> p.key # 0 => Preparable(p.a, p.key)
    [] p.operation = "activate" -> guard.fence[p.a]
    [] OTHER -> TRUE
\* What execute() may commit: a receipt is answered again, a plan must still be the reviewed one.
Replay(l) == IF l.operation = "baseline" THEN guard.retired[l.key] = l.fingerprint ELSE l.nonce \in guard.receipts
Executable(l) ==
  /\ ~Replay(l) /\ _prepare(l) /\ l.fingerprint = Fingerprint(l.a, l.operation)
  /\ l.key # 0 => guard.retired[l.key] \in {None} \cup (IF l.operation = "delete" THEN {Fingerprint(l.a, "baseline")} ELSE {})
accept(l) == IF l.key = 0 THEN guard.retired ELSE [guard.retired EXCEPT ![l.key] = Fingerprint(l.a, "baseline")]
Executed(l) ==
  [guard EXCEPT !.retired = accept(l), !.epoch[l.a] = @ + 1,
                !.receipts = IF l.operation = "baseline" THEN @ ELSE @ \cup {l.nonce},
                !.revision[l.a] = IF l.operation = "baseline" THEN @ ELSE @ + 1,
                !.fence[l.a] = CASE l.operation = "delete" -> TRUE [] l.operation = "activate" -> FALSE [] OTHER -> @]
Answered(l, answer) ==
  control' = IF control # None /\ control.try = l.try THEN [control EXCEPT !.answer = answer] ELSE control
execute(l) ==
  /\ l \in lposts /\ lposts' = lposts \ {l}
  /\ \/ Answered(l, "rolled_back") /\ UNCHANGED guard      \* refused, or the table locks timed out
     \/ Replay(l) /\ Answered(l, "done") /\ UNCHANGED guard
     \/ Executable(l) /\ guard' = Executed(l) /\ Answered(l, "done")
  /\ UNCHANGED <<scene, acct, runs, runner, post, review, forms, count, launches>>
\* Somebody edits a card in NetBox.
Edit(a) == /\ count.edits < Bound.edits /\ count' = [count EXCEPT !.edits = @ + 1]
           /\ guard' = [guard EXCEPT !.revision[a] = @ + 1]
           /\ UNCHANGED <<scene, acct, runs, runner, post, control, lposts, review, forms, launches>>

\* ---- selectel_recovery.py ------------------------------------------------
\* account_receipt.lookup(), busy while the import holds the account's lock, or no answer.
lookup(r) == {IF r \in guard.committed THEN "committed" ELSE "not_found", "unavailable"}
               \cup (IF post[r] = "flying" THEN {"busy"} ELSE {})
\* Only the receipt of this very run settles it.
reconciled_state(s, outcome) ==
  IF outcome = "committed" /\ s.intent THEN [s EXCEPT !.status = "completed", !.error = "none", !.due = "none"] ELSE s
reconcile_account(a) ==
  LET s == Closed(acct[a]) IN
  /\ StoreFree /\ CollectionFree /\ ~running(acct[a]) /\ ~_account_error(acct[a])
  /\ s.error \in Uncertain
  /\ \E outcome \in lookup(s.run) : acct' = [acct EXCEPT ![a] = reconciled_state(s, outcome)] /\ acct' # acct
  /\ UNCHANGED <<scene, runs, runner, post, guard, control, lposts, review, forms, count, launches>>

\* ---- selectel_lifecycle_control.py ---------------------------------------
Retiring(operation, key) == operation = "baseline" \/ (operation = "delete" /\ key # 0)
_handle_account(s, operation, key) ==
  /\ s # Blank /\ (operation = "activate" => s.deleted)
  /\ IF Retiring(operation, key) THEN s.error \in Uncertain /\ key = s.run ELSE s.error \notin Uncertain
  /\ s.status # "running" /\ ~s.enabled
KeysOf(s, operation) == CASE operation = "baseline" -> {s.run} [] operation = "delete" -> {0, s.run} [] OTHER -> {0}
_review_lifecycle(a, operation) ==
  \E key \in KeysOf(acct[a], operation) :
    LET plan == [a |-> a, operation |-> operation, key |-> key, fingerprint |-> Fingerprint(a, operation)] IN
    /\ StoreFree /\ CollectionFree /\ _handle_account(acct[a], operation, key) /\ acct[a].pending = None
    /\ _prepare(plan) /\ review # plan /\ review' = plan
    /\ UNCHANGED <<scene, acct, runs, runner, post, guard, control, lposts, forms, count, launches>>

\* The nonce is durable before the POST; while it is, only the same decision is sent again.
_execute_lifecycle(a) ==
  LET s == acct[a]
      fresh == [a |-> a, operation |-> review.operation, key |-> review.key, fingerprint |-> review.fingerprint,
                nonce |-> count.nonces + 1]
      p == IF s.pending # None THEN s.pending ELSE fresh IN
  /\ StoreFree /\ CollectionFree /\ count.tries < Bound.tries
  /\ s.pending = None => review # None /\ review.a = a /\ count.nonces < Bound.nonces
  /\ _handle_account(s, p.operation, p.key)
  /\ acct' = [acct EXCEPT ![a] = [s EXCEPT !.pending = p, !.enabled = FALSE, !.due = "none"]]
  /\ count' = [count EXCEPT !.tries = @ + 1, !.nonces = IF s.pending = None THEN @ + 1 ELSE @]
  /\ lposts' = lposts \cup {[a |-> a, operation |-> p.operation, key |-> p.key, fingerprint |-> p.fingerprint,
                             nonce |-> p.nonce, try |-> count.tries + 1]}
  /\ control' = [a |-> a, try |-> count.tries + 1, answer |-> None]
  /\ review' = IF s.pending = None THEN None ELSE review
  /\ UNCHANGED <<scene, runs, runner, post, guard, forms, launches>>

Deleted == [Blank EXCEPT !.status = "deleted", !.deleted = TRUE, !.enabled = FALSE]
Settled(s, p) ==
  CASE p.operation = "baseline" -> [s EXCEPT !.status = "baseline", !.error = "none", !.enabled = FALSE,
                                             !.scheduled = FALSE, !.due = "none", !.pending = None]
    [] p.operation = "delete" -> Deleted
    [] p.operation = "activate" -> [s EXCEPT !.deleted = FALSE, !.status = "configured", !.error = "none",
                                             !.generation = p.nonce, !.pending = None]
    [] OTHER -> [s EXCEPT !.pending = None]
\* The answer, its loss or the worker's death; without an answer the nonce is kept.
_finish_lifecycle ==
  LET a == control.a
      s == acct[a] IN
  /\ control # None /\ control' = None
  /\ \/ control.answer = "done" /\ acct' = [acct EXCEPT ![a] = Settled(s, s.pending)]
     \/ control.answer = "rolled_back" /\ acct' = [acct EXCEPT ![a].pending = None]
     \/ UNCHANGED acct
  /\ UNCHANGED <<scene, runs, runner, post, guard, lposts, review, forms, count, launches>>

Administrator ==
  \/ \E a \in Bound.accounts : Save(a) \/ _collect_account(a) \/ reconcile_account(a) \/ _execute_lifecycle(a)
  \/ \E a \in Bound.accounts, on \in BOOLEAN : _set_enabled(a, on) \/ _set_schedule(a, on)
  \/ \E a \in Bound.accounts : \E operation \in Bound.operations : _review_lifecycle(a, operation)
  \/ \E q \in Requests : OpenForm(q) \/ connect(q)
Next == \/ Administrator \/ tick \/ _finish_lifecycle
        \/ \E a \in Bound.accounts : Clock(a) \/ Age(a) \/ Hour(a) \/ Edit(a)
        \/ \E r \in Runs : Runner(r) \/ Crash(r) \/ ServeImport(r)
        \/ \E l \in lposts : execute(l)
\* The scheduler ticks, clocks go on, and a process that can take its next step takes it.
Fairness == /\ WF_vars(tick) /\ WF_vars(_finish_lifecycle)
            /\ \A a \in Accounts : WF_vars(Age(a))
            /\ \A r \in Runs : WF_vars(Runner(r))
Spec == Init /\ [][Next]_vars /\ Fairness

\* ---- Properties ----------------------------------------------------------
\* A connection form authorises one collection, however often and late it is sent, also
\* across a deletion and a new activation (selectel_connect.connect).
ConnectOnce == \A q \in Requests : launches[q] <= 1

\* What the file says of a run is true: a completed run was committed by Guard, an accepted
\* baseline can no longer be, and an error that lets the next run start means the import of
\* this one was not and will not be (_finish_run, reconciled_state, selectel_baseline.finish).
\* Nor does a run stand for a form that another run already stood for.
HonestAccount ==
  /\ ConnectOnce
  /\ \A a \in Accounts : LET s == acct[a] IN
    /\ s.status = "completed" => s.run \in guard.committed
    /\ s.status = "baseline" => retired(s.run)
    /\ s.error = "failed" => s.run \notin guard.committed /\ post[s.run] # "flying"

\* NetBox only ever takes the import of the run the account names, of an account that is not
\* deleted; the POST of a run given up, retired or of an earlier connection is refused.
ImportIsCurrent ==
  [][\A r \in guard'.committed \ guard.committed :
       LET s == acct[runner[r].a] IN s.run = r /\ ~s.deleted /\ ~retired(r)]_vars

\* An account does not stay running: its runner ends, or the scheduler closes what was left.
RunningEnds == \A a \in Accounts : acct[a].status = "running" ~> acct[a].status # "running"

\* ---- An inductive invariant ------------------------------------------------
Phases == {"dead", "spawned", "begun", "collected", "checked", "import", "sent", "finishing"}
State == [password : BOOLEAN, status : {"none", "running", "attention", "configured", "completed", "baseline", "deleted"},
          error : {"none", "failed"} \cup Uncertain, run : 0..MaxRuns, pid : BOOLEAN, age : {"none", "fresh", "late", "old"},
          enabled : BOOLEAN, scheduled : BOOLEAN, due : {"none", "later", "now"}, intent : BOOLEAN,
          pending : {None} \cup Decision, deleted : BOOLEAN, generation : Nat, request : {None} \cup Requests]
Process == [a : {None} \cup Accounts, phase : Phases, result : {"none", "failed", "completed", "unconfirmed"}]
Posted == [a : Accounts, operation : Operations, key : 0..MaxRuns, fingerprint : Prints, nonce : Nat, try : Nat]
GuardTables == [committed : SUBSET Runs, retired : [Runs -> {None} \cup Prints], fence : [Accounts -> BOOLEAN],
                receipts : SUBSET Nat, revision : [Accounts -> Nat], epoch : [Accounts -> Nat]]
TypeOK == /\ scene \in DOMAIN Scenes /\ acct \in [Accounts -> State] /\ runs \in 0..MaxRuns
          /\ runner \in [Runs -> Process] /\ post \in [Runs -> {"none", "flying", "committed", "refused"}]
          /\ guard \in GuardTables /\ control \in {None} \cup Call /\ lposts \subseteq Posted
          /\ review \in {None} \cup Planned /\ forms \in [Requests -> {None} \cup Form]
          /\ count \in [nonces : Nat, tries : Nat, edits : Nat] /\ launches \in [Requests -> Nat]

\* A run's process and its POST: what was sent has one answer, and "failed" is said of a run
\* whose import was refused or never sent.
Silent == {"spawned", "begun", "collected", "checked", "import"}
RunIs(r) ==
  /\ IF r <= runs THEN runner[r].a \in Accounts ELSE runner[r].phase = "dead" /\ post[r] = "none"
  /\ runner[r].phase \in Silent => post[r] = "none"
  /\ r \in guard.committed <=> post[r] = "committed"
  /\ runner[r].result = "completed" => r \in guard.committed
  /\ runner[r].phase = "finishing" /\ runner[r].result \notin {"completed", "unconfirmed"} =>
       post[r] \notin {"flying", "committed"}
\* An import that may still be sent or served is of a retired run, or of the run its account
\* names and has not settled.
MaySend(r) == runner[r].phase \in Silent \/ post[r] = "flying"
Unsettled(s) == s.status = "running" \/ s.error \in Uncertain
Answerable(r) ==
  MaySend(r) => \/ retired(r)
                \/ LET s == acct[runner[r].a] IN s.run = r /\ ~s.deleted /\ Unsettled(s)
\* What a state file says.
AccountIs(a) ==
  LET s == acct[a] IN
  /\ s.run # 0 => s.run <= runs /\ runner[s.run].a = a
  /\ s.error # "none" \/ s.status \in {"running", "baseline"} => s.run # 0
  /\ s.error = "failed" => runner[s.run].phase = "dead" /\ post[s.run] \notin {"flying", "committed"}
  /\ s.status = "completed" => s.run \in guard.committed
  /\ s.status = "baseline" => retired(s.run)
  /\ s.generation <= count.nonces /\ (s.deleted => s.generation = 0)
  /\ s.pending # None /\ s.pending.operation = "activate" => s.deleted
\* Decisions are told apart by their nonce; Guard's receipt of one means its run is retired.
Decisions == lposts \cup ({acct[a].pending : a \in Accounts} \ {None})
DecisionIs(d) == /\ d.nonce <= count.nonces /\ (d.operation = "baseline" => d.key # 0)
                 /\ d.nonce \in guard.receipts /\ Retiring(d.operation, d.key) => retired(d.key)
                 /\ \A e \in Decisions : e.nonce = d.nonce => e.operation = d.operation /\ e.key = d.key
\* The call that holds the store lock: nobody collects, its account still bears its decision, and
\* what Guard answered as done is done.
ControlIs ==
  control # None =>
    LET s == acct[control.a]
        p == s.pending IN
    /\ CollectionFree /\ p # None /\ s.status # "running" /\ control.try <= count.tries
    /\ IF Retiring(p.operation, p.key) THEN s.error \in Uncertain /\ p.key = s.run ELSE s.error \notin Uncertain
    /\ control.answer = "done" /\ Retiring(p.operation, p.key) => retired(p.key)
    /\ \A l \in lposts : l.try = control.try => l.nonce = p.nonce
\* A form that launched its run cannot launch another: the account has a password, or it is
\* deleted, or its connection is a later one than the form's.
FormIs(q) ==
  LET f == forms[q]
      s == acct[f.a] IN
  /\ f # None => f.generation <= count.nonces
  /\ launches[q] # 0 =>
       /\ launches[q] = 1 /\ f # None
       /\ \/ s.password \/ s.generation > f.generation
          \/ s.deleted /\ (s.pending # None /\ s.pending.operation = "activate" => s.pending.nonce > f.generation)
IInv == /\ TypeOK /\ ControlIs
        /\ \A r \in Runs : RunIs(r) /\ Answerable(r)
        /\ \A a \in Accounts : AccountIs(a)
        /\ \A l \in lposts : l.try <= count.tries
        /\ \A d \in Decisions : DecisionIs(d)
        /\ \A n \in guard.receipts : n <= count.nonces
        /\ \A q \in Requests : FormIs(q)
=============================================================================
