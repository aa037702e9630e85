----------------------------- MODULE Deployment -----------------------------
(* The operator's tools on one host: the installer (deploy/install.py), the  *)
(* backup and the fresh restore (deploy/backup.py), the database tool they   *)
(* call (netbox_sync/deployment.py) and the updater of the test stand        *)
(* (deploy/update_test.py, guard_update_test.py).  They run beside the       *)
(* services, which write the database and the secrets, and beside scheduled  *)
(* runs.  A step may raise, or its process may be killed, MaxFaults times.   *)
EXTENDS Naturals, FiniteSets

CONSTANTS
    None, Old, New,     \* release ids: the one in use and the one to install
    HeadRev,               \* last revision of migrations/versions at New; Old has HeadRev - 1
    ToolHead,           \* ALEMBIC_HEAD of the backup tool
    FoundationTables,   \* FOUNDATION_TABLES of the backup tool, in its order
    Listing,            \* the tables of the migrated schema, in the order of their names
    References,         \* foreign keys <<table, referenced table>>
    Functions,          \* functions the migrations create
    DroppedFunctions,   \* functions the restore's cleanup drops
    Sources,            \* sources the API may register
    BundleRevisions,    \* revisions of the bundle brought to a fresh target
    Scenarios,          \* of "live", "first", "target", "test", and "none": nobody is at work
    MaxRuns, MaxFaults

Tools == {"install", "backup", "restore", "update"}
Services == {"api", "worker", "sched"}
Files == {"compose", "roles"}       \* compose.env and the role-separated env files
Releases == {Old, New}
Groups == {"broker", "auth", "bootstrap", "tls"}    \* env files added by later releases
Need(r) == IF r = New THEN HeadRev ELSE HeadRev - 1

VARIABLES
    scene,      \* what the host is used for
    releases,   \* releases/<id>: absent, partial (its digest differs) or whole
    current,    \* the release the link points to
    config,     \* release that wrote each env file, and the password in the DSNs
    files,      \* role passwords, source secrets, and the groups of env files present
    db,         \* PostgreSQL
    svc,        \* release each service runs, None when stopped
    timer,      \* netbox-sync.timer is active
    lock,       \* owner of apply.lock
    bundles,    \* published backup directories
    netbox,     \* the guarded NetBox of the test stand: running, its image, its schema
    pc,         \* step of each tool and of the scheduled run
    mem,        \* what a tool remembers
    faults      \* exceptions and kills so far

disk == <<releases, current, config, files>>
vars == <<scene, disk, db, svc, timer, lock, bundles, netbox, pc, mem, faults>>

NoMem == [was |-> FALSE, up |-> {}, window |-> FALSE, prev |-> None, snap |-> None,
          switched |-> FALSE, start |-> TRUE, stage |-> None, again |-> FALSE, late |-> FALSE]

----------------------------------------------------------------------------
(* The database and the files *)

NoDb == [rev |-> 0, granted |-> 0, sources |-> {}, runs |-> 0, plan |-> "none",
         session |-> "none", boot |-> "t", role |-> None, dirty |-> FALSE]
\* DatabaseTool.metadata, source_secret_references: what the manifest records.
metadata(d) == [rev |-> d.rev, sources |-> Cardinality(d.sources), runs |-> d.runs]

\* bootstrap_roles: the role passwords become those of the password files.
bootstrap_roles(d, pw) == [d EXCEPT !.role = pw]
\* migrate: Alembic to the head the release packages, in one transaction.
migrate(d, r) == [d EXCEPT !.rev = Need(r)]
\* apply_grants: the whole matrix for the tables of this revision.
apply_grants(d) == [d EXCEPT !.granted = d.rev]
\* restore_role_passwords: the runtime roles, then the bootstrap role.
restore_role_passwords(d, pw) == [d EXCEPT !.role = pw, !.boot = pw]

\* validate_foundation_target: the aggregated names against the joined tuple.
Foundation == Listing = FoundationTables
EmptyTargetByCounts == db.sources = {} /\ db.runs = 0
\* validate_empty_target: rows of sources, runs and operations, and the administrator.
EmptyTarget == db.sources = {} /\ db.runs = 0 /\ db.plan = "none" /\ db.session = "none"
\* The DROP statements, in reverse order of the tuple and without CASCADE.
Droppable == /\ \A e \in References, i, j \in DOMAIN FoundationTables :
                    <<FoundationTables[i], FoundationTables[j]>> = e => i > j
             /\ Functions \subseteq DroppedFunctions
\* _compatible: the manifest's revision is in the tool's chain.
Compatible(b) == b.meta.rev \in 1..ToolHead

\* reconcile_operations: restored plans are STALE, what ran is FAILED.
reconcile_operations(d) == [d EXCEPT !.plan = IF d.plan = "restored" THEN "STALE" ELSE d.plan]
\* revoke_restored_auth: restored sessions, invitations and receipts are cleared.
revoke_restored_auth(d) == [d EXCEPT !.session = IF d.session = "restored" THEN "none" ELSE d.session]

\* pg_dump of a database, and what pg_restore makes of it.
Restored(d) == [d EXCEPT !.plan = IF d.plan = "READY" THEN "restored" ELSE d.plan,
                         !.session = IF d.session = "own" THEN "restored" ELSE d.session,
                         !.granted = 0, !.boot = db.boot, !.role = db.role, !.dirty = TRUE]

\* verify_bundle: the references resolve in the archive, every payload matches.
verify_bundle(b) == b.refs \subseteq b.files.src

Archived(r) ==
    LET d == [NoDb EXCEPT !.rev = r, !.granted = r, !.sources = {CHOOSE s \in Sources : TRUE},
                          !.runs = 1, !.plan = "READY", !.session = "own",
                          !.boot = "b", !.role = "b"]
    IN [meta |-> metadata(d), dump |-> d, refs |-> d.sources, dsn |-> "b",
        files |-> [pw |-> "b", src |-> d.sources,
                   env |-> IF r < HeadRev THEN {"broker"} ELSE Groups]]

----------------------------------------------------------------------------
(* Where the host starts *)

LiveDb == [NoDb EXCEPT !.rev = HeadRev - 1, !.granted = HeadRev - 1,
                       !.sources = {CHOOSE s \in Sources : TRUE}, !.role = "t"]
Init ==
    /\ scene \in Scenarios
    /\ releases = [r \in Releases |->
                     CASE r = Old -> IF scene = "first" THEN "absent" ELSE "whole"
                       [] r = New -> IF scene = "target" THEN "whole" ELSE "absent"]
    /\ current = CASE scene = "first" -> None [] scene = "target" -> New [] OTHER -> Old
    /\ config = [by |-> [f \in Files |-> current],
                 dsn |-> IF scene = "first" THEN None ELSE "t"]
    /\ files = [pw |-> IF scene = "first" THEN None ELSE "t",
                src |-> IF scene \in {"live", "test"} THEN LiveDb.sources ELSE {},
                env |-> IF scene = "first" THEN {} ELSE Groups]
    /\ db = CASE scene = "first" -> NoDb
              [] scene = "target" -> [NoDb EXCEPT !.rev = HeadRev, !.granted = HeadRev, !.role = "t"]
              [] OTHER -> LiveDb
    /\ svc = [s \in Services |-> IF s = "sched" /\ scene = "test" THEN None ELSE current]
    /\ timer = (scene = "live")
    /\ pc = [[t \in Tools \cup {"run"} |-> "idle"] EXCEPT !["run"] =
                IF scene = "test" THEN "timer" ELSE "idle"]
    /\ lock = IF pc["run"] = "idle" THEN None ELSE "run"
    /\ bundles \in IF scene = "target" THEN {{Archived(r)} : r \in BundleRevisions} ELSE {{}}
    /\ netbox = [up |-> TRUE, image |-> Old, rev |-> Old]
    /\ mem = [t \in Tools |-> NoMem]
    /\ faults = [raised |-> 0, killed |-> 0]

Offered(t) == t \in CASE scene = "live" -> {"install", "backup"}
                      [] scene = "first" -> {"install"}
                      [] scene = "target" -> {"restore"}
                      [] scene = "test" -> {"update"}
                      [] scene = "none" -> {}
Ended == {"done", "failed", "killed"}
Busy(t) == pc[t] \notin Ended \cup {"idle"}
At(t, l) == pc[t] = l
Goto(t, l) == pc' = [pc EXCEPT ![t] = l]
Step(t, from, to) == At(t, from) /\ Goto(t, to)
Keep(t, m) == mem' = [mem EXCEPT ![t] = m]
Host == <<scene, bundles, netbox, faults>>

----------------------------------------------------------------------------
(* The services and the scheduled run *)

Usable == db.rev > 0 /\ db.role = config.dsn
\* The secret broker stores a credential; the registry row that refers to it follows.
AddSecret(s) ==
    /\ svc["api"] # None /\ scene \in {"live", "target"}
    /\ s \notin files.src
    /\ files' = [files EXCEPT !.src = @ \cup {s}]
    /\ UNCHANGED <<Host, releases, current, config, db, svc, timer, lock, pc, mem>>
AddSource(s) ==
    /\ svc["api"] # None /\ Usable
    /\ s \in files.src \ db.sources
    /\ db' = [db EXCEPT !.sources = @ \cup {s}]
    /\ UNCHANGED <<Host, disk, svc, timer, lock, pc, mem>>
\* Build Plan leaves a READY operation, enrolment and login a session.
Work ==
    /\ svc["api"] # None /\ Usable /\ scene = "target"
    /\ \/ db.plan = "none" /\ db' = [db EXCEPT !.plan = "READY"]
       \/ db.session = "none" /\ db' = [db EXCEPT !.session = "own"]
    /\ UNCHANGED <<Host, disk, svc, timer, lock, pc, mem>>
\* The timer's unit, or the apply worker: a run holds apply.lock while it writes.
StartRun ==
    /\ lock = None /\ Usable /\ db.sources # {} /\ db.runs < MaxRuns
    /\ \/ timer /\ Step("run", "idle", "timer")
       \/ svc["worker"] # None /\ Step("run", "idle", "worker")
    /\ lock' = "run"
    /\ db' = [db EXCEPT !.runs = @ + 1]
    /\ UNCHANGED <<Host, disk, svc, timer, mem>>
EndRun ==
    /\ pc["run"] # "idle" /\ Goto("run", "idle")
    /\ lock' = None
    /\ UNCHANGED <<Host, disk, db, svc, timer, mem>>

----------------------------------------------------------------------------
(* apply.lock and the services, as every tool handles them *)

\* stop_timer: remembers whether the timer was active.
stop_timer(t, from, to) ==
    /\ Step(t, from, to)
    /\ timer' = FALSE
    /\ Keep(t, [mem[t] EXCEPT !.was = timer])
    /\ UNCHANGED <<Host, disk, db, svc, lock>>
\* shared_apply_lock: acquired, or given up after a bounded wait.
shared_apply_lock(t, from, to) ==
    /\ Step(t, from, to)
    /\ lock = None
    /\ lock' = t
    /\ UNCHANGED <<Host, disk, db, svc, timer, mem>>
\* Closing the descriptor, or the end of the process, frees the lock.
Release(t) == lock' = IF lock = t THEN None ELSE lock

----------------------------------------------------------------------------
(* The installer: install.main *)

Start(t, l) == At(t, "idle") /\ Offered(t) /\ Goto(t, l)

\* install_release: copied once; an id that exists must have the same content.
InstallRelease ==
    /\ At("install", "copy")
    /\ \/ releases[New] = "absent" /\ Goto("install", "copying")
          /\ releases' = [releases EXCEPT ![New] = "partial"]
       \/ releases[New] = "whole" /\ Goto("install", "stage") /\ UNCHANGED releases
       \/ releases[New] = "partial" /\ Goto("install", "failed") /\ UNCHANGED releases
    /\ UNCHANGED <<Host, current, config, files, db, svc, timer, lock, mem>>
Copied ==
    /\ Step("install", "copying", "stage")
    /\ releases' = [releases EXCEPT ![New] = "whole"]
    /\ UNCHANGED <<Host, current, config, files, db, svc, timer, lock, mem>>

\* ensure_secret: generated once, never rotated.
ensure_secret(pw) == IF pw = None THEN "t" ELSE pw
\* generate_configuration: existing lines are kept, missing ones are added.
generate_configuration(dsn, pw) == IF dsn = None THEN pw ELSE dsn
\* prepare_layout: the configuration is generated in a directory aside.
PrepareLayout ==
    /\ Step("install", "stage", IF current = None THEN "lock" ELSE "timer")
    /\ files' = [files EXCEPT !.pw = ensure_secret(files.pw), !.env = Groups]
    /\ Keep("install", [mem["install"] EXCEPT
            !.stage = generate_configuration(config.dsn, files'.pw),
            !.prev = current, !.snap = config])
    /\ UNCHANGED <<Host, releases, current, config, db, svc, timer, lock>>

\* prepare_stack: roles, migrations and grants, while the old services still run.
DbRoles ==
    /\ Step("install", "roles", "migrate")
    /\ db' = bootstrap_roles(db, files.pw)
    /\ UNCHANGED <<Host, disk, svc, timer, lock, mem>>
MigrateStack ==
    /\ Step("install", "migrate", "grants")
    /\ db' = migrate(db, New)
    /\ UNCHANGED <<Host, disk, svc, timer, lock, mem>>
GrantStack ==
    /\ Step("install", "grants", "publish")
    /\ db' = apply_grants(db)
    /\ UNCHANGED <<Host, disk, svc, timer, lock, mem>>

\* publish_configuration: one file after the other, each replaced atomically.
PublishConfiguration ==
    /\ At("install", "publish")
    /\ \E f \in Files :
        /\ config.by[f] # New
        /\ config' = [by |-> [config.by EXCEPT ![f] = New], dsn |-> mem["install"].stage]
        /\ Goto("install", IF \A g \in Files \ {f} : config.by[g] = New
                           THEN "activate" ELSE "publish")
    /\ UNCHANGED <<Host, releases, current, files, db, svc, timer, lock, mem>>
Republished ==
    /\ Step("install", "publish", "activate")
    /\ \A f \in Files : config.by[f] = New
    /\ UNCHANGED <<Host, disk, db, svc, timer, lock, mem>>
\* activate_release: the link is replaced atomically; then the systemd units.
ActivateRelease ==
    /\ Step("install", "activate", IF mem["install"].start THEN "start" ELSE "release")
    /\ current' = New
    /\ Keep("install", [mem["install"] EXCEPT !.switched = TRUE])
    /\ UNCHANGED <<Host, releases, config, files, db, svc, timer, lock>>
\* start_runtime: every service is recreated; all must become ready.
StartRuntime ==
    /\ Step("install", "start", "enable")
    /\ svc' = [s \in Services |-> New]
    /\ UNCHANGED <<Host, disk, db, timer, lock, mem>>

\* systemctl enable --now, unless --no-start; the lock is released.
EnableTimer ==
    /\ At("install", "enable") \/ At("install", "release")
    /\ Goto("install", "done")
    /\ Release("install")
    /\ timer' = (timer \/ At("install", "enable"))
    /\ UNCHANGED <<Host, disk, db, svc, mem>>

Stopped(S) == svc' = [s \in Services |-> IF s \in S THEN None ELSE svc[s]]
\* quiesce_uncertain_runtime: best effort, a stop that fails leaves any of the services running.
QuiesceRuntime ==
    /\ Step("install", "quiesce", "rollback")
    /\ \E S \in SUBSET Services : Stopped(S)
    /\ UNCHANGED <<Host, disk, db, timer, lock, mem>>
RollbackLinkOnly ==
    /\ Step("install", "rollback", "failed")
    /\ current' = IF mem["install"].switched THEN mem["install"].prev ELSE current
    /\ Release("install")
    /\ UNCHANGED <<Host, releases, config, files, db, svc, timer, mem>>
\* activate_prepared's handler: restore_current when switched, restore_configuration.
RollbackActivation ==
    /\ Step("install", "rollback", "failed")
    /\ current' = IF mem["install"].switched THEN mem["install"].prev ELSE current
    /\ config' = mem["install"].snap
    /\ Release("install")
    /\ UNCHANGED <<Host, releases, files, db, svc, timer, mem>>

\* The prerequisites, the root, the ingress material and the Guard instance come first.
InstallPreflight ==
    /\ Start("install", "copy") \/ Start("install", "failed")
    /\ UNCHANGED <<Host, disk, db, svc, timer, lock, mem>>

Install ==
    \/ InstallPreflight
    \/ InstallRelease \/ Copied \/ PrepareLayout
    \/ stop_timer("install", "timer", "lock")
    \/ shared_apply_lock("install", "lock", "roles")
    \/ DbRoles \/ MigrateStack \/ GrantStack
    \/ PublishConfiguration \/ Republished \/ ActivateRelease \/ StartRuntime \/ EnableTimer
    \/ QuiesceRuntime \/ RollbackActivation

----------------------------------------------------------------------------
(* The maintenance window and the backup: Maintenance, create_backup *)

OpenWindowWithoutStop(t, to) ==
    /\ Step(t, "pause", to)
    /\ Keep(t, [mem[t] EXCEPT !.up = {s \in Services : svc[s] # None}, !.window = TRUE])
    /\ UNCHANGED <<Host, disk, db, svc, timer, lock>>
\* Maintenance.__enter__: under the lock, the running services are recorded and stopped.
OpenWindow(t, to) ==
    /\ Step(t, "pause", to)
    /\ Keep(t, [mem[t] EXCEPT !.up = {s \in Services : svc[s] # None}, !.window = TRUE])
    /\ Stopped(Services)
    /\ UNCHANGED <<Host, disk, db, timer, lock>>
\* __enter__'s handler: a stop that fails part way; the services are not restarted.
WindowFails(t, restore_after) ==
    /\ pc[t] \in {"lock", "pause"}
    /\ Goto(t, "failed")
    /\ \E S \in SUBSET Services : (At(t, "lock") => S = {}) /\ Stopped(S)
    /\ Release(t)
    /\ timer' = (timer \/ (restore_after /\ mem[t].was))
    /\ UNCHANGED <<scene, bundles, netbox, disk, db, mem>>

Stage(staged, from, to) ==
    /\ Step("backup", from, to)
    /\ Keep("backup", [mem["backup"] EXCEPT !.stage = staged])
    /\ UNCHANGED <<Host, disk, db, svc, timer, lock>>
NoBundle == [meta |-> None, dump |-> None, files |-> None, refs |-> None]
\* create_backup: counts and revision, the dump, the archive, then the references.
TakeMetadata == Stage([mem["backup"].stage EXCEPT !.meta = metadata(db)], "metadata", "dump")
TakeDump == Stage([mem["backup"].stage EXCEPT !.dump = db], "dump", "archive")
TakeArchive == Stage([mem["backup"].stage EXCEPT !.files = files], "archive", "references")
TakeReferences == Stage([mem["backup"].stage EXCEPT !.refs = db.sources], "references", "publish")
\* verify_bundle, COMPLETE, os.replace: nothing is published before it is verified.
PublishBundle ==
    /\ Step("backup", "publish", "exit")
    /\ verify_bundle(mem["backup"].stage)
    /\ bundles' = bundles \cup {mem["backup"].stage}
    /\ UNCHANGED <<scene, netbox, faults, disk, db, svc, timer, lock, mem>>

CloseWindowUnchecked(t, to) ==
    /\ Step(t, "exit", to)
    /\ \E S \in SUBSET mem[t].up : svc' = [s \in Services |-> IF s \in S THEN current ELSE svc[s]]
    /\ timer' = (timer \/ mem[t].was)
    /\ Release(t)
    /\ UNCHANGED <<Host, disk, db, mem>>
\* Maintenance.__exit__: exactly the services that ran, the timer, then the lock.
CloseWindow(t, to) ==
    /\ Step(t, "exit", to)
    /\ svc' = [s \in Services |-> IF s \in mem[t].up THEN current ELSE svc[s]]
    /\ timer' = (timer \/ mem[t].was)
    /\ Release(t)
    /\ UNCHANGED <<Host, disk, db, mem>>

\* __exit__ when a restart fails part way: some services run, the lock is freed, the command fails.
RestartFails ==
    /\ Step("backup", "exit", "failed")
    /\ \E S \in SUBSET mem["backup"].up : svc' = [s \in Services |-> IF s \in S THEN current ELSE svc[s]]
    /\ Release("backup")
    /\ UNCHANGED <<scene, bundles, netbox, disk, db, timer, mem>>

\* DatabaseTool.preflight and the destination, before the window.
BackupPreflight ==
    /\ Start("backup", "timer") \/ Start("backup", "failed")
    /\ Keep("backup", [NoMem EXCEPT !.stage = NoBundle])
    /\ UNCHANGED <<Host, disk, db, svc, timer, lock>>

Backup ==
    \/ BackupPreflight
    \/ stop_timer("backup", "timer", "lock")
    \/ shared_apply_lock("backup", "lock", "pause")
    \/ OpenWindow("backup", "metadata")
    \/ TakeMetadata \/ TakeDump \/ TakeArchive \/ TakeReferences \/ PublishBundle
    \/ CloseWindow("backup", IF mem["backup"].stage \in bundles THEN "done" ELSE "failed")

----------------------------------------------------------------------------
(* The fresh restore: backup.restore_fresh *)

Bundle == CHOOSE b \in bundles : TRUE
Refuse(t) == Goto(t, "failed") /\ Release(t) /\ UNCHANGED <<Host, disk, db, svc, timer, mem>>

\* The checks made before anything is stopped.
RestoreChecks ==
    /\ Start("restore", "timer")
    /\ verify_bundle(Bundle) /\ Compatible(Bundle) /\ Foundation
    /\ UNCHANGED <<Host, disk, db, svc, timer, lock, mem>>
RestoreRefused ==
    /\ At("restore", "idle") /\ Offered("restore")
    /\ ~(verify_bundle(Bundle) /\ Compatible(Bundle) /\ Foundation)
    /\ Refuse("restore")
\* Inside the window the target is checked again, twice; nothing can write between.
Recheck ==
    /\ At("restore", "recheck")
    /\ IF Foundation /\ EmptyTarget
       THEN Goto("restore", "drop") /\ UNCHANGED <<Host, disk, db, svc, timer, lock, mem>>
       ELSE Refuse("restore")
\* DatabaseTool.restore_fresh: one command drops the schema, pg_restore fills it.
DropFoundation ==
    /\ At("restore", "drop")
    /\ IF Droppable
       THEN /\ Goto("restore", "load")
            /\ db' = [NoDb EXCEPT !.boot = db.boot, !.role = db.role, !.dirty = TRUE]
            /\ UNCHANGED <<Host, disk, svc, timer, lock, mem>>
       ELSE Refuse("restore")
LoadDump ==
    /\ Step("restore", "load", "migrate")
    /\ db' = Restored(Bundle.dump)
    /\ UNCHANGED <<Host, disk, svc, timer, lock, mem>>
\* The four database stages after the load, in this order.
RestoreStage ==
    /\ \/ Step("restore", "migrate", "grants") /\ db' = migrate(db, current)
       \/ Step("restore", "grants", "reconcile") /\ db' = apply_grants(db)
       \/ Step("restore", "reconcile", "revoke") /\ db' = reconcile_operations(db)
       \/ Step("restore", "revoke", "compare") /\ db' = revoke_restored_auth(db)
    /\ UNCHANGED <<Host, disk, svc, timer, lock, mem>>
\* The counts, the revision and the references against the manifest.
Compare ==
    /\ At("restore", "compare")
    /\ IF metadata(db) = [Bundle.meta EXCEPT !.rev = ToolHead] /\ db.sources = Bundle.refs
       THEN Goto("restore", "roles") /\ UNCHANGED <<Host, disk, db, svc, timer, lock, mem>>
       ELSE Refuse("restore")
\* _prepare_password_transition and the database tool.
RestoreRoles ==
    /\ Step("restore", "roles", "publish")
    /\ db' = restore_role_passwords(db, Bundle.files.pw)
    /\ UNCHANGED <<Host, disk, svc, timer, lock, mem>>
\* An older bundle lacks what later releases added: each step adds its group if missing.
extend_ui6(env) == env \cup {"broker"}
extend_auth(env) == env \cup {"auth"}
extend_bootstrap(env) == env \cup {"bootstrap"}
extend_tls(env) == env \cup {"tls"}
\* _publish_restored_state: both directories; the host keeps its own release.
PublishRestored ==
    /\ Step("restore", "publish", "start")
    /\ files' = [Bundle.files EXCEPT
                    !.env = extend_tls(extend_bootstrap(extend_auth(extend_ui6(@))))]
    /\ config' = [config EXCEPT !.dsn = Bundle.files.pw]
    /\ UNCHANGED <<Host, releases, current, db, svc, timer, lock, mem>>
\* _start_restored_runtime: services and diagnostics; never the timer.
StartRestored ==
    /\ Step("restore", "start", "done")
    /\ svc' = [s \in Services |-> current]
    /\ db' = [db EXCEPT !.dirty = FALSE]
    /\ Release("restore")
    /\ UNCHANGED <<Host, disk, timer, mem>>

Restore ==
    \/ RestoreChecks \/ RestoreRefused
    \/ stop_timer("restore", "timer", "lock")
    \/ shared_apply_lock("restore", "lock", "pause")
    \/ OpenWindow("restore", "recheck")
    \/ Recheck \/ DropFoundation \/ LoadDump \/ RestoreStage \/ Compare
    \/ RestoreRoles \/ PublishRestored \/ StartRestored

----------------------------------------------------------------------------
(* The updater of the test stand: update_test.update, GuardUpdate.apply *)

GuardStep(from, to, n) ==
    /\ Step("update", from, to)
    /\ netbox' = n
    /\ UNCHANGED <<scene, bundles, faults, disk, db, svc, timer, lock, mem>>

\* preflight: both scheduling entry points are off; the Guard stage is optional.
UpdatePreflight ==
    /\ Start("update", "pause")
    /\ ~timer /\ svc["sched"] = None
    /\ \E guard \in BOOLEAN : Keep("update", [NoMem EXCEPT !.window = guard])
    /\ UNCHANGED <<Host, disk, db, svc, timer, lock>>
\* pause: the timer and every service; a run of the apply worker ends with it.
UpdatePause ==
    /\ At("update", "pause")
    /\ timer' = FALSE
    /\ Stopped(Services)
    /\ pc' = [pc EXCEPT !["update"] = IF mem["update"].window THEN "guard" ELSE "install",
                        !["run"] = IF @ = "worker" THEN "idle" ELSE @]
    /\ lock' = IF pc["run"] = "worker" THEN None ELSE lock
    /\ UNCHANGED <<Host, disk, db, mem>>
\* apply_lock: never waits behind a running import.
GuardLock ==
    /\ At("update", "guard")
    /\ IF lock = None
       THEN /\ Goto("update", "preflight") /\ lock' = "update"
            /\ UNCHANGED <<Host, disk, db, svc, timer, mem>>
       ELSE Refuse("update")
\* preflight: the running project, its configuration and its database are the known ones.
GuardPreflight == GuardStep("preflight", "build", netbox)
\* build: the new image is made and its content compared before anything stops.
GuardBuild == GuardStep("build", "stop", netbox)
\* pause; activate: the image behind the tag, migrate, up.
GuardPause == GuardStep("stop", "tag", [netbox EXCEPT !.up = FALSE])
GuardTag == GuardStep("tag", "schema", [netbox EXCEPT !.image = New])
GuardMigrate == GuardStep("schema", "up", [netbox EXCEPT !.rev = netbox.image])
GuardUp == GuardStep("up", "check", [netbox EXCEPT !.up = TRUE])
\* verify: the running image, its migrations and its release; then the lock is freed.
GuardVerify ==
    /\ Step("update", "check", "install")
    /\ netbox = [up |-> TRUE, image |-> New, rev |-> New]
    /\ Release("update")
    /\ UNCHANGED <<Host, disk, db, svc, timer, mem>>
\* install.py --no-start, as a process of its own.
UpdateInstall ==
    /\ At("update", "install")
    /\ pc' = [pc EXCEPT !["update"] = "installing", !["install"] = "copy"]
    /\ Keep("install", [NoMem EXCEPT !.start = FALSE])
    /\ UNCHANGED <<Host, disk, db, svc, timer, lock>>
\* Its exit status, the release it activated, and the schedulers again.
UpdateInstalled ==
    /\ At("update", "installing")
    /\ pc["install"] \in Ended
    /\ IF pc["install"] = "done" /\ current = New /\ ~timer /\ svc["sched"] = None
       THEN Goto("update", "start") /\ UNCHANGED <<Host, disk, db, svc, timer, lock, mem>>
       ELSE Refuse("update")
\* The services without the scheduler, and verify_runtime on their images.
UpdateStart ==
    /\ Step("update", "start", "verify")
    /\ svc' = [s \in Services |-> IF s = "sched" THEN svc[s] ELSE current]
    /\ UNCHANGED <<Host, disk, db, timer, lock, mem>>
UpdateVerify ==
    /\ Step("update", "verify", IF mem["update"].window THEN "reconcile" ELSE "done")
    /\ \A s \in Services \ {"sched"} : svc[s] = New
    /\ ~timer /\ svc["sched"] = None
    /\ UNCHANGED <<Host, disk, db, svc, timer, lock, mem>>
\* selectel-reconciliation, with a new Guard only: its report must be compatible, then the schedulers again.
UpdateReconcile ==
    /\ At("update", "reconcile")
    /\ \/ /\ Goto("update", "done") /\ ~timer /\ svc["sched"] = None
          /\ UNCHANGED <<Host, disk, db, svc, timer, lock, mem>>
       \/ Refuse("update")

Update ==
    \/ UpdatePreflight \/ UpdatePause
    \/ GuardLock \/ GuardPreflight \/ GuardBuild \/ GuardPause \/ GuardTag \/ GuardMigrate \/ GuardUp \/ GuardVerify
    \/ UpdateInstall \/ UpdateInstalled \/ UpdateStart \/ UpdateVerify \/ UpdateReconcile

----------------------------------------------------------------------------
(* What can go wrong *)

\* shared_apply_lock gives up while another owner keeps the lock.
Timeout(t) ==
    /\ At(t, "lock") /\ lock # None
    /\ Goto(t, "failed")
    /\ timer' = (timer \/ (t = "backup" /\ mem[t].was))
    /\ Keep(t, [mem[t] EXCEPT !.late = TRUE])
    /\ UNCHANGED <<Host, disk, db, svc, lock>>

Handled == [install |-> {"publish", "activate", "start"}, restore |-> {"lock", "pause", "load", "start"},
            backup |-> {"lock", "pause", "metadata", "dump", "archive", "references", "publish"},
            update |-> {}]
\* Any command raises and nothing but the lock is cleaned up.
RaisePlain(t) ==
    /\ Busy(t) /\ pc[t] \notin Handled[t] \cup {"quiesce", "rollback", "exit", "installing"}
    /\ Goto(t, "failed") /\ Release(t)
    /\ UNCHANGED <<scene, bundles, netbox, disk, db, svc, timer, mem>>
\* An exception under activate_prepared: its handler runs.
RaiseActivation ==
    \/ /\ pc["install"] \in {"publish", "activate"} /\ Goto("install", "rollback")
       /\ \E done \in {TRUE, FALSE} :
            /\ (At("install", "publish") => ~done)
            /\ current' = IF done THEN New ELSE current
            /\ Keep("install", [mem["install"] EXCEPT !.switched = done])
       /\ UNCHANGED svc
    \/ /\ Step("install", "start", "quiesce")
       /\ \E S \in SUBSET Services : svc' = [s \in Services |-> IF s \in S THEN New ELSE svc[s]]
       /\ UNCHANGED <<current, mem>>
\* An exception inside the backup's window: the window closes, the staging is removed.
RaiseBackup ==
    /\ pc["backup"] \in Handled["backup"] \ {"lock", "pause"}
    /\ Goto("backup", "exit")
    /\ Keep("backup", [mem["backup"] EXCEPT !.stage = NoBundle])
\* pg_restore stops after some of its objects; the services of a failed start are stopped.
RaiseRestore ==
    \/ /\ Step("restore", "load", "failed")
       /\ db' \in {db, [Restored(Bundle.dump) EXCEPT !.runs = 0]} /\ Stopped({})
    \/ /\ Step("restore", "start", "failed") /\ UNCHANGED db /\ Stopped(Services)
Raise ==
    /\ faults.raised + faults.killed < MaxFaults
    /\ faults' = [faults EXCEPT !.raised = @ + 1]
    /\ \/ \E t \in Tools : RaisePlain(t)
       \/ WindowFails("backup", TRUE) \/ WindowFails("restore", FALSE) \/ RestartFails
       \/ RaiseActivation /\ UNCHANGED <<scene, bundles, netbox, releases, config, files, db, timer, lock>>
       \/ RaiseBackup /\ UNCHANGED <<scene, bundles, netbox, disk, db, svc, timer, lock>>
       \/ RaiseRestore /\ Release("restore") /\ UNCHANGED <<scene, bundles, netbox, disk, timer, mem>>
\* The process is killed: its locks are freed, nothing else is undone.
Kill(t) ==
    /\ Busy(t)
    /\ faults.raised + faults.killed < MaxFaults
    /\ faults' = [faults EXCEPT !.killed = @ + 1]
    /\ Goto(t, "killed") /\ Release(t)
    /\ UNCHANGED <<scene, bundles, netbox, disk, db, svc, timer, mem>>
\* The operator runs the installer once more.
Rerun ==
    /\ scene \in {"live", "first"} /\ ~mem["install"].again
    /\ pc["install"] \in {"failed", "killed"}
    /\ Goto("install", "copy")
    /\ Keep("install", [NoMem EXCEPT !.again = TRUE])
    /\ UNCHANGED <<Host, disk, db, svc, timer, lock>>

ToolStep == Install \/ Backup \/ Restore \/ Update
Next == \/ ToolStep \/ Raise \/ Rerun \/ Work \/ StartRun \/ EndRun
        \/ \E s \in Sources : AddSecret(s) \/ AddSource(s)
        \/ \E t \in Tools : Timeout(t) \/ Kill(t)
Spec == Init /\ [][Next]_vars

----------------------------------------------------------------------------
(* Properties *)

\* activate_prepared: unless a process was killed, configuration, link and release
\* agree whenever no installer is at work; an installer that ended well left its own.
ActivationWhole ==
    /\ pc["install"] \in {"idle", "done", "failed"} /\ faults.killed = 0 =>
        /\ \A f \in Files : config.by[f] = current
        /\ current # None => releases[current] = "whole"
    /\ At("install", "done") =>
        /\ current = New /\ releases[New] = "whole"
        /\ \A f \in Files : config.by[f] = New

\* Old services keep running while prepare_stack migrates: whatever runs has a schema
\* and grants that reach its release, the password its DSN carries, and its env files. (A first
\* installation that fails to start withdraws the DSN, perhaps under services it could not stop.)
RuntimeMatches ==
    \A s \in Services : svc[s] # None =>
        /\ db.rev >= Need(svc[s]) /\ db.granted >= Need(svc[s])
        /\ config.dsn \in {None, db.role} /\ files.env = Groups

\* create_backup: a published bundle describes one moment. Its counts and revision are
\* those of its dump, and every credential a dumped source refers to is in the archive.
BundleSound ==
    \A b \in bundles :
        /\ b.meta = metadata(b.dump)
        /\ b.refs = b.dump.sources /\ b.refs \subseteq b.files.src

\* Maintenance: what a backup that is not killed gives back. It ends well only with its bundle
\* published and the services it stopped running again; when it fails it restarts them too, and the
\* timer wherever it fails, before its window included, unless it is the restart that fails.
BackupPutsBack ==
    [][ Busy("backup") /\ pc'["backup"] \in {"done", "failed"} =>
          LET b == mem["backup"]
              restartFailed == At("backup", "exit") /\ faults' # faults IN
          /\ pc'["backup"] = "done" => b.stage \in bundles /\ ~restartFailed
          /\ ~restartFailed => /\ b.was => timer'
                               /\ b.window => \A s \in b.up : svc'[s] = current ]_vars

\* validate_empty_target under maintenance: no step of a restore loses a source, a
\* run, a plan or a session that the host had before it.
NothingOverwritten ==
    [][ ~db.dirty /\ db'.dirty =>
          db.sources = {} /\ db.runs = 0 /\ db.plan = "none" /\ db.session = "none" ]_vars

\* reconcile_operations, revoke_restored_auth: what ran on the old host authorizes
\* nothing on the new one once services run.
NoOldAuthority ==
    (\E s \in Services : svc[s] # None) => db.plan # "restored" /\ db.session # "restored"

\* A target that was dropped and not fully restored is never served or written to.
RestoredIdle ==
    db.dirty => ~timer /\ pc["run"] = "idle" /\ \A s \in Services : svc[s] = None

\* "The same revision restores directly; an older known revision migrates forward":
\* with no fault, an untouched target takes every bundle of a known revision.
RestoreAccepts ==
    At("restore", "failed") /\ faults.raised = 0 /\ Bundle.meta.rev <= HeadRev =>
        mem["restore"].late \/ ~(EmptyTarget \/ db.dirty)

\* update: neither scheduling entry point runs from the preflight on; no run is active
\* while NetBox is down; new services meet only the new Guard; success means all of it.
UpdateInOrder ==
    scene = "test" =>
        /\ ~timer /\ svc["sched"] = None
        /\ pc["run"] # "idle" => netbox.up
        /\ \A s \in Services : svc[s] = New =>
              current = New /\ (mem["update"].window => netbox = [up |-> TRUE, image |-> New, rev |-> New])
        /\ At("update", "done") => current = New /\ \A s \in {"api", "worker"} : svc[s] = New

\* Whatever runs, runs on a whole release: configured for it, with the schema, grants and secrets
\* it needs, and with no authority or half-restored data of another host (install, restore, update).
ServedSound == ActivationWhole /\ RuntimeMatches /\ NoOldAuthority /\ RestoredIdle /\ UpdateInOrder

\* A maintenance window gives back what it took: the services and timer of a backup, and every row
\* a host had before a restore (Maintenance, validate_empty_target).
MaintenanceKeeps == BackupPutsBack /\ NothingOverwritten

----------------------------------------------------------------------------
(* An inductive invariant: the steps of the tools and who has apply.lock;     *)
(* what an installer, a backup's window, a restore and an update have         *)
(* established at each step, and what holds of a host whoever is at work.     *)

Actors == Tools \cup {"run"}
Places(t) ==
    CASE t = "install" -> {"idle", "copy", "copying", "stage", "timer", "lock", "roles", "migrate", "grants", "publish",
                           "activate", "start", "enable", "release", "quiesce", "rollback"} \cup Ended
      [] t = "backup" -> {"idle", "timer", "lock", "pause", "metadata", "dump", "archive", "references", "publish",
                          "exit"} \cup Ended
      [] t = "restore" -> {"idle", "timer", "lock", "pause", "recheck", "drop", "load", "migrate", "grants", "reconcile",
                           "revoke", "compare", "roles", "publish", "start"} \cup Ended
      [] t = "update" -> {"idle", "pause", "guard", "preflight", "build", "stop", "tag", "schema", "up", "check",
                          "install", "installing", "start", "verify", "reconcile"} \cup Ended
      [] t = "run" -> {"idle", "timer", "worker"}
Passwords == {None, "t", "b"}
Links == {None} \cup Releases
Metas == [rev : Nat, sources : Nat, runs : Nat]
Dbs == [rev : Nat, granted : Nat, sources : SUBSET Sources, runs : Nat, plan : {"none", "READY", "restored", "STALE"},
        session : {"none", "own", "restored"}, boot : Passwords, role : Passwords, dirty : BOOLEAN]
Stores == [pw : Passwords, src : SUBSET Sources, env : SUBSET Groups]
Configs == [by : [Files -> Links], dsn : Passwords]
Stagings == [meta : {None} \cup Metas, dump : {None} \cup Dbs, files : {None} \cup Stores, refs : {None} \cup SUBSET Sources]
Memory(S) == [was : BOOLEAN, up : SUBSET Services, window : BOOLEAN, prev : Links, snap : {None} \cup Configs,
              switched : BOOLEAN, start : BOOLEAN, stage : S, again : BOOLEAN, late : BOOLEAN]

ASSUME DeploymentAssumption ==
    /\ Old # New /\ None \notin Releases /\ None \notin {"t", "b"} /\ None \notin Actors
    /\ HeadRev \in Nat \ {0} /\ IsFiniteSet(Sources) /\ Sources # {} /\ BundleRevisions \subseteq Nat
    /\ Scenarios \subseteq {"live", "first", "target", "test", "none"}

DeployTypeOK ==
    /\ scene \in {"live", "first", "target", "test", "none"}
    /\ releases \in [Releases -> {"absent", "partial", "whole"}] /\ current \in Links
    /\ config \in Configs /\ files \in Stores /\ db \in Dbs
    /\ svc \in [Services -> Links] /\ timer \in BOOLEAN /\ lock \in {None} \cup Actors
    /\ netbox \in [up : BOOLEAN, image : Releases, rev : Releases] /\ faults \in [raised : Nat, killed : Nat]
    /\ mem = [t \in Tools |-> mem[t]] /\ mem["install"] \in Memory(Passwords) /\ mem["backup"] \in Memory({None} \cup Stagings)
    /\ mem["restore"] \in Memory({None}) /\ mem["update"] \in Memory({None})

\* Only the tools of the scene are at work, at their steps; from the lock on they hold it.
Crew == CASE scene = "live" -> {"install", "backup", "run"}
          [] scene = "first" -> {"install", "run"}
          [] scene = "target" -> {"restore", "run"}
          [] scene = "test" -> {"update", "install", "run"}
          [] scene = "none" -> {"run"}
Holding(t) ==
    CASE t = "install" -> {"roles", "migrate", "grants", "publish", "activate", "start", "enable", "release", "quiesce", "rollback"}
      [] t = "backup" -> {"pause", "metadata", "dump", "archive", "references", "publish", "exit"}
      [] t = "restore" -> {"pause", "recheck", "drop", "load", "migrate", "grants", "reconcile", "revoke", "compare", "roles",
                           "publish", "start"}
      [] t = "update" -> {"preflight", "build", "stop", "tag", "schema", "up", "check"}
      [] t = "run" -> {"timer", "worker"}
ActorsIn == /\ pc = [t \in Actors |-> pc[t]]
            /\ \A t \in Actors : /\ pc[t] \in Places(t)
                                 /\ pc[t] # "idle" => t \in Crew
                                 /\ pc[t] \in Holding(t) => lock = t

Off == \A s \in Services : svc[s] = None
Granted == db.rev = HeadRev /\ db.granted = HeadRev

\* A host with its own database, whoever is at work: its passwords agree once they are published,
\* and a release is whole, and its schema there, before anything refers to it.
HostIs ==
    /\ ~db.dirty /\ db.plan = "none" /\ db.session = "none"
    /\ config.dsn \in {None, "t"} /\ files.pw \in {None, "t"}
    /\ config.dsn = "t" => files.pw = "t" /\ db.role = "t" /\ files.env = Groups
    /\ \A f \in Files : config.by[f] = New => config.dsn = "t"
    /\ \A s \in Services : svc[s] # None => files.pw = "t" /\ db.role = "t" /\ files.env = Groups
    /\ IF scene = "first" THEN current # Old /\ \A s \in Services : svc[s] # Old
       ELSE config.dsn = "t" /\ db.rev >= HeadRev - 1 /\ db.granted >= HeadRev - 1
    /\ current # None => releases[current] = "whole"
    /\ current = New => Granted
    /\ \A s \in Services : svc[s] = New => Granted

\* What the installer may go back to.
Snapped == {"timer", "lock", "roles", "migrate", "grants", "publish", "activate", "start", "quiesce", "rollback"}
SnapIs(m) ==
    /\ m.snap \in Configs /\ m.snap.dsn \in {None, "t"} /\ files.pw = "t" /\ files.env = Groups
    /\ \A f \in Files : /\ m.snap.by[f] = New => m.snap.dsn = "t"
                        /\ faults.killed = 0 => m.snap.by[f] = m.prev
    /\ m.prev # None => releases[m.prev] = "whole"
    /\ IF scene = "first" THEN m.prev # Old ELSE m.snap.dsn = "t"
InstallIs ==
    LET p == pc["install"]
        m == mem["install"] IN
    /\ p \in Snapped => SnapIs(m)
    /\ p \in {"timer", "lock", "roles", "migrate", "grants", "publish"} => m.stage = "t"
    /\ p \in {"timer", "lock", "roles", "migrate", "grants", "publish", "activate"} => current = m.prev
    /\ p \in {"start", "quiesce"} => m.switched
    /\ p = "rollback" => m.switched \/ current = m.prev
    /\ p \in Holding("install") \ {"roles"} => db.role = "t"
    /\ p = "grants" => db.rev = HeadRev
    /\ p \in (Holding("install") \ {"roles", "migrate", "grants"}) \cup {"done"} => Granted
    /\ p \in {"activate", "start", "enable", "release", "quiesce", "done"} => \A f \in Files : config.by[f] = New
    /\ p \in {"start", "enable", "release", "quiesce", "done"} => current = New
    /\ p \notin {"idle", "copy", "copying", "failed", "killed"} => releases[New] = "whole"
    /\ faults.killed = 0 /\ p \notin {"publish", "activate", "rollback"} => \A f \in Files : config.by[f] = current

\* While a backup takes its parts nothing runs, so that all of them are of one moment.
WindowIs ==
    LET p == pc["backup"]
        b == mem["backup"].stage IN
    /\ p # "idle" => b \in Stagings
    /\ p = "timer" => ~mem["backup"].was
    /\ p \in {"timer", "lock", "pause"} => ~mem["backup"].window
    /\ p \in {"metadata", "dump", "archive", "references", "publish"} => Off
    /\ p \in {"dump", "archive", "references", "publish"} => b.meta = metadata(db)
    /\ p \in {"archive", "references", "publish"} => b.dump = db
    /\ p = "publish" => b.refs = db.sources

\* The test stand: nothing is scheduled, and what was stopped stays so until Guard and release are new.
NewGuard == netbox = [up |-> TRUE, image |-> New, rev |-> New]
StandIs ==
    LET p == pc["update"]
        i == pc["install"] IN
    /\ ~timer /\ svc["sched"] = None
    /\ i # "idle" => ~mem["install"].start /\ i \notin {"start", "enable", "quiesce"} /\ p \in {"installing", "start", "verify", "reconcile"} \cup Ended
    /\ p \in {"guard", "preflight", "build", "stop", "tag", "schema", "up", "check", "install", "installing", "start"} => Off
    /\ ~netbox.up => Off /\ pc["run"] = "idle"
    /\ p \in {"idle", "pause", "guard", "preflight", "build", "stop"} => netbox.up
    /\ p \in {"install", "installing", "start", "verify", "reconcile", "done"} => netbox.up /\ (mem["update"].window => NewGuard)
    /\ p \in {"start", "verify", "reconcile", "done"} => i = "done"
    /\ p \in {"reconcile", "done"} => \A s \in {"api", "worker"} : svc[s] = New
    /\ \A s \in Services : svc[s] = New => /\ p \in {"verify", "reconcile"} \cup Ended /\ i = "done"
                                           /\ mem["update"].window => NewGuard

\* The fresh target: what is dropped was empty, and nothing runs from the window on until all is restored.
Loading == {"migrate", "grants", "reconcile", "revoke", "compare", "roles", "publish", "start"}
TargetIs ==
    LET p == pc["restore"] IN
    /\ ~timer /\ current = New /\ releases[New] = "whole" /\ \A f \in Files : config.by[f] = New
    /\ bundles # {} /\ \A b \in bundles : b.dump \in Dbs /\ b.files \in Stores
    /\ ~Off => /\ Granted /\ db.role = config.dsn /\ files.env = Groups
               /\ db.plan # "restored" /\ db.session # "restored"
    /\ db.dirty => Off /\ pc["run"] = "idle"
    /\ p \in Holding("restore") \ {"pause"} => Off
    /\ p = "drop" => EmptyTarget
    /\ p \in {"load"} \cup Loading => db.dirty
    /\ p \in Loading \ {"migrate"} => db.rev = HeadRev
    /\ p \in Loading \ {"migrate", "grants"} => Granted
    /\ p \in Loading \ {"migrate", "grants", "reconcile"} => db.plan # "restored"
    /\ p \in {"compare", "roles", "publish", "start"} => db.session # "restored"
    /\ p \in {"publish", "start"} => db.role = Bundle.files.pw
    /\ p = "start" => config.dsn = Bundle.files.pw /\ files.env = Groups

DeployIInv ==
    /\ DeployTypeOK /\ ActorsIn /\ BundleSound
    /\ scene # "target" => HostIs /\ InstallIs
    /\ scene = "live" => WindowIs
    /\ scene = "test" => StandIs
    /\ scene = "target" => TargetIs
=============================================================================
