----------------------------- MODULE Retirement -----------------------------
(***************************************************************************)
(* Retirement of one source: the reviewed deletion of everything it owns   *)
(* in NetBox, and then of the source itself.  The lifecycle worker keeps   *)
(* the journal (retirement_journal.py) and drives a retirement through it  *)
(* (retirement_coordinator.py), for an administrator, for the queue of     *)
(* confirmed removals (removal_queue.py) or for the continuation that      *)
(* picks interrupted retirements up (retirement_continuation.py).  The     *)
(* retirement worker speaks to the guard plugin inside NetBox              *)
(* (retirement_worker.py, deploy/netbox_guard/), whose transactions are    *)
(* modelled here too, with answers that get lost and requests that NetBox  *)
(* still serves after their sender has given up.                           *)
(*                                                                         *)
(* Every database transaction is one action.  apply.lock makes the job a   *)
(* single one; the source gate orders all transactions except the enqueue, *)
(* which takes only the row lock: the two gated transactions it can slip   *)
(* into, a schedule edit and the start of a recovery's credential stage,   *)
(* are therefore two steps each.                                           *)
(***************************************************************************)
EXTENDS Naturals, FiniteSets

CONSTANTS Op,            \* retirement nonces, in the order they were created
          Origins,       \* histories the source may start from
          Kinds,         \* what an administrator reviews: "delete", "archive"
          MaxEdits,      \* bound: changes of the source row other than its flags
          MaxInventory,  \* bound: changes of the source's objects in NetBox
          MaxFaults      \* bound: crashes, lost answers, refusals by chance

ASSUME RetirementAssumption == /\ Op \subseteq Nat \ {0}
                               /\ 1 \in Op
                               /\ Origins \subseteq {"fresh", "retained", "busy", "open"}
                               /\ Kinds \subseteq {"delete", "archive"}
                               /\ MaxEdits \in Nat
                               /\ MaxInventory \in Nat
                               /\ MaxFaults \in Nat

VARIABLES present, enabled, sync, edit,   \* the row of sources; edit stands for the rest of it
          generation, credential,         \* its tombstone: odd while removed; credential_state
          archive,                        \* operation of its row in source_archives, or 0
          state, plan, consent, proof,    \* source_retirements: state, plan, remove_credentials, receipt
          superseded, verified,           \* rows with superseded_by, with local_cleanup_verified
          request,                        \* source_removal_requests
          recovery,                       \* source_recoveries: the unfinished attempt
          work,                           \* latest operation or run of the source
          gate,                           \* the gated transaction between its check and its commit
          secrets, files,                 \* credential files, NetBox journals kept for the source
          intent, manifest, receipt,      \* guard: RetirementIntent, RetirementReceipt
          inventory,                      \* guard: version of the source's objects, 0 when none
          stray,                          \* POSTs NetBox still holds, their sender gone
          job,                            \* the holder of apply.lock in the lifecycle worker
          abandoned,                      \* operations whose POST was given up on once
          faults

row == <<present, enabled, sync, edit>>
tombstone == <<generation, credential, archive>>
journal == <<state, plan, consent, proof, superseded, verified>>
disk == <<secrets, files>>
guard == <<intent, manifest, receipt, inventory>>
vars == <<present, enabled, sync, edit, generation, credential, archive, state, plan, consent, proof,
          superseded, verified, request, recovery, work, gate, secrets, files, intent, manifest,
          receipt, inventory, stray, job, abandoned, faults>>

Edit == 0..MaxEdits
Inventory == 0..MaxInventory + 1
\* revision() hashes the row, its flags included.
Revision == [enabled : BOOLEAN, sync : BOOLEAN, edit : Edit]
Unknown == [enabled |-> FALSE, sync |-> FALSE, edit |-> 0]
Plan == [revision : Revision, generation : Nat]
NoPlan == [revision |-> Unknown, generation |-> 0]
NoRequest == [op |-> 0, state |-> "none", revision |-> Unknown]
Idle == [pc |-> "idle", op |-> 0, by |-> "none", want |-> "keep", dispatch |-> FALSE, reply |-> "none",
         revision |-> Unknown]

\* What the holder of apply.lock does, for which operation and whom, and what it was told.
Steps == {"idle", "review", "prepare", "begin", "post", "await", "get", "record", "guard",
          "tombstone", "credentials", "exclusive", "purge", "verify", "finalize", "failed"}
Replies == {"none", "delete", "archive", "SUCCEEDED", "REVIEWED", "refused", "busy", "lost",
            "conflict", "waiting"}
Jobs == [pc : Steps, op : Op \cup {0}, by : {"none", "admin", "resume", "queue"},
         want : {"keep", "remove"}, dispatch : BOOLEAN, reply : Replies, revision : Revision]

TypeOK == /\ {present, enabled, sync} \subseteq BOOLEAN
          /\ edit \in Edit
          /\ generation \in Nat
          /\ credential \in {"live", "RETAINED_BY_REQUEST", "CLEANUP_FAILED", "REMOVED",
                             "RETAINED_SHARED_OR_LEGACY"}
          /\ archive \in Op \cup {0}
          /\ state \in [Op -> {"none", "READY", "SENDING", "UNCERTAIN", "SUCCEEDED", "BLOCKED",
                               "BUSY", "FINALIZED"}]
          /\ plan \in [Op -> Plan]
          /\ consent \in [Op -> {"unset", "keep", "remove"}]
          /\ proof \in [Op -> {"none", "open", "closed"}]
          /\ {superseded, verified, abandoned} \subseteq SUBSET Op
          /\ request \in [op : Op \cup {0}, state : {"none", "WAITING", "BLOCKED"}, revision : Revision]
          /\ recovery \in {"none", "PREPARED", "CREDENTIALS_PENDING"}
          /\ work \in {"idle", "operation", "orphaned", "accepted", "applying", "finishing", "unconfirmed"}
          /\ gate \in {"free", "schedule", "credentials"}
          /\ {secrets, files} \subseteq {"kept", "gone"}
          /\ intent \in [Op -> {"none", "delete", "archive"}]
          /\ manifest \in [Op -> Inventory]
          /\ receipt \in [Op -> {"none", "open", "closed"}]
          /\ inventory \in Inventory
          /\ stray \in [Op -> Nat]
          /\ job \in Jobs
          /\ faults \in 0..MaxFaults

-----------------------------------------------------------------------------
(* The journal's views.                                                    *)

Removed == generation % 2 = 1
InFlight == {o \in Op : state[o] \in {"SENDING", "UNCERTAIN", "SUCCEEDED"}}
\* The partial unique index of migration 0013.
Active == InFlight \ superseded
\* BUSY is BLOCKED with the code SOURCE_OPERATION_ACTIVE, written by earlier releases.
Pending == Active \cup {o \in Op : state[o] = "BUSY"}
Format4(o) == intent[o] = "archive"

\* apply.lock, and the source gate without and with allow_waiting.
LockFree == job.pc = "idle" /\ work # "applying" /\ gate # "credentials"
Unretired == /\ gate = "free"
             /\ archive = 0
             /\ InFlight = {}
Open == Unretired /\ request.state = "none"

\* _guard: what it refuses besides a revision that changed.
Quiescent == work = "idle" /\ recovery # "CREDENTIALS_PENDING"
Current == [enabled |-> enabled, sync |-> sync, edit |-> edit]
Reviewed(o) == present /\ plan[o].revision = Current
\* _guard with pending_flags: the row is disabled, and its revision is compared
\* with the flags it had when it was reviewed.
StillReviewed(o) == present /\ ~enabled /\ ~sync /\ plan[o].revision.edit = edit
\* The LifecycleError of a guard that fails: SOURCE_OPERATION_ACTIVE is worth
\* waiting for, but a changed revision is found first.
GuardError(unchanged) == IF unchanged /\ work \in {"operation", "orphaned"} THEN "waiting" ELSE "conflict"
Fail(why) == job' = [job EXCEPT !.pc = "failed", !.reply = why]

-----------------------------------------------------------------------------
(* Where a source may come from: in use; removed by an earlier release     *)
(* that kept its objects; refused as busy by an earlier release; retired   *)
(* by an earlier guard that did not close the namespace.                   *)

Disabled == enabled = FALSE /\ sync = FALSE
LegacyPlan == [revision |-> [enabled |-> TRUE, sync |-> TRUE, edit |-> 0], generation |-> 0]
InitJournal(s, c, p, i, r) == /\ state = [o \in Op |-> IF o = 1 THEN s ELSE "none"]
                              /\ consent = [o \in Op |-> IF o = 1 THEN c ELSE "unset"]
                              /\ plan = [o \in Op |-> IF o = 1 THEN p ELSE NoPlan]
                              /\ intent = [o \in Op |-> IF o = 1 THEN i ELSE "none"]
                              /\ manifest = [o \in Op |-> IF o = 1 /\ i # "none" THEN 1 ELSE 0]
                              /\ receipt = [o \in Op |-> IF o = 1 THEN r ELSE "none"]
                              /\ proof = receipt

Init == /\ present = TRUE /\ edit = 0 /\ archive = 0
        /\ superseded = {} /\ verified = {} /\ request = NoRequest
        /\ recovery = "none" /\ work = "idle" /\ gate = "free"
        /\ secrets = "kept" /\ files = "kept"
        /\ inventory \in {0, 1}
        /\ stray = [o \in Op |-> 0] /\ job = Idle /\ abandoned = {} /\ faults = 0
        /\ \/ /\ "fresh" \in Origins
              /\ enabled = TRUE /\ sync \in BOOLEAN
              /\ generation = 0 /\ credential = "live"
              /\ InitJournal("none", "unset", NoPlan, "none", "none")
           \/ /\ "retained" \in Origins
              /\ Disabled
              /\ generation = 1 /\ credential = "RETAINED_BY_REQUEST"
              /\ InitJournal("none", "unset", NoPlan, "none", "none")
           \/ /\ "busy" \in Origins
              /\ Disabled
              /\ generation = 0 /\ credential = "live"
              /\ InitJournal("BUSY", "remove", LegacyPlan, "delete", "none")
           \/ /\ "open" \in Origins
              /\ Disabled
              /\ \/ generation = 0 /\ credential = "live"
                 \/ generation = 1 /\ credential = "RETAINED_BY_REQUEST"
              /\ \E c \in {"keep", "remove"} :
                    InitJournal("SUCCEEDED", c, LegacyPlan, "delete", "open")

-----------------------------------------------------------------------------
(* The guard plugin in NetBox.                                             *)

Sealed == \E o \in Op : receipt[o] = "closed"

\* review_source and review_archive answer a nonce they know with its intent, and
\* only an archive asks whether the namespace is open.
Reviewable(o, kind) == \/ intent[o] = kind
                       \/ intent[o] = "none" /\ (kind = "archive" => ~Sealed)
GuardReview(o, kind) == /\ Reviewable(o, kind)
                        /\ intent' = [intent EXCEPT ![o] = kind]
                        /\ manifest' = [manifest EXCEPT ![o] = IF intent[o] = kind THEN @ ELSE inventory]

\* Faulty variant: the inventory is not compared with the reviewed manifest.
ServableUnreviewed(o) == receipt[o] = "none" => ~Sealed

\* retire_source and archive_source: a receipt is returned as it is; otherwise the
\* namespace is open and holds what was reviewed or, for a deletion, nothing.
Servable(o) == receipt[o] = "none" =>
                  /\ ~Sealed
                  /\ \/ inventory = manifest[o]
                     \/ inventory = 0 /\ ~Format4(o)

\* The deletion, the seal of the namespace and the receipt commit together.
Serve(o) == /\ Servable(o)
            /\ IF receipt[o] = "none"
               THEN /\ receipt' = [receipt EXCEPT ![o] = "closed"]
                    /\ inventory' = IF Format4(o) THEN inventory ELSE 0
               ELSE UNCHANGED <<receipt, inventory>>

\* A request whose sender is gone is served like any other, or refused.
ServeStray(o) == /\ stray[o] > 0
                 /\ stray' = [stray EXCEPT ![o] = @ - 1]
                 /\ Serve(o) \/ UNCHANGED <<receipt, inventory>>
                 /\ UNCHANGED <<row, tombstone, journal, request, recovery, work, gate, disk, intent,
                                manifest, job, abandoned, faults>>

\* Somebody changes the source's objects in NetBox, or deletes the last of them.
\* What was deleted does not come back with the same fingerprint.
InventoryChanges == /\ \/ inventory' \in inventory + 1..MaxInventory + 1
                       \/ inventory # 0 /\ inventory' = 0
                    /\ \A o \in Op : inventory' # 0 => manifest[o] # inventory'
                    /\ UNCHANGED <<row, tombstone, journal, request, recovery, work, gate, disk, intent,
                                   manifest, receipt, stray, job, abandoned, faults>>

-----------------------------------------------------------------------------
(* Review: the coordinator's check, the guard's inventory, the READY row.  *)

\* review() for an administrator; all of it holds apply.lock.
ReviewAllowed(o, kind) ==
    IF kind = "archive"
    THEN /\ archive = 0
         /\ \A p \in InFlight : state[p] = "SUCCEEDED" /\ proof[p] # "closed"
    ELSE Pending \ (superseded \cup {o}) = {}

Review(o, kind) == /\ LockFree /\ gate = "free"
                   /\ present
                   /\ state[o] = "none" /\ request.op # o
                   /\ kind = "delete" => Open
                   /\ ReviewAllowed(o, kind)
                   /\ Quiescent
                   /\ job' = [Idle EXCEPT !.pc = "review", !.op = o, !.by = "admin", !.reply = kind,
                                             !.revision = Current]
                   /\ UNCHANGED <<row, tombstone, journal, request, recovery, work, gate, disk, guard,
                                  stray, abandoned, faults>>

\* The call to the guard.  It refuses for as long as it finds a reason in NetBox (an
\* object that is shared, claimed by others or not removable, the permissions, the
\* size), or an intent that does not fit; an answer may get lost.
ReviewCall == /\ job.pc = "review"
              /\ \/ /\ GuardReview(job.op, job.reply)
                    /\ job' = [job EXCEPT !.pc = "prepare"]
                    /\ UNCHANGED faults
                 \/ /\ Fail("refused")
                    /\ UNCHANGED <<intent, manifest, faults>>
                 \/ /\ faults < MaxFaults
                    /\ faults' = faults + 1
                    /\ GuardReview(job.op, job.reply)
                    /\ Fail("lost")
              /\ UNCHANGED <<row, tombstone, journal, request, recovery, work, gate, disk, receipt,
                             inventory, stray, abandoned>>

\* prepare(): the guard again, and the immutable plan.
Prepare == /\ job.pc = "prepare" /\ gate = "free"
           /\ IF present /\ job.revision = Current /\ Quiescent
              THEN /\ state' = [state EXCEPT ![job.op] = "READY"]
                   /\ plan' = [plan EXCEPT ![job.op] = [revision |-> Current, generation |-> generation]]
                   /\ job' = Idle
              ELSE /\ Fail(GuardError(present /\ job.revision = Current))
                   /\ UNCHANGED <<state, plan>>
           /\ UNCHANGED <<row, tombstone, consent, proof, superseded, verified, request, recovery, work,
                          gate, disk, guard, stray, abandoned, faults>>

-----------------------------------------------------------------------------
(* Execution: begin(), the POST or the receipt, and what the journal makes *)
(* of the answer.                                                          *)

Start(o, who, w) == /\ LockFree
                    /\ job' = [Idle EXCEPT !.pc = "begin", !.op = o, !.by = who, !.want = w]
                    /\ UNCHANGED <<row, tombstone, journal, request, recovery, work, gate, disk, guard,
                                   stray, abandoned, faults>>

\* execute() and its retirement_resume form, for an administrator.  The pages ask to
\* remove the credentials, earlier ones also to keep them.
Execute(o) == /\ state[o] \notin {"none", "FINALIZED"}
              /\ \E who \in {"admin", "resume"}, w \in {"keep", "remove"} :
                    (w = "keep" => o # request.op) /\ Start(o, who, w)

\* Faulty variant: a retirement the guard has confirmed is taken to be complete.
ContinueUnconfirmed(o) == /\ present
                          /\ o \in Pending \ superseded
                          /\ state[o] # "SUCCEEDED"
                          /\ consent[o] = "remove"
                          /\ Start(o, "resume", "remove")

\* RetirementContinuation: the oldest pending row, an active one before a BUSY one.
Continue(o) == /\ present
               /\ o \in Pending \ superseded
               /\ consent[o] = "remove"
               /\ \A p \in Pending \ superseded :
                     \/ p >= o /\ (state[p] = "BUSY" \/ state[o] # "BUSY")
                     \/ state[p] = "BUSY" /\ state[o] # "BUSY"
               /\ Start(o, "resume", "remove")

\* begin(): the review still holds.
Consented(o) == /\ o \notin superseded
                /\ IF state[o] = "READY" THEN Reviewed(o) ELSE StillReviewed(o)
                /\ Quiescent
                /\ state[o] # "SUCCEEDED" => generation = plan[o].generation

\* An archive may supersede an outcome that did not close the namespace.
Supersedes(o) == IF Format4(o) THEN {p \in Op : state[p] = "SUCCEEDED" /\ proof[p] = "open"} ELSE {}

\* Faulty variant: an older retirement in flight is not looked for.
BeginnableBesides(o) == state[o] = "READY" /\ Consented(o)

\* A READY row is sent when nothing else is in flight.
Beginnable(o) == state[o] = "READY" /\ Consented(o) /\ InFlight \subseteq Supersedes(o)

\* Consent to remove the credentials may be added later, never withdrawn.
Repeatable(o) == /\ o \in InFlight
                 /\ Consented(o)
                 /\ consent[o] = job.want \/ (consent[o] = "keep" /\ job.want = "remove")

\* resume_legacy_busy(): an old refusal as busy is an outcome to be read again.
Resumable(o) == /\ state[o] = "BUSY" /\ job.by = "resume"
                /\ consent[o] = "remove" /\ proof[o] = "none" /\ o \notin superseded /\ ~Format4(o)
                /\ StillReviewed(o) /\ Quiescent
                /\ InFlight = {}

\* A recovery that is only prepared is cancelled, and the source disabled.
BeginReady(o) == /\ Beginnable(o)
                 /\ superseded' = superseded \cup Supersedes(o)
                 /\ recovery' = "none"
                 /\ enabled' = FALSE /\ sync' = FALSE
                 /\ state' = [state EXCEPT ![o] = "SENDING"]
                 /\ consent' = [consent EXCEPT ![o] = job.want]
                 /\ job' = [job EXCEPT !.pc = "post", !.dispatch = TRUE]

BeginAgain(o) == /\ Repeatable(o)
                 /\ consent' = [consent EXCEPT ![o] = job.want]
                 /\ job' = [job EXCEPT !.pc = "get"]
                 /\ UNCHANGED <<superseded, recovery, enabled, sync, state>>

\* begin() itself comes next.
ResumeBusy(o) == /\ Resumable(o)
                 /\ state' = [state EXCEPT ![o] = "UNCERTAIN"]
                 /\ UNCHANGED <<superseded, recovery, enabled, sync, consent, job>>

\* A refusal that was recorded is reported; everything else is a LifecycleError.
BeginRefused(o) == /\ ~Beginnable(o) /\ ~Repeatable(o) /\ ~Resumable(o)
                   /\ IF state[o] \in {"BLOCKED", "BUSY"} THEN job' = Idle
                      ELSE Fail(GuardError(IF state[o] = "READY" THEN Reviewed(o) ELSE StillReviewed(o)))
                   /\ UNCHANGED <<superseded, recovery, enabled, sync, consent, state>>

Begin == /\ job.pc = "begin" /\ gate = "free"
         /\ \/ BeginReady(job.op)
            \/ BeginAgain(job.op)
            \/ ResumeBusy(job.op)
            \/ BeginRefused(job.op)
         /\ UNCHANGED <<present, edit, tombstone, plan, proof, verified, request, work, gate, disk, guard,
                        stray, abandoned, faults>>

\* The worker asks for the guard's capabilities before it sends anything; a
\* failure of that read is reported like a refusal of the POST.
Post == /\ job.pc = "post"
        /\ \/ /\ job' = [job EXCEPT !.pc = "await"]
              /\ UNCHANGED faults
           \/ /\ faults < MaxFaults
              /\ faults' = faults + 1
              /\ job' = [job EXCEPT !.pc = "record", !.reply = "refused"]
        /\ UNCHANGED <<row, tombstone, journal, request, recovery, work, gate, disk, guard, stray,
                       abandoned>>

\* The guard serves the POST, or refuses it: for what it finds, or by a code that
\* does not depend on the model's state (permissions, budget, a busy namespace).
Answer == /\ job.pc = "await"
          /\ \/ /\ Serve(job.op)
                /\ job' = [job EXCEPT !.pc = "record", !.reply = "SUCCEEDED"]
                /\ UNCHANGED faults
             \/ /\ ~Servable(job.op)
                /\ job' = [job EXCEPT !.pc = "record", !.reply = "refused"]
                /\ UNCHANGED <<receipt, inventory, faults>>
             \/ /\ faults < MaxFaults
                /\ faults' = faults + 1
                /\ \E r \in {"refused", "busy"} : job' = [job EXCEPT !.pc = "record", !.reply = r]
                /\ UNCHANGED <<receipt, inventory>>
          /\ UNCHANGED <<row, tombstone, journal, request, recovery, work, gate, disk, intent, manifest,
                         stray, abandoned>>

\* The child runs into its 70 seconds or the connection breaks: the POST was served,
\* or NetBox still holds it.
LoseAnswer == /\ job.pc = "await"
              /\ faults < MaxFaults
              /\ faults' = faults + 1
              /\ job' = [job EXCEPT !.pc = "record", !.reply = "lost"]
              /\ \/ Serve(job.op) /\ UNCHANGED <<stray, abandoned>>
                 \/ /\ stray' = [stray EXCEPT ![job.op] = @ + 1]
                    /\ abandoned' = abandoned \cup {job.op}
                    /\ UNCHANGED <<receipt, inventory>>
              /\ UNCHANGED <<row, tombstone, journal, request, recovery, work, gate, disk, intent, manifest>>

\* The read of the original receipt or intent.
Get == /\ job.pc = "get"
       /\ \/ /\ job' = [job EXCEPT !.pc = "record",
                                  !.reply = IF receipt[job.op] = "none" THEN "REVIEWED" ELSE "SUCCEEDED"]
             /\ UNCHANGED faults
          \/ /\ faults < MaxFaults
             /\ faults' = faults + 1
             /\ job' = [job EXCEPT !.pc = "record", !.reply = "lost"]
       /\ UNCHANGED <<row, tombstone, journal, request, recovery, work, gate, disk, guard, stray,
                      abandoned>>

\* resolve(): only the receipt of the reviewed manifest, and only once.
Resolve(o) == /\ state[o] # "SUCCEEDED" \/ proof[o] = receipt[o]
              /\ state' = [state EXCEPT ![o] = "SUCCEEDED"]
              /\ proof' = [proof EXCEPT ![o] = receipt[o]]
              /\ IF receipt[o] = "closed" THEN job' = [job EXCEPT !.pc = "guard"] ELSE Fail("conflict")

\* uncertain() and blocked() end the job.
Conclude(o, s) == /\ state' = [state EXCEPT ![o] = s]
                  /\ job' = Idle
                  /\ UNCHANGED proof

DefiniteRefusal == job.dispatch /\ job.reply = "refused"

\* execute() after the answer.  The failed read of a receipt that is already in the
\* journal changes nothing.
Record == /\ job.pc = "record" /\ gate = "free"
          /\ LET o == job.op
             IN \/ job.reply = "SUCCEEDED" /\ Resolve(o)
                \/ /\ job.reply # "SUCCEEDED" /\ state[o] = "SUCCEEDED"
                   /\ Fail("refused")
                   /\ UNCHANGED <<state, proof>>
                \/ /\ job.reply = "REVIEWED" /\ state[o] # "SUCCEEDED"
                   /\ IF job.by = "resume"
                      THEN /\ job' = [job EXCEPT !.pc = "post", !.dispatch = TRUE]
                           /\ UNCHANGED <<state, proof>>
                      ELSE Conclude(o, "UNCERTAIN")
                \/ /\ job.reply \in {"refused", "busy", "lost"} /\ state[o] # "SUCCEEDED"
                   /\ Conclude(o, IF DefiniteRefusal THEN "BLOCKED" ELSE "UNCERTAIN")
          /\ UNCHANGED <<row, tombstone, plan, consent, superseded, verified, request, recovery, work, gate,
                         disk, guard, stray, abandoned, faults>>

-----------------------------------------------------------------------------
(* The local half: tombstone, credentials, files, and the end of the source. *)

Local(next) == job' = [job EXCEPT !.pc = next]
Cleaned == credential \in {"REMOVED", "RETAINED_SHARED_OR_LEGACY"}

\* A tombstone newer than the review is the one a crashed attempt left.
LocallyGuarded(o) == /\ StillReviewed(o) /\ Quiescent
                     /\ generation # plan[o].generation => Removed

\* The source is guarded once more before anything local is removed.
LocalGuard == /\ job.pc = "guard" /\ gate = "free"
              /\ \/ LocallyGuarded(job.op) /\ ~Removed /\ Local("tombstone")
                 \/ LocallyGuarded(job.op) /\ Removed /\ consent[job.op] = "remove" /\ Local("credentials")
                 \/ LocallyGuarded(job.op) /\ Removed /\ consent[job.op] # "remove" /\ job' = Idle
                 \/ ~LocallyGuarded(job.op) /\ Fail(GuardError(StillReviewed(job.op)))
              /\ UNCHANGED <<row, tombstone, journal, request, recovery, work, gate, disk, guard, stray,
                             abandoned, faults>>

\* _remove_locked(): the tombstone is durable before a credential file is touched.
Tombstone == /\ job.pc = "tombstone" /\ gate = "free"
             /\ IF state[job.op] = "SUCCEEDED" /\ proof[job.op] # "none" /\ ~Removed /\ work = "idle"
                THEN /\ generation' = generation + 1
                     /\ enabled' = FALSE /\ sync' = FALSE
                     /\ IF consent[job.op] = "remove"
                        THEN credential' = "CLEANUP_FAILED" /\ Local("credentials")
                        ELSE credential' = "RETAINED_BY_REQUEST" /\ job' = Idle
                ELSE /\ Fail(GuardError(TRUE))
                     /\ UNCHANGED <<generation, enabled, sync, credential>>
             /\ UNCHANGED <<present, edit, archive, journal, request, recovery, work, gate, disk, guard,
                            stray, abandoned, faults>>

\* cleanup_credentials(), by _remove_locked and again by execute(): the pair is
\* deleted, retained because a file is shared or not the broker's, or the attempt
\* fails at any point and is repeated later.
Credentials == /\ job.pc = "credentials"
               /\ \/ /\ Cleaned
                     /\ Local(IF Format4(job.op) THEN "finalize" ELSE "exclusive")
                     /\ UNCHANGED <<credential, secrets, faults>>
                  \/ /\ ~Cleaned
                     /\ \/ credential' = "REMOVED" /\ secrets' = "gone"
                        \/ credential' = "RETAINED_SHARED_OR_LEGACY" /\ UNCHANGED secrets
                     /\ Local(IF Format4(job.op) THEN "finalize" ELSE "exclusive")
                     /\ UNCHANGED faults
                  \/ /\ ~Cleaned
                     /\ faults < MaxFaults /\ faults' = faults + 1
                     /\ credential' = "CLEANUP_FAILED"
                     /\ secrets' \in {secrets, "gone"}
                     /\ job' = Idle
               /\ UNCHANGED <<row, generation, archive, journal, request, recovery, work, gate, files, guard,
                              stray, abandoned>>

\* Faulty variant: a retained pair is left alone altogether.
ExclusiveSkipped == /\ job.pc = "exclusive"
                    /\ Local("purge")
                    /\ UNCHANGED <<row, tombstone, journal, request, recovery, work, gate, disk, guard, stray,
                                   abandoned, faults>>

\* _finish_exclusive_credentials(): of a retained pair, the file no other source uses.
\* A file whose name is not the broker's is refused at every attempt; the rest of the
\* failures are the database's or the broker's.
Exclusive == /\ job.pc = "exclusive"
             /\ \/ /\ secrets' = IF credential = "REMOVED" THEN secrets ELSE "gone"
                   /\ Local("purge")
                   /\ UNCHANGED faults
                \/ /\ credential # "REMOVED"
                   /\ job' = Idle
                   /\ UNCHANGED <<secrets, faults>>
                \/ /\ faults < MaxFaults /\ faults' = faults + 1
                   /\ job' = Idle
                   /\ UNCHANGED secrets
             /\ UNCHANGED <<row, tombstone, journal, request, recovery, work, gate, files, guard, stray,
                            abandoned>>

\* purge_local: the worker reads the receipt again and deletes the source's files.
PurgeLocal == /\ job.pc = "purge"
              /\ \/ receipt[job.op] = "closed" /\ files' = "gone" /\ Local("verify") /\ UNCHANGED faults
                 \/ receipt[job.op] # "closed" /\ Fail("refused") /\ UNCHANGED <<files, faults>>
                 \/ /\ faults < MaxFaults /\ faults' = faults + 1
                    /\ files' \in {files, "gone"}
                    /\ Fail("lost")
              /\ UNCHANGED <<row, tombstone, journal, request, recovery, work, gate, secrets, guard, stray,
                             abandoned>>

Verify == /\ job.pc = "verify"
          /\ verified' = verified \cup {job.op}
          /\ Local("finalize")
          /\ UNCHANGED <<row, tombstone, state, plan, consent, proof, superseded, request, recovery, work,
                         gate, disk, guard, stray, abandoned, faults>>

\* What purge_retired_source asks for.
Purgeable(o) == /\ state[o] = "SUCCEEDED" /\ consent[o] = "remove" /\ proof[o] = "closed"
                /\ o \in verified /\ o \notin superseded
                /\ Removed /\ Cleaned
                /\ ~enabled /\ ~sync
                /\ Quiescent

\* finalized() of a deletion: every row of the source goes, its journal included.
Purge == /\ present' = FALSE
         /\ state' = [o \in Op |-> "none"] /\ plan' = [o \in Op |-> NoPlan]
         /\ consent' = [o \in Op |-> "unset"] /\ proof' = [o \in Op |-> "none"]
         /\ superseded' = {} /\ verified' = {}
         /\ generation' = 0 /\ credential' = "live" /\ archive' = 0
         /\ request' = NoRequest /\ recovery' = "none"
         /\ job' = Idle

\* close_generation(): the source stays, archived for good.
Close(o) == /\ archive' = o
            /\ state' = [state EXCEPT ![o] = "FINALIZED"]
            /\ job' = Idle
            /\ UNCHANGED <<present, plan, consent, proof, superseded, verified, generation, credential,
                           request, recovery>>

\* A refusal includes the admission lock that a registration holds.
Finalize == /\ job.pc = "finalize" /\ gate = "free"
            /\ LET o == job.op
                   closable == Format4(o) /\ proof[o] = "closed" /\ Removed /\ Cleaned /\ archive \in {0, o}
               IN \/ ~Format4(o) /\ Purgeable(o) /\ Purge /\ UNCHANGED faults
                  \/ closable /\ Close(o) /\ UNCHANGED faults
                  \/ /\ \/ ~closable /\ ~(~Format4(o) /\ Purgeable(o)) /\ UNCHANGED faults
                        \/ faults < MaxFaults /\ faults' = faults + 1
                     /\ Fail("conflict")
                     /\ UNCHANGED <<present, state, plan, consent, proof, superseded, verified, generation,
                                    credential, archive, request, recovery>>
            /\ UNCHANGED <<enabled, sync, edit, work, gate, disk, guard, stray, abandoned>>

-----------------------------------------------------------------------------
(* The queue of confirmed removals.                                        *)

\* enqueue(): only the row lock, so that it also fits into a gated transaction.
Enqueue(o) == /\ present
              /\ state[o] = "none" /\ intent[o] = "none" /\ job.op # o
              /\ request.state # "WAITING" /\ request.op # o
              /\ work # "unconfirmed" /\ recovery # "CREDENTIALS_PENDING"
              /\ InFlight = {} /\ \A p \in Op : state[p] # "BUSY"
              /\ sync' = FALSE
              /\ request' = [op |-> o, state |-> "WAITING", revision |-> [Current EXCEPT !.sync = FALSE]]
              /\ UNCHANGED <<present, enabled, edit, tombstone, journal, recovery, work, gate, disk, guard,
                             stray, job, abandoned, faults>>

Waiting == request.state = "WAITING" /\ job.pc = "idle"

\* tick() first ends a read whose process is gone and whose lease has run out.
TickReconcile == /\ Waiting /\ work = "orphaned"
                 /\ work' = "idle"
                 /\ UNCHANGED <<row, tombstone, journal, request, recovery, gate, disk, guard, stray, job,
                                abandoned, faults>>

\* A request without a journal row is reviewed, for the revision it was paused at.
TickReview == /\ Waiting /\ work # "orphaned" /\ LockFree /\ gate = "free"
              /\ state[request.op] = "none"
              /\ LET unchanged == request.revision = Current /\ ReviewAllowed(request.op, "delete")
                     asked == [Idle EXCEPT !.op = request.op, !.by = "queue", !.want = "remove",
                                           !.revision = request.revision]
                 IN IF unchanged /\ Quiescent
                    THEN job' = [asked EXCEPT !.pc = "review", !.reply = "delete"]
                    ELSE job' = [asked EXCEPT !.pc = "failed", !.reply = GuardError(unchanged)]
              /\ UNCHANGED <<row, tombstone, journal, request, recovery, work, gate, disk, guard, stray,
                             abandoned, faults>>

TickExecute == /\ Waiting /\ work # "orphaned"
               /\ state[request.op] = "READY"
               /\ Start(request.op, "queue", "remove")

\* A retirement that was refused ends its request; one in flight is the continuation's.
TickBlocked == /\ Waiting /\ work # "orphaned"
               /\ state[request.op] \in {"BLOCKED", "BUSY"}
               /\ request' = [request EXCEPT !.state = "BLOCKED"]
               /\ UNCHANGED <<row, tombstone, journal, recovery, work, gate, disk, guard, stray, job,
                              abandoned, faults>>

\* The exception reaches its caller: only tick() acts on it, and only on a
\* LifecycleError.  An answer of the guard arrives as a ControlError.
Failed == /\ job.pc = "failed"
          /\ job' = Idle
          /\ request' = IF job.by = "queue" /\ job.reply = "conflict" /\ request.op = job.op
                        THEN [request EXCEPT !.state = "BLOCKED"] ELSE request
          /\ UNCHANGED <<row, tombstone, journal, recovery, work, gate, disk, guard, stray, abandoned,
                         faults>>

\* The worker's process dies: its journal survives, its POST may too.
Crash == /\ job.pc # "idle"
         /\ faults < MaxFaults /\ faults' = faults + 1
         /\ job' = Idle
         /\ \/ /\ job.pc = "await"
               /\ stray' = [stray EXCEPT ![job.op] = @ + 1]
               /\ abandoned' = abandoned \cup {job.op}
            \/ job.pc # "await" /\ UNCHANGED <<stray, abandoned>>
         /\ UNCHANGED <<row, tombstone, journal, request, recovery, work, gate, disk, guard>>

-----------------------------------------------------------------------------
(* Everybody else who changes the source.                                  *)

NotRemoved == present /\ ~Removed
Elsewhere == <<journal, request, disk, guard, stray, job, abandoned>>

\* LifecycleScheduleStore.update: the gate, and inside it the conditional UPDATE of
\* another connection.
ScheduleGate == /\ Open /\ NotRemoved
                /\ gate' = "schedule"
                /\ UNCHANGED <<row, tombstone, recovery, work, faults, Elsewhere>>
ScheduleUpdate == /\ gate = "schedule"
                  /\ gate' = "free"
                  /\ \/ sync' \in BOOLEAN /\ UNCHANGED edit
                     \/ edit < MaxEdits /\ edit' = edit + 1 /\ UNCHANGED sync
                  /\ UNCHANGED <<present, enabled, tombstone, recovery, work, faults, Elsewhere>>

Rename == /\ LockFree /\ Open /\ NotRemoved
          /\ work \notin {"operation", "orphaned"}
          /\ edit < MaxEdits
          /\ edit' = edit + 1
          /\ UNCHANGED <<present, enabled, sync, tombstone, recovery, work, gate, faults, Elsewhere>>

\* Recovery of a removed source: prepare, begin_credentials, complete, abandon_prepared.
Recoverable == present /\ Removed /\ ~enabled /\ work = "idle"
RecoveryPrepare == /\ LockFree /\ Open /\ Recoverable
                   /\ recovery = "none"
                   /\ recovery' = "PREPARED"
                   /\ UNCHANGED <<row, tombstone, work, gate, faults, Elsewhere>>
RecoveryGate == /\ LockFree /\ Open /\ Recoverable
                /\ recovery = "PREPARED"
                /\ gate' = "credentials"
                /\ UNCHANGED <<row, tombstone, recovery, work, faults, Elsewhere>>
RecoveryCredentials == /\ gate = "credentials"
                       /\ gate' = "free"
                       /\ recovery' = "CREDENTIALS_PENDING"
                       /\ UNCHANGED <<row, tombstone, work, faults, Elsewhere>>
\* The source is enabled with new credentials, and nothing is scheduled.
RecoveryComplete == /\ LockFree /\ Open /\ Recoverable
                    /\ recovery = "CREDENTIALS_PENDING"
                    /\ edit < MaxEdits
                    /\ recovery' = "none"
                    /\ enabled' = TRUE /\ sync' = FALSE /\ edit' = edit + 1
                    /\ generation' = generation + 1
                    /\ secrets' = "kept"
                    /\ UNCHANGED <<present, credential, archive, work, gate, faults, files, journal, request,
                                   guard, stray, job, abandoned>>
RecoveryAbandon == /\ LockFree /\ Open
                   /\ recovery = "PREPARED"
                   /\ recovery' = "none"
                   /\ UNCHANGED <<row, tombstone, work, gate, faults, Elsewhere>>

\* Faulty variant: an operation is admitted beside a retirement.
OperationUnfenced == gate = "free" /\ archive = 0 /\ request.state = "none" /\ NotRemoved

\* source_gate for operations; the triggers guard_run_source and guard_queued_run
\* for runs, which overlook a superseded retirement.
OperationAdmitted == Open /\ NotRemoved
RunAdmitted == /\ gate = "free" /\ NotRemoved /\ archive = 0
               /\ Active = {}
               /\ request.state = "none"
               /\ enabled

Becomes(from, to) == /\ work \in from
                     /\ work' \in to
                     /\ UNCHANGED <<row, tombstone, recovery, gate, Elsewhere>>

\* DISCOVERY and PLAN operations: they end, or their process dies and the lease runs
\* out; a page that polls ends those too.
StartOperation == OperationAdmitted /\ Becomes({"idle"}, {"operation"}) /\ UNCHANGED faults
EndOperation == Becomes({"operation"}, {"idle"}) /\ UNCHANGED faults
OrphanOperation == faults < MaxFaults /\ faults' = faults + 1 /\ Becomes({"operation"}, {"orphaned"})
PollOperation == Becomes({"orphaned"}, {"idle"}) /\ UNCHANGED faults

\* A run: its row, apply.lock, the outcome recorded after the lock is released, and
\* the acceptance of a baseline for an outcome nobody knows.
StartRun == RunAdmitted /\ Becomes({"idle"}, {"accepted"}) /\ UNCHANGED faults
TakeApplyLock == LockFree /\ Becomes({"accepted"}, {"applying"}) /\ UNCHANGED faults
ReleaseApplyLock == Becomes({"applying"}, {"finishing"}) /\ UNCHANGED faults
FinishRun == Becomes({"accepted", "finishing"}, {"idle", "unconfirmed"}) /\ UNCHANGED faults
AcceptBaseline == Unretired /\ Becomes({"unconfirmed"}, {"idle"}) /\ UNCHANGED faults

Job == \/ ReviewCall \/ Prepare \/ Begin \/ Post \/ Answer \/ Get \/ Record
       \/ LocalGuard \/ Tombstone \/ Credentials \/ Exclusive \/ PurgeLocal \/ Verify \/ Finalize
       \/ Failed
Tick == TickReconcile \/ TickReview \/ TickExecute \/ TickBlocked
Others == \/ ScheduleGate \/ ScheduleUpdate \/ Rename
          \/ RecoveryPrepare \/ RecoveryGate \/ RecoveryCredentials \/ RecoveryComplete \/ RecoveryAbandon
          \/ StartOperation \/ EndOperation \/ OrphanOperation \/ PollOperation
          \/ StartRun \/ TakeApplyLock \/ ReleaseApplyLock \/ FinishRun \/ AcceptBaseline

Next == \/ Job \/ Tick \/ Others
        \/ LoseAnswer \/ Crash \/ InventoryChanges
        \/ \E o \in Op : \/ \E kind \in Kinds : Review(o, kind)
                        \/ Execute(o)
                        \/ Continue(o)
                        \/ Enqueue(o)
                        \/ ServeStray(o)

Spec == Init /\ [][Next]_vars

\* Every call of the job returns, as every request has a timeout; gated transactions
\* commit; admitted work ends.  The maintenance thread comes back every five seconds
\* and apply.lock is never held for good, so that it gets its turn.
Fairness == /\ WF_vars(Job)
            /\ WF_vars(ScheduleUpdate \/ RecoveryCredentials)
            /\ WF_vars(EndOperation \/ ReleaseApplyLock)
            /\ SF_vars(Tick)
            /\ \A o \in Op : SF_vars(Continue(o))
LiveSpec == Spec /\ Fairness

-----------------------------------------------------------------------------
(* Properties.                                                             *)

\* The journal never has two retirements of the source in flight: begin() and
\* resume_legacy_busy() find the other one before the unique index would.
OneInFlight == \A o, p \in Active : o = p

\* A retirement in flight can always go on: the source stays disabled and unedited,
\* no operation, run or recovery is admitted, and its tombstone is the reviewed one
\* or the one this retirement wrote, so that no later _guard can refuse it.  (Once
\* the source is archived, an old BUSY row may still be resumed, to no effect.)
FlightProtected == \A o \in Active : archive = 0 =>
                      /\ StillReviewed(o)
                      /\ Quiescent
                      /\ \/ generation = plan[o].generation
                         \/ /\ state[o] = "SUCCEEDED"
                            /\ generation = plan[o].generation + 1
                            /\ Removed

\* Nothing is deleted or sealed in NetBox for an operation that the journal had not
\* recorded as confirmed first: a POST waits for SENDING, through every crash.
ConsentFirst == \A o \in Op : stray[o] > 0 \/ receipt[o] = "closed" \/ (job.pc = "await" /\ job.op = o)
                              => ~present \/ state[o] \notin {"none", "READY", "BUSY"}

\* A retirement recorded as refused did not happen, unless one of its POSTs had been
\* given up on: blocked() is reached by definite answers only.
RefusedIsFinal == \A o \in Op \ abandoned : state[o] = "BLOCKED" => receipt[o] # "closed"

\* The journal is the truth about what was sent: one retirement at a time, nothing
\* sent before it is recorded, and no refusal recorded of what was done.
JournalHonest == OneInFlight /\ ConsentFirst /\ RefusedIsFinal

\* The source's own records go last: when they are gone, its objects have been
\* deleted and its namespace is sealed, and neither a credential file that only this
\* source used nor a journal of its NetBox requests is left behind.
ForgottenLast == ~present => Sealed /\ secrets = "gone" /\ files = "gone"

\* Credential files and journals are touched only after the guard's receipt, and
\* only by consent.
CleanupAfterReceipt == [][ (secrets = "kept" /\ secrets' = "gone") \/ (files = "kept" /\ files' = "gone")
                           => receipt[job.op] = "closed" /\ consent[job.op] = "remove" ]_vars

\* The guard deletes exactly the objects of a manifest the journal consented to.
DeletesReviewed == [][ inventory # 0 /\ receipt' # receipt /\ inventory' = 0
                       => \E o \in Op : /\ receipt'[o] = "closed"
                                        /\ manifest[o] = inventory
                                        /\ intent[o] = "delete" ]_vars

\* Consent to remove the credentials is never taken back while the row exists.
ConsentKept == [][ \A o \in Op : consent[o] = "remove" => consent'[o] = "remove" \/ ~present' ]_vars

\* Nothing is removed that was not reviewed and consented to, in NetBox or locally,
\* and no consent is lost on the way.
ReviewedOnly == DeletesReviewed /\ CleanupAfterReceipt /\ ConsentKept

\* A confirmed retirement ends: the source is gone or archived, or the guard's
\* refusal is recorded, whatever crashes and losses came between.
RetirementEnds == \A o \in Op : (o \in Active /\ consent[o] = "remove" /\ proof[o] # "open")
                                 ~> (~present \/ archive # 0 \/ state[o] \in {"BLOCKED", "FINALIZED"})

\* A queued removal does not wait for ever: admitted work ends, and the retirement
\* is carried out or blocked.
RequestEnds == request.state = "WAITING" ~> request.state # "WAITING"

\* What may hold a removal up for as long as it lasts: a credential file that cannot be
\* cleaned up, and, before anything is sent, a conflict the guard reports to the queue.
CleanupLasts == []<><<job.pc = "exclusive" /\ job' = Idle>>_vars
ConflictLasts == []<><<job.pc = "review" /\ job.by = "queue" /\ job'.reply = "refused">>_vars

\* A removal comes to an end, queued or begun, through every fault: only a credential
\* file that is refused again and again keeps a retirement open, and only that or a
\* conflict the guard reports again and again keeps a request waiting.
RemovalEnds == /\ CleanupLasts \/ RetirementEnds
               /\ CleanupLasts \/ ConflictLasts \/ RequestEnds

\* tick(): "Unknown/partial writes and ownership/dependency conflicts block."  A queued
\* removal that the guard refuses is blocked and does not wait on.
ConflictBlocks == [][ job.pc = "failed" /\ job.by = "queue" /\ job.reply = "refused" /\ request.op = job.op
                      => request'.state = "BLOCKED" ]_job

\* What the transport's comment says of a refusal: "Only known, bounded protocol
\* refusals prove no mutation" - so that a BLOCKED retirement did not happen.
RefusalProvesNoMutation == \A o \in Op : state[o] = "BLOCKED" => receipt[o] # "closed"

-----------------------------------------------------------------------------
(* The inductive invariant of the proofs: what the job knows at each of    *)
(* its steps, and what the rows that outlive a job say together.           *)

Sending == {"SENDING", "UNCERTAIN"}
LocalSteps == {"guard", "tombstone", "credentials", "exclusive", "purge", "verify", "finalize"}
Cleaning == {"exclusive", "purge", "verify", "finalize"}

\* The holder of apply.lock works on a source that exists and an operation of it.
JobHeld == IF job.pc = "idle" THEN job = Idle ELSE present /\ job.op \in Op

\* Before the consent the journal has at most the review.
JobBefore == /\ job.pc \in {"review", "prepare"} => /\ state[job.op] = "none"
                                                   /\ job.reply \in {"delete", "archive"}
             /\ job.pc = "prepare" => intent[job.op] = job.reply
             /\ job.pc = "begin" => ~job.dispatch /\ state[job.op] \notin {"none", "FINALIZED"}
             /\ job.pc = "get" => ~job.dispatch

\* From the consent to the recorded answer the operation is in flight; a refusal of
\* what was dispatched is true unless a POST was given up on.
JobInFlight == /\ job.pc \in {"post", "await", "get", "record"} => job.op \in Active
               /\ job.pc \in {"post", "await"} => /\ state[job.op] \in Sending
                                                  /\ receipt[job.op] # "closed" \/ job.op \in abandoned
               /\ job.pc = "record" =>
                     /\ job.reply \in {"SUCCEEDED", "REVIEWED", "refused", "busy", "lost"}
                     /\ job.reply = "SUCCEEDED" => receipt[job.op] # "none"
                     /\ job.reply = "REVIEWED" \/ DefiniteRefusal =>
                           receipt[job.op] # "closed" \/ job.op \in abandoned

\* The local half works under the receipt, for a removed source, by consent; the
\* credentials of a deletion are gone before its files and its files before its rows.
JobLocal == /\ job.pc \in LocalSteps => /\ job.op \in Active
                                   /\ state[job.op] = "SUCCEEDED"
                                   /\ receipt[job.op] = "closed" /\ proof[job.op] = "closed"
            /\ job.pc \in Cleaning \cup {"credentials"} => consent[job.op] = "remove" /\ Removed
            /\ job.pc \in Cleaning => Cleaned
            /\ job.pc \in {"exclusive", "purge", "verify"} => ~Format4(job.op)
            /\ job.pc \in {"purge", "verify", "finalize"} /\ ~Format4(job.op) => secrets = "gone"
            /\ job.pc \in {"verify", "finalize"} /\ ~Format4(job.op) => files = "gone"

\* A source that is gone has no journal, no request and no job.
GoneIsQuiet == ~present => /\ \A o \in Op : state[o] = "none"
                           /\ request.state = "none"

\* A gated transaction began when nothing was in flight, and nothing begins beside it.
GateAlone == gate # "free" => InFlight = {}

\* What a row of the journal says of the guard's intent and of the consent.
RowShape == \A o \in Op : /\ state[o] # "none" \/ stray[o] > 0 => intent[o] # "none"
                          /\ state[o] \in {"none", "READY"} => consent[o] = "unset"
                          /\ stray[o] > 0 => o \in abandoned

\* Nothing but a retirement in flight moves the tombstone beside an old BUSY row.
BusyShape == \A o \in Op : state[o] = "BUSY" =>
                /\ plan[o].generation = 0
                /\ archive = 0 /\ (\A p \in Op : state[p] # "SUCCEEDED") => generation = 0

\* Queued requests name an operation; removed credentials are gone.
RequestShape == request.state = "WAITING" => request.op \in Op
SecretShape == Removed /\ credential = "REMOVED" => secrets = "gone"

JobKnows == JobHeld /\ JobBefore /\ JobInFlight /\ JobLocal
RowsSay == /\ GoneIsQuiet /\ GateAlone /\ RowShape /\ BusyShape /\ RequestShape /\ SecretShape
           /\ OneInFlight /\ ConsentFirst /\ RefusedIsFinal /\ FlightProtected /\ ForgottenLast
IInv == TypeOK /\ JobKnows /\ RowsSay
=============================================================================
