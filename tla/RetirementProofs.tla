-------------------------- MODULE RetirementProofs --------------------------
(***************************************************************************)
(* Retirement, for every set of operations, every origin and every number  *)
(* of faults.  The inductive invariant IInv has two halves: JobKnows, what *)
(* the holder of apply.lock knows at each of its steps, and RowsSay, what  *)
(* the rows of PostgreSQL and of the guard say together, which is all that *)
(* is left after a crash.  One lemma per action (...Step) shows that it    *)
(* preserves both; the lemmas before them (...Job) say what a step makes   *)
(* of the job's record, field by field.                                    *)
(***************************************************************************)
EXTENDS Retirement, TLAPS
USE ZenonT(30)

\* What a step of the job leaves alone.
SameJob == /\ job' \in Jobs
           /\ job'.op = job.op /\ job'.by = job.by /\ job'.want = job.want
GoesTo(p) == SameJob /\ job'.pc = p /\ job'.dispatch = job.dispatch /\ job'.reply = job.reply
Told(p, r) == SameJob /\ job'.pc = p /\ job'.dispatch = job.dispatch /\ job'.reply = r

\* The idle job is one, and so are the plan and the request of nothing.
LEMMA IdleType == /\ Idle \in Jobs /\ Idle.pc = "idle" /\ Idle.op = 0
                  /\ Unknown \in Revision /\ NoPlan \in Plan /\ NoPlan.generation = 0
                  /\ Current \in [enabled : {enabled}, sync : {sync}, edit : {edit}]
  BY RetirementAssumption, SMTT(30) DEF Idle, Jobs, Unknown, Revision, NoPlan, Plan, Edit, Steps, Replies, Current

\* The steps of the job, field by field.
LEMMA MoveJob == ASSUME job \in Jobs, NEW p \in Steps, job' = [job EXCEPT !.pc = p] PROVE GoesTo(p)
  BY DEF Jobs, GoesTo, SameJob
\* The job goes on with an answer.
LEMMA TellJob == ASSUME job \in Jobs, NEW p \in Steps, NEW r \in Replies,
                        job' = [job EXCEPT !.pc = p, !.reply = r]
                 PROVE  Told(p, r)
  BY DEF Jobs, Told, SameJob
\* The job dispatches its POST.
LEMMA SendJob == ASSUME job \in Jobs, job' = [job EXCEPT !.pc = "post", !.dispatch = TRUE]
                 PROVE  SameJob /\ job'.pc = "post" /\ job'.dispatch /\ job'.reply = job.reply
  BY DEF Jobs, SameJob, Steps
\* A job that fails keeps its operation and gets a reply.
LEMMA FailJob == ASSUME job \in Jobs, NEW r \in Replies, Fail(r) PROVE Told("failed", r)
<1>1. "failed" \in Steps
  BY DEF Steps
<1> QED
  BY <1>1, TellJob DEF Fail

\* The names of steps and replies.
LEMMA Names == /\ {"idle", "review", "prepare", "begin", "post", "await", "get", "record", "guard", "tombstone",
                   "credentials", "exclusive", "purge", "verify", "finalize", "failed"} \subseteq Steps
               /\ {"none", "delete", "archive", "SUCCEEDED", "REVIEWED", "refused", "busy", "lost",
                   "conflict", "waiting"} \subseteq Replies
               /\ \A b : GuardError(b) \in {"waiting", "conflict"}
  BY DEF Steps, Replies, GuardError

\* A job begins.
LEMMA ReviewJob == ASSUME TypeOK, NEW o \in Op, NEW kind \in Kinds, Review(o, kind)
                   PROVE /\ job' \in Jobs /\ job'.pc = "review" /\ job'.op = o /\ job'.reply = kind
                         /\ job'.dispatch = FALSE
<1>1. Current \in Revision
  BY DEF Current, Revision, TypeOK
<1>2. job' = [Idle EXCEPT !.pc = "review", !.op = o, !.by = "admin", !.reply = kind, !.revision = Current]
  BY DEF Review
<1> QED
  BY <1>1, <1>2, RetirementAssumption DEF Jobs, Idle, Steps, Replies
\* Start() begins a job at begin(), with nothing dispatched.
LEMMA StartJob == ASSUME NEW o \in Op, NEW who \in {"admin", "resume", "queue"}, NEW w \in {"keep", "remove"},
                         Start(o, who, w)
                  PROVE  /\ job' \in Jobs /\ job'.pc = "begin" /\ job'.op = o /\ job'.dispatch = FALSE
                         /\ job'.by = who /\ job'.want = w
<1>1. job' = [Idle EXCEPT !.pc = "begin", !.op = o, !.by = who, !.want = w]
  BY DEF Start
<1>2. Unknown \in Revision
  BY IdleType
<1> QED
  BY <1>1, <1>2 DEF Jobs, Idle, Steps, Replies
\* The queue's job begins with the review, or has failed already.
LEMMA TickReviewJob == ASSUME TypeOK, RequestShape, TickReview
                       PROVE  /\ job' \in Jobs /\ job'.op = request.op /\ job'.dispatch = FALSE
                              /\ \/ job'.pc = "review" /\ job'.reply = "delete"
                                 \/ job'.pc = "failed"
<1>1. request.op \in Op /\ request.revision \in Revision
  BY DEF TickReview, Waiting, RequestShape, TypeOK
<1>2. PICK p \in {"review", "failed"} : \E r \in Replies :
         /\ p = "review" => r = "delete"
         /\ job' = [Idle EXCEPT !.op = request.op, !.by = "queue", !.want = "remove", !.revision = request.revision,
                                !.pc = p, !.reply = r]
  <2>1. \A b : GuardError(b) \in Replies /\ "delete" \in Replies
    BY Names
  <2> QED
    BY <2>1 DEF TickReview, Idle
<1> QED
  BY <1>1, <1>2 DEF Jobs, Idle, Steps, Replies

\* The steps of a job.
LEMMA ReviewCallJob == ASSUME job \in Jobs, ReviewCall
                       PROVE  \/ GoesTo("prepare") /\ GuardReview(job.op, job.reply)
                              \/ Told("failed", "lost") /\ GuardReview(job.op, job.reply)
                              \/ Told("failed", "refused") /\ UNCHANGED <<intent, manifest>>
  BY Names, MoveJob, FailJob DEF ReviewCall
\* prepare() ends the job with a READY row, or fails it and writes nothing.
LEMMA PrepareJob == ASSUME job \in Jobs, Prepare
                    PROVE  \/ /\ job' = Idle /\ present
                              /\ state' = [state EXCEPT ![job.op] = "READY"]
                              /\ plan' = [plan EXCEPT ![job.op] = [revision |-> Current, generation |-> generation]]
                           \/ SameJob /\ job'.pc = "failed" /\ UNCHANGED <<state, plan>>
<1>1. \A b : Fail(GuardError(b)) => SameJob /\ job'.pc = "failed"
  BY Names, FailJob DEF Told
<1> QED
  BY <1>1 DEF Prepare
\* The POST is on its way, or was refused before it left.
LEMMA PostJob == ASSUME job \in Jobs, Post PROVE GoesTo("await") \/ Told("record", "refused")
  BY Names, MoveJob, TellJob DEF Post
\* The guard has served the POST or changed nothing.
LEMMA AnswerJob == ASSUME job \in Jobs, Answer
                   PROVE \/ Told("record", "SUCCEEDED") /\ Serve(job.op)
                         \/ Told("record", "refused") /\ UNCHANGED <<receipt, inventory>>
                         \/ Told("record", "busy") /\ UNCHANGED <<receipt, inventory>>
  BY Names, TellJob DEF Answer
\* A lost answer is recorded as lost.
LEMMA LoseAnswerJob == ASSUME job \in Jobs, LoseAnswer PROVE Told("record", "lost")
  BY Names, TellJob DEF LoseAnswer
\* The receipt that is read is the one there is.
LEMMA GetJob == ASSUME job \in Jobs, Get
                PROVE  \/ Told("record", "SUCCEEDED") /\ receipt[job.op] # "none"
                       \/ Told("record", "REVIEWED") /\ receipt[job.op] = "none"
                       \/ Told("record", "lost")
  BY Names, TellJob DEF Get
\* The four outcomes of the record: resolved, failed, sent again, concluded.
LEMMA RecordJob == ASSUME job \in Jobs, Record
                   PROVE  LET o == job.op
                          IN \/ /\ job.reply = "SUCCEEDED"
                                /\ state[o] # "SUCCEEDED" \/ proof[o] = receipt[o]
                                /\ state' = [state EXCEPT ![o] = "SUCCEEDED"]
                                /\ proof' = [proof EXCEPT ![o] = receipt[o]]
                                /\ \/ receipt[o] = "closed" /\ GoesTo("guard")
                                   \/ receipt[o] # "closed" /\ Told("failed", "conflict")
                             \/ Told("failed", "refused") /\ UNCHANGED <<state, proof>>
                             \/ /\ job.reply = "REVIEWED" /\ state[o] # "SUCCEEDED"
                                /\ SameJob /\ job'.pc = "post" /\ job'.dispatch
                                /\ UNCHANGED <<state, proof>>
                             \/ /\ state[o] # "SUCCEEDED" /\ job' = Idle /\ UNCHANGED proof
                                /\ \/ state' = [state EXCEPT ![o] = "UNCERTAIN"]
                                   \/ DefiniteRefusal /\ state' = [state EXCEPT ![o] = "BLOCKED"]
  BY Names, MoveJob, FailJob, SendJob DEF Record, Resolve, Conclude
\* The local guard sends the job to the tombstone, to the credentials, or ends it.
LEMMA LocalGuardJob == ASSUME job \in Jobs, LocalGuard
                       PROVE  \/ GoesTo("tombstone") /\ ~Removed
                              \/ GoesTo("credentials") /\ Removed /\ consent[job.op] = "remove"
                              \/ job' = Idle
                              \/ SameJob /\ job'.pc = "failed"
<1>1. \A b : Fail(GuardError(b)) => SameJob /\ job'.pc = "failed"
  BY Names, FailJob DEF Told
<1> QED
  BY <1>1, Names, MoveJob DEF LocalGuard, Local
\* The tombstone is written for a confirmed retirement of a source that is not removed, or not at all.
LEMMA TombstoneJob == ASSUME job \in Jobs, Tombstone
                      PROVE  \/ /\ state[job.op] = "SUCCEEDED" /\ ~Removed /\ work = "idle"
                                /\ generation' = generation + 1 /\ enabled' = FALSE /\ sync' = FALSE
                                /\ \/ /\ consent[job.op] = "remove"
                                      /\ credential' = "CLEANUP_FAILED" /\ GoesTo("credentials")
                                   \/ credential' = "RETAINED_BY_REQUEST" /\ job' = Idle
                             \/ /\ SameJob /\ job'.pc = "failed"
                                /\ UNCHANGED <<generation, enabled, sync, credential>>
<1>1. \A b : Fail(GuardError(b)) => SameJob /\ job'.pc = "failed"
  BY Names, FailJob DEF Told
<1> QED
  BY <1>1, Names, MoveJob DEF Tombstone, Local
\* The credentials are cleaned up and the job goes on, or the attempt failed and the job ends.
LEMMA CredentialsJob == ASSUME job \in Jobs, Credentials
                        PROVE  \/ /\ GoesTo(IF Format4(job.op) THEN "finalize" ELSE "exclusive")
                                  /\ \/ Cleaned /\ UNCHANGED <<credential, secrets>>
                                     \/ credential' = "REMOVED" /\ secrets' = "gone"
                                     \/ credential' = "RETAINED_SHARED_OR_LEGACY" /\ UNCHANGED secrets
                               \/ job' = Idle /\ credential' = "CLEANUP_FAILED" /\ secrets' \in {secrets, "gone"}
<1>1. (IF Format4(job.op) THEN "finalize" ELSE "exclusive") \in Steps
  BY Names
<1> QED
  BY <1>1, MoveJob DEF Credentials, Local
\* The retained pair loses the file nobody else uses, or the job ends.
LEMMA ExclusiveJob == ASSUME job \in Jobs, Exclusive
                      PROVE  \/ GoesTo("purge") /\ secrets' = IF credential = "REMOVED" THEN secrets ELSE "gone"
                             \/ job' = Idle /\ UNCHANGED secrets
  BY Names, MoveJob DEF Exclusive, Local
\* The files are gone when the job goes on.
LEMMA PurgeLocalJob == ASSUME job \in Jobs, PurgeLocal
                       PROVE  \/ GoesTo("verify") /\ files' = "gone"
                              \/ Told("failed", "refused") /\ UNCHANGED files
                              \/ Told("failed", "lost") /\ files' \in {files, "gone"}
  BY Names, MoveJob, FailJob DEF PurgeLocal, Local
\* Verified is followed by the end.
LEMMA VerifyJob == ASSUME job \in Jobs, Verify PROVE GoesTo("finalize")
  BY Names, MoveJob DEF Verify, Local
\* The three ends: purged, closed, refused.
LEMMA FinalizeJob == ASSUME job \in Jobs, Finalize
                     PROVE  \/ ~Format4(job.op) /\ Purgeable(job.op) /\ Purge
                            \/ Close(job.op) /\ Format4(job.op)
                            \/ /\ Told("failed", "conflict")
                               /\ UNCHANGED <<present, state, plan, consent, proof, superseded, verified, generation,
                                              credential, archive, request, recovery>>
  BY Names, FailJob DEF Finalize
\* A READY row is dispatched.
LEMMA BeginReadyJob == ASSUME job \in Jobs, BeginReady(job.op)
                       PROVE  SameJob /\ job'.pc = "post" /\ job'.dispatch
  BY SendJob DEF BeginReady
\* A retirement in flight is read first.
LEMMA BeginAgainJob == ASSUME job \in Jobs, BeginAgain(job.op) PROVE GoesTo("get")
  BY Names, MoveJob DEF BeginAgain
\* A refused begin() ends or fails the job.
LEMMA BeginRefusedJob == ASSUME job \in Jobs, BeginRefused(job.op)
                         PROVE  job' = Idle \/ (SameJob /\ job'.pc = "failed")
<1>1. \A b : Fail(GuardError(b)) => SameJob /\ job'.pc = "failed"
  BY Names, FailJob DEF Told
<1> QED
  BY <1>1 DEF BeginRefused

-----------------------------------------------------------------------------
(* A step of the tombstone's generation changes its parity. *)
LEMMA Parity == ASSUME NEW n \in Nat PROVE (n + 1) % 2 = 1 <=> n % 2 # 1
  BY SMTT(30)

(* A job that has ended knows nothing, one that failed only its source. *)
LEMMA IdleKnows == ASSUME job' = Idle PROVE JobKnows'
  BY IdleType DEF JobKnows, JobHeld, JobBefore, JobInFlight, JobLocal, LocalSteps, Cleaning
\* A failed job knows only its source and its operation.
LEMMA FailedKnows == ASSUME job'.pc = "failed", present', job'.op \in Op PROVE JobKnows'
  BY DEF JobKnows, JobHeld, JobBefore, JobInFlight, JobLocal, LocalSteps, Cleaning

(* Whatever else the job does, the rows keep saying what they said. *)
LEMMA RowsKept == ASSUME RowsSay,
                         UNCHANGED <<row, tombstone, state, plan, consent, superseded, request, recovery, work,
                                     gate, disk, intent, receipt, stray, abandoned>>,
                         job'.pc = "await" => state[job'.op] \in Sending
                  PROVE  RowsSay'
<1> USE DEF row, tombstone, disk
<1>1. /\ GoneIsQuiet' /\ GateAlone' /\ RowShape' /\ BusyShape' /\ RequestShape' /\ SecretShape'
      /\ OneInFlight' /\ RefusedIsFinal' /\ ForgottenLast'
  BY SMTT(30) DEF RowsSay, GoneIsQuiet, GateAlone, RowShape, BusyShape, RequestShape, SecretShape, OneInFlight,
         RefusedIsFinal, ForgottenLast, InFlight, Active, Removed, Sealed
<1>2. ConsentFirst'
  BY DEF RowsSay, ConsentFirst, Sending
<1>3. FlightProtected'
  BY DEF RowsSay, FlightProtected, Active, InFlight, StillReviewed, Quiescent, Removed
<1> QED
  BY <1>1, <1>2, <1>3 DEF RowsSay

(* The types of a step that changes nothing but the job. *)
LEMMA JobTyped == ASSUME TypeOK, job' \in Jobs,
                         UNCHANGED <<row, tombstone, journal, request, recovery, work, gate, disk, guard, stray,
                                     abandoned>>,
                         faults' \in 0..MaxFaults
                  PROVE  TypeOK'
  BY SMTT(30) DEF TypeOK, row, tombstone, journal, disk, guard

\* The count of faults stays within its bound.
LEMMA FaultTyped == ASSUME TypeOK, faults' = faults \/ (faults < MaxFaults /\ faults' = faults + 1)
                    PROVE  faults' \in 0..MaxFaults
  BY RetirementAssumption, SMTT(30) DEF TypeOK

-----------------------------------------------------------------------------
(* A job begins. *)
LEMMA ReviewStep == ASSUME IInv, NEW o \in Op, NEW kind \in Kinds, Review(o, kind) PROVE IInv'
<1>1. /\ job' \in Jobs /\ job'.pc = "review" /\ job'.op = o /\ job'.reply = kind
  BY ReviewJob DEF IInv
<1>2. TypeOK'
  BY <1>1, JobTyped DEF IInv, Review, TypeOK
<1>3. JobKnows'
  BY <1>1, RetirementAssumption
     DEF Review, row, journal, JobKnows, JobHeld, JobBefore, JobInFlight, JobLocal, LocalSteps, Cleaning
<1>4. RowsSay'
  BY <1>1, RowsKept DEF IInv, Review, journal, guard
<1> QED
  BY <1>2, <1>3, <1>4 DEF IInv

\* Any start of an execution on a row that exists.
LEMMA StartStep == ASSUME IInv, NEW o \in Op, NEW who \in {"admin", "resume", "queue"},
                          NEW w \in {"keep", "remove"}, Start(o, who, w),
                          state[o] \notin {"none", "FINALIZED"}
                   PROVE  IInv'
<1>1. /\ job' \in Jobs /\ job'.pc = "begin" /\ job'.op = o /\ job'.dispatch = FALSE
  BY StartJob
<1>2. TypeOK'
  BY <1>1, JobTyped DEF IInv, Start, TypeOK
<1>3. present
  BY DEF IInv, RowsSay, GoneIsQuiet
<1>4. JobKnows'
  BY <1>1, <1>3 DEF Start, row, journal, JobKnows, JobHeld, JobBefore, JobInFlight, JobLocal, LocalSteps, Cleaning
<1>5. RowsSay'
  BY <1>1, RowsKept DEF IInv, Start, journal, guard
<1> QED
  BY <1>2, <1>4, <1>5 DEF IInv

\* The queue's review of a waiting request.
LEMMA TickReviewStep == ASSUME IInv, TickReview PROVE IInv'
<1>1. /\ job' \in Jobs /\ job'.op = request.op
      /\ \/ job'.pc = "review" /\ job'.reply = "delete"
         \/ job'.pc = "failed"
  BY TickReviewJob DEF IInv, RowsSay
<1>2. TypeOK'
  BY <1>1, JobTyped DEF IInv, TickReview, TypeOK
<1>3. present /\ request.op \in Op /\ state[request.op] = "none"
  BY DEF IInv, RowsSay, GoneIsQuiet, RequestShape, TickReview, Waiting
<1>4. JobKnows'
  BY <1>1, <1>3 DEF TickReview, row, journal, JobKnows, JobHeld, JobBefore, JobInFlight, JobLocal, LocalSteps, Cleaning
<1>5. RowsSay'
  BY <1>1, RowsKept DEF IInv, TickReview, journal, guard
<1> QED
  BY <1>2, <1>4, <1>5 DEF IInv

(* Who begins one: an administrator, the continuation, the queue. *)
LEMMA BeginsStep == ASSUME IInv,
                           \/ \E o \in Op : (\E kind \in Kinds : Review(o, kind)) \/ Execute(o) \/ Continue(o)
                           \/ TickReview \/ TickExecute
                    PROVE  IInv'
<1>1. ASSUME NEW o \in Op, Execute(o) PROVE IInv'
  BY <1>1, StartStep DEF Execute
<1>2. ASSUME NEW o \in Op, Continue(o) PROVE IInv'
  BY <1>2, StartStep DEF Continue, Pending, Active, InFlight
<1>3. CASE TickExecute
  <2>1. request.op \in Op
    BY <1>3 DEF IInv, RowsSay, RequestShape, TickExecute, Waiting
  <2> QED
    BY <1>3, <2>1, StartStep DEF TickExecute
<1> QED
  BY <1>1, <1>2, <1>3, ReviewStep, TickReviewStep

-----------------------------------------------------------------------------
(* The steps up to the consent. *)

(* What the job is known to work on. *)
LEMMA AtWork == ASSUME IInv, job.pc # "idle"
                PROVE  job \in Jobs /\ present /\ job.op \in Op /\ job.op # 0
  BY RetirementAssumption DEF IInv, JobKnows, JobHeld, TypeOK

\* The guard's review writes an intent for an operation without a row.
LEMMA ReviewCallStep == ASSUME IInv, ReviewCall PROVE IInv'
<1>1. job \in Jobs /\ present /\ job.op \in Op
  BY AtWork DEF ReviewCall
<1>2. state[job.op] = "none" /\ job.reply \in {"delete", "archive"}
  BY DEF IInv, JobKnows, JobBefore, ReviewCall
<1>3. \/ GoesTo("prepare") /\ GuardReview(job.op, job.reply)
      \/ SameJob /\ job'.pc = "failed" /\ (GuardReview(job.op, job.reply) \/ UNCHANGED <<intent, manifest>>)
  BY <1>1, ReviewCallJob DEF Told
<1>4. TypeOK'
  <2>1. intent' \in [Op -> {"none", "delete", "archive"}] /\ manifest' \in [Op -> Inventory]
    BY <1>1, <1>2, <1>3, SMTT(30) DEF IInv, TypeOK, GuardReview
  <2>2. faults' \in 0..MaxFaults
    BY FaultTyped DEF IInv, ReviewCall
  <2> QED
    BY <1>3, <2>1, <2>2, SMTT(30) DEF IInv, ReviewCall, TypeOK, GoesTo, SameJob, row, tombstone, journal, disk
<1>5. JobKnows'
  BY <1>1, <1>2, <1>3, FailedKnows, SMTT(30)
     DEF IInv, ReviewCall, TypeOK, row, journal, GoesTo, SameJob, GuardReview,
         JobKnows, JobHeld, JobBefore, JobInFlight, JobLocal, LocalSteps, Cleaning
<1>6. \A o \in Op : intent[o] # "none" => intent'[o] # "none"
  BY <1>2, <1>3, SMTT(30) DEF GuardReview, IInv, TypeOK
<1>7. RowShape'
  BY <1>6 DEF IInv, RowsSay, RowShape, ReviewCall, journal
<1>8. RowsSay'
  BY <1>3, <1>7, SMTT(30) DEF IInv, ReviewCall, RowsSay, row, tombstone, journal, disk, GoesTo, SameJob, GoneIsQuiet, GateAlone,
         BusyShape, RequestShape, SecretShape, OneInFlight, RefusedIsFinal, ForgottenLast, InFlight, Active,
         Removed, Sealed, ConsentFirst, FlightProtected, StillReviewed, Quiescent
<1> QED
  BY <1>4, <1>5, <1>8 DEF IInv

\* prepare() adds a READY row, which is not in flight.
LEMMA PrepareStep == ASSUME IInv, Prepare PROVE IInv'
<1>1. job \in Jobs /\ present /\ job.op \in Op
  BY AtWork DEF Prepare
<1>2. state[job.op] = "none" /\ intent[job.op] # "none"
  BY DEF IInv, JobKnows, JobBefore, Prepare
<1>3. CASE /\ job' = Idle /\ present
           /\ state' = [state EXCEPT ![job.op] = "READY"]
           /\ plan' = [plan EXCEPT ![job.op] = [revision |-> Current, generation |-> generation]]
  <2>1. [revision |-> Current, generation |-> generation] \in Plan
    BY DEF IInv, TypeOK, Plan, Revision, Current
  <2>2. TypeOK'
    BY <1>1, <1>3, <2>1, IdleType, SMTT(30) DEF IInv, Prepare, TypeOK, row, tombstone, disk, guard
  <2>3. /\ GoneIsQuiet' /\ GateAlone' /\ RowShape' /\ BusyShape' /\ RequestShape' /\ SecretShape'
        /\ RefusedIsFinal' /\ ForgottenLast'
    BY <1>1, <1>2, <1>3, SMTT(30)
       DEF IInv, TypeOK, Prepare, row, tombstone, disk, guard, RowsSay, GoneIsQuiet, GateAlone, RowShape, BusyShape,
           RequestShape, SecretShape, RefusedIsFinal, ForgottenLast, Removed, Sealed
  <2>4. ConsentFirst'
    BY <1>1, <1>2, <1>3, IdleType, SMTT(30) DEF IInv, TypeOK, Prepare, row, guard, RowsSay, ConsentFirst
  <2>5. Active' = Active /\ job.op \notin Active
    BY <1>1, <1>2, <1>3 DEF IInv, TypeOK, Prepare, Active, InFlight
  <2>6. OneInFlight' /\ FlightProtected'
    BY <1>1, <1>2, <1>3, <2>5, SMTT(30)
       DEF IInv, TypeOK, Prepare, row, tombstone, RowsSay, OneInFlight, FlightProtected, StillReviewed, Quiescent, Removed,
           Active, InFlight
  <2> QED
    BY <1>3, <2>2, <2>3, <2>4, <2>6, IdleKnows DEF IInv, RowsSay
<1>4. CASE SameJob /\ job'.pc = "failed" /\ UNCHANGED <<state, plan>>
  <2>1. TypeOK'
    BY <1>4, JobTyped DEF IInv, TypeOK, Prepare, SameJob, journal
  <2>2. JobKnows'
    BY <1>1, <1>4, FailedKnows DEF Prepare, row, SameJob
  <2>3. RowsSay'
    BY <1>4, RowsKept DEF IInv, Prepare, guard
  <2> QED
    BY <2>1, <2>2, <2>3 DEF IInv
<1> QED
  BY <1>1, <1>3, <1>4, PrepareJob

-----------------------------------------------------------------------------
(* begin(), in its four outcomes. *)

\* begin() of a READY row: every other retirement in flight is superseded by it.
LEMMA BeginReadyStep == ASSUME IInv, Begin, BeginReady(job.op) PROVE IInv'
<1> DEFINE o == job.op
<1>1. job \in Jobs /\ present /\ o \in Op
  BY AtWork DEF Begin
<1>2. SameJob /\ job'.pc = "post" /\ job'.dispatch
  BY <1>1, BeginReadyJob
<1>3. /\ state[o] = "READY" /\ o \notin superseded /\ Reviewed(o) /\ Quiescent /\ generation = plan[o].generation
      /\ InFlight \subseteq Supersedes(o) /\ Supersedes(o) \subseteq Op \ {o}
  BY DEF BeginReady, Beginnable, Consented, Supersedes
<1>4. TypeOK'
  <2>1. job.want \in {"keep", "remove"}
    BY <1>1 DEF Jobs
  <2>2. /\ state' \in [Op -> {"none", "READY", "SENDING", "UNCERTAIN", "SUCCEEDED", "BLOCKED", "BUSY", "FINALIZED"}]
        /\ consent' \in [Op -> {"unset", "keep", "remove"}]
        /\ superseded' \subseteq Op
    BY <1>1, <1>3, <2>1 DEF IInv, TypeOK, BeginReady
  <2>3. {superseded', verified', abandoned'} \subseteq SUBSET Op
    <3>1. verified \in SUBSET Op /\ abandoned \in SUBSET Op
      BY DEF IInv, TypeOK
    <3> QED
      BY <2>2, <3>1 DEF Begin
  <2>4. recovery' \in {"none", "PREPARED", "CREDENTIALS_PENDING"} /\ job' \in Jobs
    BY <1>2 DEF BeginReady, SameJob
  <2> QED
    BY <2>2, <2>3, <2>4 DEF IInv, TypeOK, Begin, BeginReady, SameJob, tombstone, disk, guard
<1>5. state' = [state EXCEPT ![o] = "SENDING"] /\ state'[o] = "SENDING" /\ UNCHANGED <<present, receipt, plan>>
  BY <1>1 DEF IInv, TypeOK, Begin, BeginReady, guard
<1>6. Active' = {o}
  BY <1>1, <1>3, <1>5, SMTT(30) DEF IInv, TypeOK, BeginReady, Active, InFlight
<1>7. receipt[o] # "closed"
  BY <1>1, <1>3 DEF IInv, RowsSay, ConsentFirst
<1>8. JobKnows'
  BY <1>1, <1>2, <1>5, <1>6, <1>7
     DEF SameJob, JobKnows, JobHeld, JobBefore, JobInFlight, JobLocal, LocalSteps, Cleaning, Sending
<1>9. OneInFlight' /\ FlightProtected'
  BY <1>1, <1>3, <1>5, <1>6, SMTT(30)
     DEF IInv, TypeOK, Begin, BeginReady, tombstone, OneInFlight, FlightProtected, StillReviewed, Reviewed, Quiescent,
         Current, Plan, Revision
<1>10. ConsentFirst' /\ RefusedIsFinal' /\ ForgottenLast'
  BY <1>1, <1>2, <1>5, SMTT(30)
     DEF IInv, TypeOK, RowsSay, Begin, BeginReady, guard, disk, ConsentFirst, RefusedIsFinal, ForgottenLast, Sealed
<1>11. GoneIsQuiet' /\ GateAlone' /\ RowShape' /\ BusyShape' /\ RequestShape' /\ SecretShape'
  BY <1>1, <1>3, <1>5, SMTT(30)
     DEF IInv, TypeOK, RowsSay, Begin, BeginReady, tombstone, guard, disk, GoneIsQuiet, GateAlone, RowShape, BusyShape,
         RequestShape, SecretShape, Removed
<1> QED
  BY <1>4, <1>8, <1>9, <1>10, <1>11 DEF IInv, RowsSay

\* begin() of a retirement in flight: at most a consent is added.
LEMMA BeginAgainStep == ASSUME IInv, Begin, BeginAgain(job.op) PROVE IInv'
<1> DEFINE o == job.op
<1>1. job \in Jobs /\ present /\ o \in Op /\ ~job.dispatch
  BY AtWork DEF Begin, IInv, JobKnows, JobBefore
<1>2. GoesTo("get")
  BY <1>1, BeginAgainJob
<1>3. o \in Active
  BY DEF BeginAgain, Repeatable, Consented, Active
<1>4. TypeOK'
  <2>1. job.want \in {"keep", "remove"}
    BY <1>1 DEF Jobs
  <2> QED
    BY <1>1, <1>2, <2>1, SMTT(30) DEF IInv, TypeOK, Begin, BeginAgain, GoesTo, SameJob, tombstone, disk, guard
<1>5. JobKnows'
  BY <1>1, <1>2, <1>3
     DEF Begin, BeginAgain, GoesTo, SameJob, JobKnows, JobHeld, JobBefore, JobInFlight, JobLocal, LocalSteps, Cleaning,
         Active, InFlight
<1>6. RowShape'
  BY <1>3, SMTT(30) DEF IInv, TypeOK, RowsSay, RowShape, Begin, BeginAgain, guard, Active, InFlight
<1>7. RowsSay'
  BY <1>2, <1>6, SMTT(30)
     DEF IInv, Begin, BeginAgain, RowsSay, tombstone, guard, disk, GoesTo, SameJob, GoneIsQuiet, GateAlone,
         BusyShape, RequestShape, SecretShape, OneInFlight, RefusedIsFinal, ForgottenLast, InFlight, Active,
         Removed, Sealed, ConsentFirst, FlightProtected, StillReviewed, Quiescent
<1> QED
  BY <1>4, <1>5, <1>7 DEF IInv

\* resume_legacy_busy(): an old refusal comes back into flight, alone.
LEMMA ResumeBusyStep == ASSUME IInv, Begin, ResumeBusy(job.op) PROVE IInv'
<1> DEFINE o == job.op
<1>1. job \in Jobs /\ present /\ o \in Op
  BY AtWork DEF Begin
<1>2. /\ state[o] = "BUSY" /\ o \notin superseded /\ StillReviewed(o) /\ Quiescent /\ InFlight = {}
      /\ job.pc = "begin" /\ ~job.dispatch
  BY DEF Begin, ResumeBusy, Resumable, IInv, JobKnows, JobBefore
<1>3. /\ state' = [state EXCEPT ![o] = "UNCERTAIN"] /\ state'[o] = "UNCERTAIN"
      /\ UNCHANGED <<row, tombstone, plan, consent, superseded, request, recovery, work, gate, disk, guard, stray,
                     abandoned, job>>
  BY <1>1 DEF IInv, TypeOK, Begin, ResumeBusy, row
<1>4. TypeOK'
  BY <1>1, <1>3, SMTT(30) DEF IInv, TypeOK, Begin, row, tombstone, disk, guard
<1>5. Active' = {o}
  BY <1>1, <1>2, <1>3 DEF IInv, TypeOK, Active, InFlight
<1>6. JobKnows'
  BY <1>1, <1>2, <1>3
     DEF row, JobKnows, JobHeld, JobBefore, JobInFlight, JobLocal, LocalSteps, Cleaning
<1>7. archive = 0 => generation = plan[o].generation
  BY <1>1, <1>2 DEF IInv, RowsSay, BusyShape, InFlight
<1>8. OneInFlight' /\ FlightProtected'
  BY <1>2, <1>3, <1>5, <1>7 DEF row, tombstone, OneInFlight, FlightProtected, StillReviewed, Quiescent
<1>9. ConsentFirst' /\ RefusedIsFinal' /\ ForgottenLast'
  BY <1>1, <1>2, <1>3, SMTT(30)
     DEF IInv, TypeOK, RowsSay, row, guard, disk, ConsentFirst, RefusedIsFinal, ForgottenLast, Sealed
<1>10. GoneIsQuiet' /\ GateAlone' /\ RowShape' /\ BusyShape' /\ RequestShape' /\ SecretShape'
  BY <1>1, <1>2, <1>3, SMTT(30)
     DEF IInv, TypeOK, RowsSay, Begin, row, tombstone, guard, disk, GoneIsQuiet, GateAlone, RowShape, BusyShape,
         RequestShape, SecretShape, Removed
<1> QED
  BY <1>4, <1>6, <1>8, <1>9, <1>10 DEF IInv, RowsSay

\* begin() preserves the invariant, whichever way it goes.
LEMMA BeginStep == ASSUME IInv, Begin PROVE IInv'
<1>1. job \in Jobs /\ present /\ job.op \in Op
  BY AtWork DEF Begin
<1>2. CASE BeginRefused(job.op)
  <2>1. job' = Idle \/ (SameJob /\ job'.pc = "failed")
    BY <1>1, <1>2, BeginRefusedJob
  <2>2. UNCHANGED <<row, journal>>
    BY <1>2 DEF Begin, BeginRefused, row, journal
  <2>3. TypeOK'
    BY <1>2, <2>1, <2>2, JobTyped, IdleType DEF IInv, TypeOK, Begin, BeginRefused, SameJob
  <2>4. JobKnows'
    BY <1>1, <2>1, <2>2, IdleKnows, FailedKnows DEF row, SameJob
  <2>5. RowsSay'
    BY <1>2, <2>1, <2>2, RowsKept, IdleType DEF IInv, Begin, BeginRefused, guard, journal
  <2> QED
    BY <2>3, <2>4, <2>5 DEF IInv
<1> QED
  BY <1>2, BeginReadyStep, BeginAgainStep, ResumeBusyStep DEF Begin

-----------------------------------------------------------------------------
(* NetBox: a POST served for an operation the journal has recorded, or one  *)
(* more that its sender gives up on.                                        *)
LEMMA NetBoxRows == ASSUME TypeOK, RowsSay, NEW o \in Op,
                           Serve(o) \/ UNCHANGED <<receipt, inventory>>,
                           ~present \/ state[o] \notin {"none", "READY", "BUSY"},
                           o \in abandoned \/ state[o] # "BLOCKED",
                           UNCHANGED <<row, tombstone, journal, request, recovery, work, gate, disk, intent>>,
                           abandoned \subseteq abandoned',
                           \A p \in Op : stray'[p] > 0 => stray[p] > 0 \/ (p = o /\ o \in abandoned' /\ intent[o] # "none"),
                           job'.pc = "await" => state[job'.op] \in Sending
                    PROVE  RowsSay'
<1>1. \A p \in Op : receipt'[p] = receipt[p] \/ (p = o /\ receipt'[p] = "closed")
  BY DEF Serve, TypeOK
<1>2. GoneIsQuiet' /\ GateAlone' /\ BusyShape' /\ RequestShape' /\ SecretShape' /\ OneInFlight' /\ FlightProtected'
  BY SMTT(30) DEF RowsSay, row, tombstone, journal, disk, GoneIsQuiet, GateAlone, BusyShape, RequestShape, SecretShape,
         OneInFlight, FlightProtected, InFlight, Active, Removed, StillReviewed, Quiescent
<1>3. RowShape'
  BY DEF RowsSay, RowShape, journal
<1>4. ConsentFirst'
  BY <1>1 DEF RowsSay, ConsentFirst, row, journal, Sending
<1>5. RefusedIsFinal'
  BY <1>1 DEF RowsSay, RefusedIsFinal, journal
<1>6. ForgottenLast'
  BY <1>1 DEF RowsSay, ForgottenLast, Sealed, row, disk
<1> QED
  BY <1>2, <1>3, <1>4, <1>5, <1>6 DEF RowsSay

(* The types of the guard's tables and of the POSTs under way. *)
LEMMA ServeTyped == ASSUME TypeOK, NEW o \in Op, Serve(o) \/ UNCHANGED <<receipt, inventory>>
                    PROVE  receipt' \in [Op -> {"none", "open", "closed"}] /\ inventory' \in Inventory
  BY RetirementAssumption, SMTT(30) DEF TypeOK, Serve, Inventory

(* What the answer leaves of the job: it is to be recorded. *)
LEMMA RecordKnows == ASSUME IInv, SameJob, job'.pc = "record", job.op \in Active, UNCHANGED <<present, state, superseded>>,
                            present, job.op \in Op,
                            job'.reply \in {"SUCCEEDED", "REVIEWED", "refused", "busy", "lost"},
                            job'.reply = "SUCCEEDED" => receipt'[job.op] # "none",
                            job'.reply = "REVIEWED" \/ DefiniteRefusal' =>
                                 receipt'[job.op] # "closed" \/ job.op \in abandoned'
                     PROVE  JobKnows'
  BY DEF SameJob, JobKnows, JobHeld, JobBefore, JobInFlight, JobLocal, LocalSteps, Cleaning, Active, InFlight

\* The POST leaves only for a retirement the journal has in flight.
LEMMA PostStep == ASSUME IInv, Post PROVE IInv'
<1>1. job \in Jobs /\ present /\ job.op \in Op
  BY AtWork DEF Post
<1>2. /\ job.op \in Active /\ state[job.op] \in Sending
      /\ receipt[job.op] # "closed" \/ job.op \in abandoned
  BY DEF IInv, JobKnows, JobInFlight, Post
<1>3. GoesTo("await") \/ Told("record", "refused")
  BY <1>1, PostJob
<1>4. TypeOK'
  <2>1. faults' \in 0..MaxFaults
    BY FaultTyped DEF IInv, Post
  <2> QED
    BY <1>3, <2>1, JobTyped DEF IInv, Post, GoesTo, Told, SameJob
<1>5. RowsSay'
  BY <1>2, <1>3, RowsKept DEF IInv, Post, journal, guard, GoesTo, Told, SameJob
<1>6. JobKnows'
  <2>1. CASE GoesTo("await")
    BY <1>1, <1>2, <2>1
       DEF Post, row, journal, guard, GoesTo, SameJob, JobKnows, JobHeld, JobBefore, JobInFlight, JobLocal, LocalSteps,
           Cleaning, Active, InFlight
  <2>2. CASE Told("record", "refused")
    BY <1>1, <1>2, <2>2, RecordKnows DEF Post, row, journal, guard, Told
  <2> QED
    BY <1>3, <2>1, <2>2
<1> QED
  BY <1>4, <1>5, <1>6 DEF IInv

\* The answer: a served POST has a receipt, a refused one has left none of its own.
LEMMA AnswerStep == ASSUME IInv, Answer PROVE IInv'
<1>1. job \in Jobs /\ present /\ job.op \in Op
  BY AtWork DEF Answer
<1>2. /\ job.op \in Active /\ state[job.op] \in Sending
      /\ receipt[job.op] # "closed" \/ job.op \in abandoned
  BY DEF IInv, JobKnows, JobInFlight, Answer
<1>3. /\ SameJob /\ job'.pc = "record" /\ job'.reply \in {"SUCCEEDED", "refused", "busy"}
      /\ \/ job'.reply = "SUCCEEDED" /\ Serve(job.op)
         \/ job'.reply # "SUCCEEDED" /\ UNCHANGED <<receipt, inventory>>
  BY <1>1, AnswerJob DEF Told
<1>4. TypeOK'
  <2>1. receipt' \in [Op -> {"none", "open", "closed"}] /\ inventory' \in Inventory
    BY <1>1, <1>3, ServeTyped DEF IInv
  <2>2. faults' \in 0..MaxFaults
    BY FaultTyped DEF IInv, Answer
  <2> QED
    BY <1>3, <2>1, <2>2, SMTT(30) DEF IInv, TypeOK, Answer, SameJob, row, tombstone, journal, disk
<1>5. RowsSay'
  BY <1>1, <1>2, <1>3, NetBoxRows DEF IInv, Answer, SameJob, Sending
<1>6. job'.reply = "SUCCEEDED" => receipt'[job.op] # "none"
  BY <1>1, <1>3, SMTT(30) DEF IInv, TypeOK, Serve
<1>7. JobKnows'
  BY <1>1, <1>2, <1>3, <1>6, RecordKnows DEF Answer, row, journal, DefiniteRefusal
<1> QED
  BY <1>4, <1>5, <1>7 DEF IInv

\* A lost answer: the operation is remembered as abandoned when its POST may still be served.
LEMMA LoseAnswerStep == ASSUME IInv, LoseAnswer PROVE IInv'
<1>1. job \in Jobs /\ present /\ job.op \in Op
  BY AtWork DEF LoseAnswer
<1>2. job.op \in Active /\ state[job.op] \in Sending /\ intent[job.op] # "none"
  BY <1>1 DEF IInv, JobKnows, JobInFlight, LoseAnswer, RowsSay, RowShape, Sending
<1>3. SameJob /\ job'.pc = "record" /\ job'.reply = "lost"
  BY <1>1, LoseAnswerJob DEF Told
<1>4. Serve(job.op) \/ UNCHANGED <<receipt, inventory>>
  BY DEF LoseAnswer
<1>5. /\ stray' \in [Op -> Nat] /\ abandoned' \in SUBSET Op /\ abandoned \subseteq abandoned'
      /\ \A p \in Op : stray'[p] > 0 => stray[p] > 0 \/ (p = job.op /\ job.op \in abandoned')
  BY <1>1, SMTT(30) DEF IInv, TypeOK, LoseAnswer
<1>6. TypeOK'
  <2>1. receipt' \in [Op -> {"none", "open", "closed"}] /\ inventory' \in Inventory
    BY <1>1, <1>4, ServeTyped DEF IInv
  <2>2. faults' \in 0..MaxFaults
    BY FaultTyped DEF IInv, LoseAnswer
  <2> QED
    BY <1>3, <1>5, <2>1, <2>2, SMTT(30) DEF IInv, TypeOK, LoseAnswer, SameJob, row, tombstone, journal, disk
<1>7. RowsSay'
  BY <1>1, <1>2, <1>3, <1>4, <1>5, NetBoxRows DEF IInv, LoseAnswer, Sending
<1>8. JobKnows'
  BY <1>1, <1>2, <1>3, RecordKnows DEF LoseAnswer, row, journal, DefiniteRefusal
<1> QED
  BY <1>6, <1>7, <1>8 DEF IInv

\* A stray POST is served for an abandoned operation only.
LEMMA ServeStrayStep == ASSUME IInv, NEW o \in Op, ServeStray(o) PROVE IInv'
<1>1. /\ stray[o] > 0 /\ o \in abandoned /\ (~present \/ state[o] \notin {"none", "READY", "BUSY"})
      /\ Serve(o) \/ UNCHANGED <<receipt, inventory>>
  BY DEF ServeStray, IInv, RowsSay, RowShape, ConsentFirst
<1>2. stray' \in [Op -> Nat] /\ \A p \in Op : stray'[p] > 0 => stray[p] > 0
  BY <1>1, SMTT(30) DEF ServeStray, IInv, TypeOK
<1>3. TypeOK'
  <2>1. receipt' \in [Op -> {"none", "open", "closed"}] /\ inventory' \in Inventory
    BY <1>1, ServeTyped DEF IInv
  <2> QED
    BY <1>2, <2>1, SMTT(30) DEF IInv, TypeOK, ServeStray, row, tombstone, journal, disk
<1>4. job.pc = "await" => state[job.op] \in Sending
  BY DEF IInv, JobKnows, JobInFlight
<1>5. RowsSay'
  BY <1>1, <1>2, <1>4, NetBoxRows DEF IInv, ServeStray
<1>6. \A p \in Op : receipt'[p] = receipt[p] \/ (p = o /\ receipt'[p] = "closed")
  BY <1>1 DEF Serve, IInv, TypeOK
<1>7. JobHeld' /\ JobBefore'
  BY DEF IInv, ServeStray, row, journal, JobKnows, JobHeld, JobBefore
<1>8. JobInFlight'
  BY <1>1, <1>6, SMTT(30)
     DEF IInv, TypeOK, ServeStray, journal, JobKnows, JobHeld, JobInFlight, Active, InFlight, DefiniteRefusal, Idle
<1>9. JobLocal'
  BY <1>6
     DEF IInv, TypeOK, ServeStray, tombstone, journal, disk, JobKnows, JobHeld, JobLocal, LocalSteps, Cleaning,
         Active, InFlight, Removed, Cleaned, Format4
<1>10. JobKnows'
  BY <1>7, <1>8, <1>9 DEF JobKnows
<1> QED
  BY <1>3, <1>5, <1>10 DEF IInv

\* Changes of the source's objects touch neither journal nor job.
LEMMA InventoryStep == ASSUME IInv, InventoryChanges PROVE IInv'
<1>1. TypeOK'
  BY RetirementAssumption, SMTT(30) DEF IInv, TypeOK, InventoryChanges, Inventory, row, tombstone, journal, disk
<1>2. RowsSay'
  BY RowsKept DEF IInv, InventoryChanges, JobKnows, JobInFlight, journal
<1>3. JobKnows'
  BY DEF IInv, InventoryChanges, row, tombstone, journal, disk, JobKnows, JobHeld, JobBefore, JobInFlight, JobLocal,
         LocalSteps, Cleaning, Active, InFlight, DefiniteRefusal, Removed, Cleaned, Format4
<1> QED
  BY <1>1, <1>2, <1>3 DEF IInv

\* The read of the receipt tells the job what is there.
LEMMA GetStep == ASSUME IInv, Get PROVE IInv'
<1>1. job \in Jobs /\ present /\ job.op \in Op
  BY AtWork DEF Get
<1>2. job.op \in Active
  BY DEF IInv, JobKnows, JobInFlight, Get
<1>3. /\ SameJob /\ job'.pc = "record" /\ job'.reply \in {"SUCCEEDED", "REVIEWED", "lost"}
      /\ job'.reply = "SUCCEEDED" => receipt[job.op] # "none"
      /\ job'.reply = "REVIEWED" => receipt[job.op] = "none"
  BY <1>1, GetJob DEF Told
<1>4. TypeOK'
  <2>1. faults' \in 0..MaxFaults
    BY FaultTyped DEF IInv, Get
  <2> QED
    BY <1>3, <2>1, JobTyped DEF IInv, Get, SameJob
<1>5. RowsSay'
  BY <1>3, RowsKept DEF IInv, Get, journal, guard
<1>6. JobKnows'
  BY <1>1, <1>2, <1>3, RecordKnows DEF Get, row, journal, guard, DefiniteRefusal
<1> QED
  BY <1>4, <1>5, <1>6 DEF IInv

(* The answer is recorded of a retirement in flight, and only of that one. *)
LEMMA RecordRows == ASSUME TypeOK, RowsSay, present, gate = "free", NEW o \in Active,
                           NEW s \in {"SUCCEEDED", "UNCERTAIN", "BLOCKED"},
                           state' = [state EXCEPT ![o] = s],
                           state[o] = "SUCCEEDED" => s = "SUCCEEDED",
                           s = "BLOCKED" => receipt[o] # "closed" \/ o \in abandoned,
                           UNCHANGED <<row, tombstone, plan, consent, superseded, request, recovery, work, gate, disk,
                                       guard, stray, abandoned>>,
                           job'.pc # "await"
                    PROVE  RowsSay' /\ (s # "BLOCKED" => Active' = Active)
<1>1. o \in Op /\ state[o] \in {"SENDING", "UNCERTAIN", "SUCCEEDED"} /\ o \notin superseded
  BY DEF Active, InFlight
<1>2. \A p \in Op : state'[p] = IF p = o THEN s ELSE state[p]
  BY DEF TypeOK
<1>3. Active' = IF s = "BLOCKED" THEN Active \ {o} ELSE Active
  BY <1>1, <1>2 DEF Active, InFlight
<1>4. OneInFlight'
  BY <1>3 DEF RowsSay, OneInFlight
<1>5. FlightProtected'
  BY <1>1, <1>2, <1>3
     DEF RowsSay, row, tombstone, FlightProtected, StillReviewed, Quiescent, Removed, Active, InFlight
<1>6. ConsentFirst' /\ RefusedIsFinal' /\ ForgottenLast'
  BY <1>1, <1>2 DEF RowsSay, row, guard, disk, ConsentFirst, RefusedIsFinal, ForgottenLast, Sealed
<1>7. GoneIsQuiet' /\ GateAlone' /\ RowShape' /\ RequestShape' /\ SecretShape'
  BY <1>1, <1>2
     DEF RowsSay, row, tombstone, guard, disk, GoneIsQuiet, GateAlone, RowShape, RequestShape, SecretShape, Removed
<1>8. BusyShape'
  <2>1. (\A p \in Op : state'[p] # "SUCCEEDED") => \A p \in Op : state[p] # "SUCCEEDED"
    BY <1>1, <1>2
  <2> QED
    BY <1>1, <1>2, <2>1 DEF RowsSay, BusyShape, tombstone
<1> QED
  BY <1>3, <1>4, <1>5, <1>6, <1>7, <1>8 DEF RowsSay

\* The record of the answer, in its four outcomes.
LEMMA RecordStep == ASSUME IInv, Record PROVE IInv'
<1> DEFINE o == job.op
<1>1. job \in Jobs /\ present /\ o \in Op
  BY AtWork DEF Record
<1>2. /\ o \in Active
      /\ job.reply = "SUCCEEDED" => receipt[o] # "none"
      /\ job.reply = "REVIEWED" \/ DefiniteRefusal => receipt[o] # "closed" \/ o \in abandoned
      /\ state[o] # "SUCCEEDED" => state[o] \in Sending
  BY DEF IInv, JobKnows, JobInFlight, Record, Active, InFlight, Sending
<1>3. ASSUME NEW s \in {"SUCCEEDED", "UNCERTAIN", "BLOCKED"}, state' = [state EXCEPT ![o] = s],
             proof' \in [Op -> {"none", "open", "closed"}], job' \in Jobs
      PROVE  TypeOK'
  <2>1. state' \in [Op -> {"none", "READY", "SENDING", "UNCERTAIN", "SUCCEEDED", "BLOCKED", "BUSY", "FINALIZED"}]
    BY <1>3 DEF IInv, TypeOK
  <2> QED
    BY <1>3, <2>1, SMTT(30) DEF IInv, TypeOK, Record, row, tombstone, disk, guard
<1>4. CASE /\ job.reply = "SUCCEEDED"
           /\ state[o] # "SUCCEEDED" \/ proof[o] = receipt[o]
           /\ state' = [state EXCEPT ![o] = "SUCCEEDED"]
           /\ proof' = [proof EXCEPT ![o] = receipt[o]]
           /\ \/ receipt[o] = "closed" /\ GoesTo("guard")
              \/ receipt[o] # "closed" /\ Told("failed", "conflict")
  <2>1. TypeOK'
    BY <1>1, <1>3, <1>4 DEF IInv, TypeOK, GoesTo, Told, SameJob
  <2>2. RowsSay' /\ Active' = Active
    BY <1>1, <1>2, <1>4, RecordRows DEF IInv, Record, GoesTo, Told
  <2>3. JobKnows'
    <3>1. CASE receipt[o] = "closed" /\ GoesTo("guard")
      BY <1>1, <1>2, <1>4, <2>2, <3>1
         DEF IInv, TypeOK, Record, row, guard, GoesTo, SameJob, JobKnows, JobHeld, JobBefore, JobInFlight, JobLocal,
             LocalSteps, Cleaning
    <3>2. CASE Told("failed", "conflict")
      BY <1>1, <3>2, FailedKnows DEF Record, row, Told, SameJob
    <3> QED
      BY <1>4, <3>1, <3>2
  <2> QED
    BY <2>1, <2>2, <2>3 DEF IInv
<1>5. CASE Told("failed", "refused") /\ UNCHANGED <<state, proof>>
  <2>1. TypeOK'
    BY <1>5, JobTyped DEF IInv, TypeOK, Record, Told, SameJob, journal
  <2>2. JobKnows'
    BY <1>1, <1>5, FailedKnows DEF Record, row, Told, SameJob
  <2>3. RowsSay'
    BY <1>5, RowsKept DEF IInv, Record, guard, Told
  <2> QED
    BY <2>1, <2>2, <2>3 DEF IInv
<1>6. CASE /\ job.reply = "REVIEWED" /\ state[o] # "SUCCEEDED"
           /\ SameJob /\ job'.pc = "post" /\ job'.dispatch
           /\ UNCHANGED <<state, proof>>
  <2>1. TypeOK'
    BY <1>6, JobTyped DEF IInv, TypeOK, Record, SameJob, journal
  <2>2. JobKnows'
    BY <1>1, <1>2, <1>6
       DEF Record, row, guard, SameJob, JobKnows, JobHeld, JobBefore, JobInFlight, JobLocal, LocalSteps, Cleaning,
           Active, InFlight
  <2>3. RowsSay'
    BY <1>6, RowsKept DEF IInv, Record, guard
  <2> QED
    BY <2>1, <2>2, <2>3 DEF IInv
<1>7. CASE /\ state[o] # "SUCCEEDED" /\ job' = Idle /\ UNCHANGED proof
           /\ \/ state' = [state EXCEPT ![o] = "UNCERTAIN"]
              \/ DefiniteRefusal /\ state' = [state EXCEPT ![o] = "BLOCKED"]
  <2>1. PICK s \in {"UNCERTAIN", "BLOCKED"} : /\ state' = [state EXCEPT ![o] = s]
                                              /\ s = "BLOCKED" => receipt[o] # "closed" \/ o \in abandoned
    BY <1>2, <1>7
  <2>2. TypeOK'
    BY <1>3, <1>7, <2>1, IdleType DEF IInv, TypeOK
  <2>3. RowsSay'
    BY <1>1, <1>2, <1>7, <2>1, RecordRows, IdleType DEF IInv, Record
  <2> QED
    BY <1>7, <2>2, <2>3, IdleKnows DEF IInv
<1> QED
  BY <1>1, <1>4, <1>5, <1>6, <1>7, RecordJob

-----------------------------------------------------------------------------
(* The local half. *)

(* What the job knows of the retirement it finishes. *)
LEMMA AtLocalWork == ASSUME IInv, job.pc \in LocalSteps
                     PROVE  /\ job \in Jobs /\ present /\ job.op \in Op /\ job.op # 0 /\ job.op \in Active
                            /\ state[job.op] = "SUCCEEDED" /\ receipt[job.op] = "closed" /\ proof[job.op] = "closed"
  BY AtWork DEF IInv, JobKnows, JobLocal, LocalSteps

\* The local guard only moves the job.
LEMMA LocalGuardStep == ASSUME IInv, LocalGuard PROVE IInv'
<1>1. /\ job \in Jobs /\ present /\ job.op \in Op /\ job.op \in Active
      /\ state[job.op] = "SUCCEEDED" /\ receipt[job.op] = "closed" /\ proof[job.op] = "closed"
  BY AtLocalWork DEF LocalGuard, LocalSteps
<1>2. \/ GoesTo("tombstone")
      \/ GoesTo("credentials") /\ Removed /\ consent[job.op] = "remove"
      \/ job' = Idle
      \/ SameJob /\ job'.pc = "failed"
  BY <1>1, LocalGuardJob
<1>3. job' \in Jobs /\ job'.pc # "await"
  BY <1>2, IdleType DEF GoesTo, SameJob
<1>4. TypeOK'
  BY <1>3, JobTyped DEF IInv, TypeOK, LocalGuard
<1>5. RowsSay'
  BY <1>3, RowsKept DEF IInv, LocalGuard, journal, guard
<1>6. JobKnows'
  <2>1. CASE GoesTo("tombstone") \/ (GoesTo("credentials") /\ Removed /\ consent[job.op] = "remove")
    BY <1>1, <2>1
       DEF LocalGuard, row, tombstone, journal, guard, GoesTo, SameJob, JobKnows, JobHeld, JobBefore, JobInFlight,
           JobLocal, LocalSteps, Cleaning, Active, InFlight, Removed
  <2> QED
    BY <1>1, <1>2, <2>1, IdleKnows, FailedKnows DEF LocalGuard, row, SameJob
<1> QED
  BY <1>4, <1>5, <1>6 DEF IInv

\* The tombstone: the generation becomes odd, one above the reviewed one.
LEMMA TombstoneStep == ASSUME IInv, Tombstone PROVE IInv'
<1> DEFINE o == job.op
<1>1. /\ job \in Jobs /\ present /\ o \in Op /\ o \in Active
      /\ state[o] = "SUCCEEDED" /\ receipt[o] = "closed" /\ proof[o] = "closed"
  BY AtLocalWork DEF Tombstone, LocalSteps
<1>2. CASE /\ ~Removed /\ generation' = generation + 1 /\ enabled' = FALSE /\ sync' = FALSE
           /\ \/ /\ consent[o] = "remove"
                 /\ credential' = "CLEANUP_FAILED" /\ GoesTo("credentials")
              \/ credential' = "RETAINED_BY_REQUEST" /\ job' = Idle
  <2>1. generation \in Nat /\ generation' \in Nat /\ Removed'
    BY <1>2, Parity, SMTT(30) DEF IInv, TypeOK, Removed
  <2>2. TypeOK'
    <3>1. job' \in Jobs
      BY <1>2, IdleType DEF GoesTo, SameJob
    <3>2. credential' \in {"RETAINED_BY_REQUEST", "CLEANUP_FAILED"}
      BY <1>2
    <3>3. UNCHANGED <<present, edit, archive, journal, request, recovery, work, gate, disk, guard, stray, abandoned, faults>> /\ enabled' = FALSE /\ sync' = FALSE
      BY <1>2 DEF Tombstone
    <3>4. ({present, enabled, sync} \subseteq BOOLEAN)'
      BY <3>3, Zenon DEF IInv, TypeOK
    <3>5. (/\ edit \in Edit /\ archive \in Op \cup {0}
           /\ recovery \in {"none", "PREPARED", "CREDENTIALS_PENDING"}
           /\ work \in {"idle", "operation", "orphaned", "accepted", "applying", "finishing", "unconfirmed"}
           /\ gate \in {"free", "schedule", "credentials"} /\ {secrets, files} \subseteq {"kept", "gone"}
           /\ faults \in 0..MaxFaults /\ stray \in [Op -> Nat])'
      BY <3>3 DEF IInv, TypeOK, disk
    <3> QED
      BY <2>1, <3>1, <3>2, <3>3, <3>4, <3>5 DEF IInv, TypeOK, journal, guard
  <2>3. Active' = Active /\ \A p \in Active : p = o
    BY <1>1 DEF IInv, RowsSay, OneInFlight, Tombstone, journal, Active, InFlight
  <2>4. FlightProtected'
    BY <1>1, <1>2, <2>1, <2>3
       DEF IInv, RowsSay, Tombstone, journal, FlightProtected, StillReviewed, Quiescent
  <2>5. BusyShape'
    BY <1>1 DEF BusyShape, Tombstone, journal, IInv, RowsSay
  <2>6. job'.pc # "await"
    BY <1>2, IdleType DEF GoesTo
  <2>7. RowsSay'
    BY <1>1, <1>2, <2>3, <2>4, <2>5, <2>6
       DEF IInv, Tombstone, journal, guard, disk, RowsSay, GoneIsQuiet, GateAlone, RowShape, RequestShape,
           SecretShape, OneInFlight, ConsentFirst, RefusedIsFinal, ForgottenLast, Sealed
  <2>8. JobKnows'
    <3>1. CASE consent[o] = "remove" /\ GoesTo("credentials")
      BY <1>1, <2>1, <2>3, <3>1
         DEF Tombstone, journal, guard, GoesTo, SameJob, JobKnows, JobHeld, JobBefore, JobInFlight, JobLocal,
             LocalSteps, Cleaning
    <3> QED
      BY <1>2, <3>1, IdleKnows
  <2> QED
    BY <2>2, <2>7, <2>8 DEF IInv
<1>3. CASE SameJob /\ job'.pc = "failed" /\ UNCHANGED <<generation, enabled, sync, credential>>
  <2>1. UNCHANGED <<row, tombstone>>
    BY <1>3 DEF Tombstone, row, tombstone
  <2>2. TypeOK'
    BY <1>3, <2>1, JobTyped DEF IInv, TypeOK, Tombstone, SameJob
  <2>3. JobKnows'
    BY <1>1, <1>3, FailedKnows DEF Tombstone, SameJob
  <2>4. RowsSay'
    BY <1>3, <2>1, RowsKept DEF IInv, Tombstone, journal, guard
  <2> QED
    BY <2>2, <2>3, <2>4 DEF IInv
<1> QED
  BY <1>1, <1>2, <1>3, TombstoneJob

(* While the job holds the lock, only the files change. *)
LEMMA FilesRows == ASSUME RowsSay, present, SecretShape',
                          UNCHANGED <<row, generation, archive, state, plan, consent, superseded, request, recovery,
                                      work, gate, intent, receipt, stray, abandoned>>,
                          job'.pc # "await"
                   PROVE  RowsSay'
<1> USE DEF row
<1>1. GoneIsQuiet' /\ GateAlone' /\ RequestShape' /\ OneInFlight' /\ ForgottenLast'
  BY DEF RowsSay, GoneIsQuiet, GateAlone, RequestShape, OneInFlight, ForgottenLast, InFlight, Active
<1>2. RowShape' /\ BusyShape'
  BY DEF RowsSay, RowShape, BusyShape
<1>3. RefusedIsFinal' /\ ConsentFirst'
  BY DEF RowsSay, RefusedIsFinal, ConsentFirst
<1>4. FlightProtected'
  BY DEF RowsSay, FlightProtected, Active, InFlight, StillReviewed, Quiescent, Removed
<1> QED
  BY <1>1, <1>2, <1>3, <1>4 DEF RowsSay

\* The credentials go by consent and after the receipt.
LEMMA CredentialsStep == ASSUME IInv, Credentials PROVE IInv'
<1> DEFINE o == job.op
<1>1. /\ job \in Jobs /\ present /\ o \in Op /\ o \in Active
      /\ state[o] = "SUCCEEDED" /\ receipt[o] = "closed" /\ proof[o] = "closed"
  BY AtLocalWork DEF Credentials, LocalSteps
<1>2. consent[o] = "remove" /\ Removed /\ (credential = "REMOVED" => secrets = "gone")
  BY DEF IInv, JobKnows, JobLocal, Cleaning, Credentials, RowsSay, SecretShape
<1>3. CASE /\ GoesTo(IF Format4(o) THEN "finalize" ELSE "exclusive")
           /\ \/ Cleaned /\ UNCHANGED <<credential, secrets>>
              \/ credential' = "REMOVED" /\ secrets' = "gone"
              \/ credential' = "RETAINED_SHARED_OR_LEGACY" /\ UNCHANGED secrets
  <2>1. Cleaned' /\ SecretShape' /\ job'.pc # "await"
    BY <1>2, <1>3 DEF Cleaned, SecretShape, GoesTo
  <2>2. TypeOK'
    <3>1. faults' \in 0..MaxFaults
      BY FaultTyped DEF IInv, Credentials
    <3>2. secrets' \in {"kept", "gone"} /\ files' \in {"kept", "gone"}
      BY <1>3 DEF IInv, TypeOK, Credentials
    <3>3. {secrets', files'} \subseteq {"kept", "gone"} /\ job' \in Jobs
      BY <1>3, <3>2 DEF GoesTo, SameJob
    <3>4. credential' \in {"live", "RETAINED_BY_REQUEST", "CLEANUP_FAILED", "REMOVED", "RETAINED_SHARED_OR_LEGACY"}
      BY <1>3 DEF IInv, TypeOK
    <3> QED
      BY <3>1, <3>3, <3>4, SMTT(30) DEF IInv, TypeOK, Credentials, row, journal, guard
  <2>3. RowsSay'
    BY <1>1, <2>1, FilesRows DEF IInv, Credentials, journal, guard
  <2>4. JobKnows'
    BY <1>1, <1>2, <1>3, <2>1
       DEF Credentials, row, journal, guard, GoesTo, SameJob, JobKnows, JobHeld, JobBefore, JobInFlight, JobLocal,
           LocalSteps, Cleaning, Active, InFlight, Removed, Format4
  <2> QED
    BY <2>2, <2>3, <2>4 DEF IInv
<1>4. CASE job' = Idle /\ credential' = "CLEANUP_FAILED" /\ secrets' \in {secrets, "gone"}
  <2>1. SecretShape' /\ job'.pc # "await"
    BY <1>4, IdleType DEF SecretShape
  <2>2. TypeOK'
    <3>1. faults' \in 0..MaxFaults
      BY FaultTyped DEF IInv, Credentials
    <3>2. secrets' \in {"kept", "gone"} /\ files' \in {"kept", "gone"}
      BY <1>4 DEF IInv, TypeOK, Credentials
    <3>3. {secrets', files'} \subseteq {"kept", "gone"} /\ job' \in Jobs
      BY <1>4, <3>2, IdleType
    <3>4. credential' \in {"live", "RETAINED_BY_REQUEST", "CLEANUP_FAILED", "REMOVED", "RETAINED_SHARED_OR_LEGACY"}
      BY <1>4
    <3> QED
      BY <3>1, <3>3, <3>4, SMTT(30) DEF IInv, TypeOK, Credentials, row, journal, guard
  <2>3. RowsSay'
    BY <1>1, <2>1, FilesRows DEF IInv, Credentials, journal, guard
  <2> QED
    BY <1>4, <2>2, <2>3, IdleKnows DEF IInv
<1> QED
  BY <1>1, <1>3, <1>4, CredentialsJob

\* After this step no credential file that only this source used is left.
LEMMA ExclusiveStep == ASSUME IInv, Exclusive PROVE IInv'
<1> DEFINE o == job.op
<1>1. /\ job \in Jobs /\ present /\ o \in Op /\ o \in Active
      /\ state[o] = "SUCCEEDED" /\ receipt[o] = "closed" /\ proof[o] = "closed"
  BY AtLocalWork DEF Exclusive, LocalSteps
<1>2. /\ consent[o] = "remove" /\ Removed /\ Cleaned /\ ~Format4(o)
      /\ credential = "REMOVED" => secrets = "gone"
  BY DEF IInv, JobKnows, JobLocal, Cleaning, Exclusive, RowsSay, SecretShape
<1>3. \/ GoesTo("purge") /\ secrets' = "gone"
      \/ job' = Idle /\ UNCHANGED secrets
  BY <1>1, <1>2, ExclusiveJob
<1>4. SecretShape' /\ job'.pc # "await"
  BY <1>2, <1>3, IdleType DEF SecretShape, Exclusive, tombstone, GoesTo
<1>5. TypeOK'
  <2>1. faults' \in 0..MaxFaults
    BY FaultTyped DEF IInv, Exclusive
  <2>2. secrets' \in {"kept", "gone"} /\ files' \in {"kept", "gone"}
    BY <1>3 DEF IInv, TypeOK, Exclusive
  <2>3. {secrets', files'} \subseteq {"kept", "gone"} /\ job' \in Jobs
    BY <1>3, <2>2, IdleType DEF GoesTo, SameJob
  <2> QED
    BY <2>1, <2>3, SMTT(30) DEF IInv, TypeOK, Exclusive, row, tombstone, journal, guard
<1>6. RowsSay'
  BY <1>1, <1>4, FilesRows DEF IInv, Exclusive, tombstone, journal, guard
<1>7. CASE GoesTo("purge") /\ secrets' = "gone"
  <2>1. JobKnows'
    BY <1>1, <1>2, <1>7
       DEF Exclusive, row, tombstone, journal, guard, GoesTo, SameJob, JobKnows, JobHeld, JobBefore, JobInFlight,
           JobLocal, LocalSteps, Cleaning, Active, InFlight, Removed, Cleaned, Format4
  <2> QED
    BY <1>5, <1>6, <2>1 DEF IInv
<1> QED
  BY <1>3, <1>5, <1>6, <1>7, IdleKnows DEF IInv

\* After this step no journal of NetBox requests is left.
LEMMA PurgeLocalStep == ASSUME IInv, PurgeLocal PROVE IInv'
<1> DEFINE o == job.op
<1>1. /\ job \in Jobs /\ present /\ o \in Op /\ o \in Active
      /\ state[o] = "SUCCEEDED" /\ receipt[o] = "closed" /\ proof[o] = "closed"
  BY AtLocalWork DEF PurgeLocal, LocalSteps
<1>2. consent[o] = "remove" /\ Removed /\ Cleaned /\ ~Format4(o) /\ secrets = "gone"
  BY DEF IInv, JobKnows, JobLocal, Cleaning, PurgeLocal
<1>3. \/ GoesTo("verify") /\ files' = "gone"
      \/ SameJob /\ job'.pc = "failed" /\ files' \in {files, "gone"}
  BY <1>1, PurgeLocalJob DEF Told
<1>4. SecretShape' /\ job'.pc # "await" /\ job' \in Jobs
  BY <1>2, <1>3 DEF SecretShape, PurgeLocal, tombstone, GoesTo, SameJob
<1>5. TypeOK'
  <2>1. faults' \in 0..MaxFaults
    BY FaultTyped DEF IInv, PurgeLocal
  <2>2. secrets' \in {"kept", "gone"} /\ files' \in {"kept", "gone"}
    BY <1>3 DEF IInv, TypeOK, PurgeLocal
  <2>3. {secrets', files'} \subseteq {"kept", "gone"}
    BY <2>2
  <2> QED
    BY <1>4, <2>1, <2>3, SMTT(30) DEF IInv, TypeOK, PurgeLocal, row, tombstone, journal, guard
<1>6. RowsSay'
  BY <1>1, <1>4, FilesRows DEF IInv, PurgeLocal, tombstone, journal, guard
<1>7. JobKnows'
  <2>1. CASE GoesTo("verify") /\ files' = "gone"
    BY <1>1, <1>2, <2>1
       DEF PurgeLocal, row, tombstone, journal, guard, GoesTo, SameJob, JobKnows, JobHeld, JobBefore, JobInFlight,
           JobLocal, LocalSteps, Cleaning, Active, InFlight, Removed, Cleaned, Format4
  <2> QED
    BY <1>1, <1>3, <2>1, FailedKnows DEF PurgeLocal, row, SameJob
<1> QED
  BY <1>5, <1>6, <1>7 DEF IInv

\* The verified flag is written when both are gone.
LEMMA VerifyStep == ASSUME IInv, Verify PROVE IInv'
<1> DEFINE o == job.op
<1>1. /\ job \in Jobs /\ present /\ o \in Op /\ o \in Active
      /\ state[o] = "SUCCEEDED" /\ receipt[o] = "closed" /\ proof[o] = "closed"
  BY AtLocalWork DEF Verify, LocalSteps
<1>2. consent[o] = "remove" /\ Removed /\ Cleaned /\ ~Format4(o) /\ secrets = "gone" /\ files = "gone"
  BY DEF IInv, JobKnows, JobLocal, Cleaning, Verify
<1>3. GoesTo("finalize")
  BY <1>1, VerifyJob
<1>4. TypeOK'
  <2>1. superseded \in SUBSET Op /\ verified \in SUBSET Op /\ abandoned \in SUBSET Op
    BY DEF IInv, TypeOK
  <2>2. {superseded', verified', abandoned'} \subseteq SUBSET Op
    BY <1>1, <2>1 DEF Verify
  <2> QED
    BY <1>3, <2>2, SMTT(30) DEF IInv, TypeOK, Verify, row, tombstone, disk, guard, GoesTo, SameJob
<1>5. RowsSay'
  BY <1>3, RowsKept DEF IInv, Verify, guard, GoesTo
<1>6. JobKnows'
  BY <1>1, <1>2, <1>3
     DEF Verify, row, tombstone, disk, guard, GoesTo, SameJob, JobKnows, JobHeld, JobBefore, JobInFlight,
         JobLocal, LocalSteps, Cleaning, Active, InFlight, Removed, Cleaned, Format4
<1> QED
  BY <1>4, <1>5, <1>6 DEF IInv

\* The end: the rows of a deleted source go, an archived one is closed.
LEMMA FinalizeStep == ASSUME IInv, Finalize PROVE IInv'
<1> DEFINE o == job.op
<1>1. /\ job \in Jobs /\ present /\ o \in Op /\ o # 0 /\ o \in Active
      /\ state[o] = "SUCCEEDED" /\ receipt[o] = "closed" /\ proof[o] = "closed"
  BY AtLocalWork DEF Finalize, LocalSteps
<1>2. ~Format4(o) => secrets = "gone" /\ files = "gone"
  BY DEF IInv, JobKnows, JobLocal, Finalize
<1>3. faults' \in 0..MaxFaults
  BY FaultTyped DEF IInv, Finalize
<1>4. CASE ~Format4(o) /\ Purge
  <2>1. TypeOK'
    <3>1. NoRequest \in [op : Op \cup {0}, state : {"none", "WAITING", "BLOCKED"}, revision : Revision]
      BY IdleType DEF NoRequest
    <3>2. /\ state' \in [Op -> {"none", "READY", "SENDING", "UNCERTAIN", "SUCCEEDED", "BLOCKED", "BUSY", "FINALIZED"}]
          /\ plan' \in [Op -> Plan] /\ consent' \in [Op -> {"unset", "keep", "remove"}]
          /\ proof' \in [Op -> {"none", "open", "closed"}]
      BY <1>4, IdleType DEF Purge
    <3>3. {superseded', verified', abandoned'} \subseteq SUBSET Op
      <4>1. superseded' \in SUBSET Op /\ verified' \in SUBSET Op /\ abandoned' \in SUBSET Op
        BY <1>4 DEF IInv, TypeOK, Finalize, Purge
      <4> QED
        BY <4>1
    <3> QED
      BY <1>3, <1>4, <3>1, <3>2, <3>3, IdleType DEF IInv, TypeOK, Finalize, Purge, disk, guard
  <2>2. InFlight' = {} /\ Active' = {}
    BY <1>4 DEF Purge, InFlight, Active
  <2>3. ForgottenLast'
    BY <1>1, <1>2, <1>4 DEF ForgottenLast, Sealed, Finalize, disk, guard
  <2>4. RowsSay'
    BY <1>4, <2>2, <2>3, IdleType
       DEF IInv, Finalize, Purge, guard, RowsSay, GoneIsQuiet, GateAlone, RowShape, BusyShape, RequestShape,
           SecretShape, OneInFlight, ConsentFirst, RefusedIsFinal, FlightProtected, NoRequest
  <2> QED
    BY <1>4, <2>1, <2>4, IdleKnows DEF IInv, Purge
<1>5. CASE Close(o)
  <2>1. state' = [state EXCEPT ![o] = "FINALIZED"] /\ archive' = o /\ job' = Idle
        /\ UNCHANGED <<row, generation, credential, plan, consent, superseded, request, recovery, work, gate, disk,
                       guard, stray, abandoned>>
    BY <1>5 DEF Close, Finalize, row
  <2>2. \A p \in Op : state'[p] = IF p = o THEN "FINALIZED" ELSE state[p]
    BY <1>1, <2>1 DEF IInv, TypeOK
  <2>3. TypeOK'
    <3>1. state' \in [Op -> {"none", "READY", "SENDING", "UNCERTAIN", "SUCCEEDED", "BLOCKED", "BUSY", "FINALIZED"}]
      BY <1>1, <2>1 DEF IInv, TypeOK
    <3> QED
      BY <1>1, <1>3, <1>5, <3>1, IdleType, SMTT(30) DEF IInv, TypeOK, Finalize, Close, disk, guard
  <2>4. Active' = {}
    BY <1>1, <2>1, <2>2, SMTT(30) DEF IInv, RowsSay, OneInFlight, Active, InFlight
  <2>5. GoneIsQuiet' /\ GateAlone' /\ RequestShape' /\ SecretShape' /\ OneInFlight' /\ FlightProtected' /\ ForgottenLast'
    BY <1>1, <2>1, <2>4
       DEF IInv, Finalize, row, disk, RowsSay, GoneIsQuiet, GateAlone, RequestShape, SecretShape, Removed, OneInFlight,
           FlightProtected, ForgottenLast
  <2>6. RowShape' /\ BusyShape'
    BY <1>1, <2>1, <2>2, SMTT(30) DEF IInv, guard, RowsSay, RowShape, BusyShape
  <2>7. ConsentFirst' /\ RefusedIsFinal'
    BY <1>1, <2>1, <2>2, IdleType, SMTT(30) DEF IInv, row, guard, RowsSay, ConsentFirst, RefusedIsFinal
  <2> QED
    BY <2>1, <2>3, <2>5, <2>6, <2>7, IdleKnows DEF IInv, RowsSay
<1>6. CASE /\ Told("failed", "conflict")
           /\ UNCHANGED <<present, state, plan, consent, proof, superseded, verified, generation,
                          credential, archive, request, recovery>>
  <2>1. UNCHANGED <<row, tombstone, journal>>
    BY <1>6 DEF Finalize, row, tombstone, journal
  <2>2. TypeOK'
    BY <1>3, <1>6, <2>1, JobTyped DEF IInv, Finalize, Told, SameJob
  <2>3. JobKnows'
    BY <1>1, <1>6, FailedKnows DEF Told, SameJob
  <2>4. RowsSay'
    BY <1>6, <2>1, RowsKept DEF IInv, Finalize, journal, guard, Told
  <2> QED
    BY <2>2, <2>3, <2>4 DEF IInv
<1> QED
  BY <1>1, <1>4, <1>5, <1>6, FinalizeJob

-----------------------------------------------------------------------------
(* The queue's requests, and the ends of a job that do not reach the journal. *)

(* A request changes; at most the source's sync flag goes with it. *)
LEMMA RequestRows == ASSUME RowsSay, present, RequestShape', sync' \in {sync, FALSE},
                            UNCHANGED <<present, enabled, edit, tombstone, journal, recovery, work, gate, disk, guard,
                                        stray, abandoned>>,
                            job'.pc = "await" => state[job'.op] \in Sending
                     PROVE  RowsSay'
<1> USE DEF tombstone, journal, disk, guard
<1>1. GoneIsQuiet' /\ GateAlone' /\ SecretShape' /\ OneInFlight' /\ ForgottenLast'
  BY DEF RowsSay, GoneIsQuiet, GateAlone, SecretShape, OneInFlight, ForgottenLast, InFlight, Active, Removed, Sealed
<1>2. RowShape' /\ BusyShape' /\ RefusedIsFinal'
  BY DEF RowsSay, RowShape, BusyShape, RefusedIsFinal
<1>3. ConsentFirst'
  BY DEF RowsSay, ConsentFirst, Sending
<1>4. FlightProtected'
  BY DEF RowsSay, FlightProtected, Active, InFlight, StillReviewed, Quiescent, Removed
<1> QED
  BY <1>1, <1>2, <1>3, <1>4 DEF RowsSay

\* A failure ends the job and, for the queue, may block its request.
LEMMA FailedStep == ASSUME IInv, Failed PROVE IInv'
<1>1. present /\ job' = Idle /\ job'.pc = "idle" /\ job' \in Jobs
  BY AtWork, IdleType DEF Failed
<1>2. request' = request \/ request' = [request EXCEPT !.state = "BLOCKED"]
  BY DEF Failed
<1>3. /\ request' \in [op : Op \cup {0}, state : {"none", "WAITING", "BLOCKED"}, revision : Revision]
      /\ RequestShape'
  BY <1>2, SMTT(30) DEF IInv, TypeOK, RowsSay, RequestShape
<1>4. TypeOK'
  BY <1>1, <1>3, SMTT(30) DEF IInv, TypeOK, Failed, row, tombstone, journal, disk, guard
<1>5. RowsSay'
  BY <1>1, <1>3, RequestRows DEF IInv, Failed, row
<1> QED
  BY <1>1, <1>4, <1>5, IdleKnows DEF IInv

\* A crash: what the job knew is lost, what the rows say is not.
LEMMA CrashStep == ASSUME IInv, Crash PROVE IInv'
<1>1. job \in Jobs /\ present /\ job.op \in Op
  BY AtWork DEF Crash
<1>2. job' = Idle /\ job'.pc = "idle" /\ job' \in Jobs
  BY IdleType DEF Crash
<1>3. /\ stray' \in [Op -> Nat] /\ abandoned' \in SUBSET Op /\ abandoned \subseteq abandoned'
      /\ \A p \in Op : stray'[p] > 0 => stray[p] > 0 \/ (p = job.op /\ job.op \in abandoned' /\ job.pc = "await")
  BY <1>1, SMTT(30) DEF IInv, TypeOK, Crash
<1>4. TypeOK'
  <2>1. faults' \in 0..MaxFaults
    BY FaultTyped DEF IInv, Crash
  <2>2. {superseded', verified', abandoned'} \subseteq SUBSET Op
    <3>1. superseded \in SUBSET Op /\ verified \in SUBSET Op
      BY DEF IInv, TypeOK
    <3> QED
      BY <1>3, <3>1 DEF Crash, journal
  <2> QED
    BY <1>2, <1>3, <2>1, <2>2, SMTT(30) DEF IInv, TypeOK, Crash, row, tombstone, journal, disk, guard
<1>5. RowsSay'
  <2>1. CASE job.pc = "await"
    <3>1. state[job.op] \in Sending /\ intent[job.op] # "none"
      BY <1>1, <2>1 DEF IInv, JobKnows, JobInFlight, RowsSay, RowShape, Sending
    <3> QED
      BY <1>1, <1>2, <1>3, <3>1, NetBoxRows DEF IInv, Crash, Sending, guard
  <2>2. CASE job.pc # "await"
    BY <1>2, <2>2, RowsKept DEF IInv, Crash, journal, guard
  <2> QED
    BY <2>1, <2>2
<1> QED
  BY <1>2, <1>4, <1>5, IdleKnows DEF IInv

-----------------------------------------------------------------------------
(* The queue, and everybody else: they change neither the journal nor what *)
(* a job knows.                                                            *)
LEMMA JobKept == ASSUME JobKnows, UNCHANGED <<present, tombstone, journal, disk, guard, job, abandoned>>
                 PROVE  JobKnows'
  BY DEF tombstone, journal, disk, guard, JobKnows, JobHeld, JobBefore, JobInFlight, JobLocal, LocalSteps, Cleaning,
         Active, InFlight, DefiniteRefusal, Removed, Cleaned, Format4

\* A new request pauses the schedule when nothing is in flight.
LEMMA EnqueueStep == ASSUME IInv, NEW o \in Op, Enqueue(o) PROVE IInv'
<1>1. /\ request' \in [op : Op \cup {0}, state : {"none", "WAITING", "BLOCKED"}, revision : Revision]
      /\ request'.op = o
  <2>1. [Current EXCEPT !.sync = FALSE] \in Revision
    BY DEF Current, Revision, IInv, TypeOK
  <2> QED
    BY <2>1 DEF Enqueue
<1>2. TypeOK'
  BY <1>1 DEF IInv, TypeOK, Enqueue, tombstone, journal, disk, guard
<1>3. job.pc = "await" => state[job.op] \in Sending
  BY DEF IInv, JobKnows, JobInFlight
<1>4. RowsSay'
  BY <1>1, <1>3, RequestRows DEF IInv, Enqueue, RequestShape
<1>5. JobKnows'
  BY JobKept DEF IInv, Enqueue
<1> QED
  BY <1>2, <1>4, <1>5 DEF IInv

\* A refused retirement blocks its request.
LEMMA TickBlockedStep == ASSUME IInv, TickBlocked PROVE IInv'
<1>1. /\ request' \in [op : Op \cup {0}, state : {"none", "WAITING", "BLOCKED"}, revision : Revision]
      /\ request'.state = "BLOCKED" /\ present /\ job.pc = "idle"
  BY DEF IInv, TypeOK, TickBlocked, Waiting, RowsSay, GoneIsQuiet
<1>2. TypeOK'
  BY <1>1 DEF IInv, TypeOK, TickBlocked, row, tombstone, journal, disk, guard
<1>3. RowsSay'
  BY <1>1, RequestRows DEF IInv, TickBlocked, RequestShape, row
<1>4. JobKnows'
  BY JobKept DEF IInv, TickBlocked, row
<1> QED
  BY <1>2, <1>3, <1>4 DEF IInv

(* They may change the row, its recovery or its work when nothing is in    *)
(* flight, and otherwise only let work end.                                *)
LEMMA OtherStep == ASSUME IInv, UNCHANGED <<present, tombstone, Elsewhere>>,
                          enabled' \in BOOLEAN, sync' \in BOOLEAN, edit' \in Edit,
                          recovery' \in {"none", "PREPARED", "CREDENTIALS_PENDING"},
                          work' \in {"idle", "operation", "orphaned", "accepted", "applying", "finishing", "unconfirmed"},
                          gate' \in {"free", "schedule", "credentials"}, faults' \in 0..MaxFaults,
                          gate' # "free" => InFlight = {},
                          \/ Active = {}
                          \/ UNCHANGED <<row, recovery>> /\ (work = "idle" => work' = "idle")
                   PROVE  IInv'
<1> USE DEF Elsewhere
<1>1. TypeOK'
  BY DEF IInv, TypeOK, tombstone, journal, disk, guard
<1>2. Active' = Active /\ InFlight' = InFlight
  BY DEF Active, InFlight, journal
<1>3. FlightProtected'
  <2>1. CASE Active = {}
    BY <1>2, <2>1 DEF FlightProtected
  <2>2. CASE UNCHANGED <<row, recovery>> /\ (work = "idle" => work' = "idle")
    BY <1>2, <2>2, SMTT(30) DEF IInv, RowsSay, FlightProtected, StillReviewed, Quiescent, Removed, row, tombstone, journal
  <2> QED
    BY <2>1, <2>2
<1>4. GateAlone'
  BY <1>2 DEF GateAlone
<1>5. /\ GoneIsQuiet' /\ RowShape' /\ BusyShape' /\ RequestShape' /\ SecretShape'
      /\ OneInFlight' /\ RefusedIsFinal' /\ ForgottenLast' /\ ConsentFirst'
  BY <1>2 DEF IInv, RowsSay, tombstone, journal, disk, guard, GoneIsQuiet, RowShape, BusyShape, RequestShape,
              SecretShape, OneInFlight, RefusedIsFinal, ForgottenLast, Removed, Sealed, ConsentFirst
<1>6. JobKnows'
  BY JobKept DEF IInv
<1> QED
  BY <1>1, <1>3, <1>4, <1>5, <1>6 DEF IInv, RowsSay

(* The new credentials of a recovery: the one step of the others that moves *)
(* the tombstone, when nothing is in flight and no job holds the lock.      *)
LEMMA RecoveryCompleteStep == ASSUME IInv, RecoveryComplete PROVE IInv'
<1>1. /\ job = Idle /\ job' = Idle /\ present /\ Removed /\ InFlight = {} /\ archive = 0
      /\ Active = {} /\ Active' = {} /\ InFlight' = {}
  BY DEF RecoveryComplete, LockFree, Open, Unretired, Recoverable, IInv, JobKnows, JobHeld, Active, InFlight, journal
<1>2. generation \in Nat /\ generation' = generation + 1 /\ ~Removed'
  BY <1>1, Parity DEF IInv, TypeOK, RecoveryComplete, Removed
<1>3. TypeOK'
  <2>1. edit' \in Edit
    BY RetirementAssumption, SMTT(30) DEF IInv, TypeOK, RecoveryComplete, Edit
  <2>2. {secrets', files'} \subseteq {"kept", "gone"}
    <3>1. secrets' = "kept" /\ files' \in {"kept", "gone"}
      BY DEF IInv, TypeOK, RecoveryComplete
    <3> QED
      BY <3>1
  <2>3. {present', enabled', sync'} \subseteq BOOLEAN
    <3>1. present' \in BOOLEAN /\ enabled' = TRUE /\ sync' = FALSE
      BY DEF IInv, TypeOK, RecoveryComplete
    <3> QED
      BY <3>1, Zenon
  <2> QED
    BY <1>2, <2>1, <2>2, <2>3, SMTT(30) DEF IInv, TypeOK, RecoveryComplete, journal, guard
<1>4. BusyShape'
  <2>1. \A o \in Op : state[o] # "SUCCEEDED"
    BY <1>1 DEF InFlight
  <2>2. \A o \in Op : state[o] # "BUSY"
    BY <1>1, <2>1, SMTT(30) DEF IInv, RowsSay, BusyShape, Removed
  <2> QED
    BY <2>2 DEF BusyShape, RecoveryComplete, journal
<1>5. RowsSay'
  BY <1>1, <1>2, <1>4, IdleType
     DEF IInv, RecoveryComplete, journal, guard, RowsSay, GoneIsQuiet, GateAlone, RowShape, RequestShape, SecretShape,
         OneInFlight, RefusedIsFinal, ForgottenLast, ConsentFirst, FlightProtected
<1> QED
  BY <1>1, <1>3, <1>5, IdleKnows DEF IInv

\* Each action of the others is such a step.
LEMMA OthersStep == ASSUME IInv, Others \/ TickReconcile PROVE IInv'
<1> USE DEF Elsewhere
<1>1. /\ enabled \in BOOLEAN /\ sync \in BOOLEAN /\ edit \in Edit
      /\ recovery \in {"none", "PREPARED", "CREDENTIALS_PENDING"}
      /\ work \in {"idle", "operation", "orphaned", "accepted", "applying", "finishing", "unconfirmed"}
      /\ gate \in {"free", "schedule", "credentials"} /\ faults \in 0..MaxFaults
      /\ gate # "free" => InFlight = {}
      /\ InFlight = {} => Active = {}
  BY DEF IInv, TypeOK, RowsSay, GateAlone, Active
<1>2. edit < MaxEdits => edit + 1 \in Edit
  BY <1>1, RetirementAssumption, SMTT(30) DEF Edit
<1>3. faults < MaxFaults => faults + 1 \in 0..MaxFaults
  BY <1>1, RetirementAssumption, SMTT(30)
<1>4. CASE ScheduleGate
  BY <1>1, <1>4, OtherStep DEF ScheduleGate, Open, Unretired, row
<1>5. CASE ScheduleUpdate
  BY <1>1, <1>2, <1>5, OtherStep DEF ScheduleUpdate
<1>6. CASE Rename
  BY <1>1, <1>2, <1>6, OtherStep DEF Rename, Open, Unretired
<1>7. CASE RecoveryPrepare \/ RecoveryGate \/ RecoveryAbandon
  BY <1>1, <1>7, OtherStep DEF RecoveryPrepare, RecoveryGate, RecoveryAbandon, Open, Unretired, row
<1>8. CASE RecoveryCredentials
  BY <1>1, <1>8, OtherStep DEF RecoveryCredentials, row
<1>9. ASSUME NEW from, NEW to \in SUBSET {"idle", "operation", "orphaned", "accepted", "applying", "finishing", "unconfirmed"},
             Becomes(from, to), faults' \in 0..MaxFaults,
             Active = {} \/ from \cap {"idle"} = {}
      PROVE  IInv'
  BY <1>1, <1>9, OtherStep DEF Becomes, row
<1>10. CASE StartOperation \/ StartRun
  BY <1>1, <1>9, <1>10 DEF StartOperation, StartRun, OperationAdmitted, RunAdmitted, Open, Unretired
<1>11. CASE EndOperation \/ PollOperation \/ TakeApplyLock \/ ReleaseApplyLock \/ FinishRun \/ AcceptBaseline
  BY <1>1, <1>9, <1>11 DEF EndOperation, PollOperation, TakeApplyLock, ReleaseApplyLock, FinishRun, AcceptBaseline
<1>12. CASE OrphanOperation
  BY <1>1, <1>3, <1>9, <1>12 DEF OrphanOperation
<1>13. CASE TickReconcile
  BY <1>1, <1>13, OtherStep DEF TickReconcile, row
<1> QED
  BY <1>4, <1>5, <1>6, <1>7, <1>8, <1>10, <1>11, <1>12, <1>13, RecoveryCompleteStep DEF Others

-----------------------------------------------------------------------------
(* The origins: nothing is in flight but, in the last of them, a retirement *)
(* that an earlier guard confirmed without closing the namespace.           *)
LEMMA InitInvariant == Init => IInv
<1> SUFFICES ASSUME Init PROVE IInv
  OBVIOUS
<1>1. PICK s \in {"none", "BUSY", "SUCCEEDED"}, c \in {"unset", "keep", "remove"}, p \in {NoPlan, LegacyPlan},
           i \in {"none", "delete"}, r \in {"none", "open"} :
         /\ InitJournal(s, c, p, i, r)
         /\ enabled \in BOOLEAN /\ sync \in BOOLEAN /\ generation \in {0, 1}
         /\ credential \in {"live", "RETAINED_BY_REQUEST"}
         /\ s = "none" => c = "unset"
         /\ s # "none" => i = "delete" /\ Disabled /\ p = LegacyPlan
         /\ s = "BUSY" => generation = 0
  BY DEF Init, Disabled
<1>2. LegacyPlan \in Plan /\ LegacyPlan.generation = 0 /\ LegacyPlan.revision.edit = 0 /\ p \in Plan
  <2>1. [enabled |-> TRUE, sync |-> TRUE, edit |-> 0] \in Revision
    BY RetirementAssumption, SMTT(30) DEF Revision, Edit
  <2>2. LegacyPlan \in Plan /\ LegacyPlan.generation = 0 /\ LegacyPlan.revision.edit = 0
    BY <2>1 DEF LegacyPlan, Plan
  <2> QED
    BY <1>1, <2>2, IdleType
<1>3. /\ job = Idle /\ job \in Jobs /\ job.pc = "idle"
      /\ NoRequest \in [op : Op \cup {0}, state : {"none", "WAITING", "BLOCKED"}, revision : Revision]
      /\ request.state = "none"
  BY IdleType DEF Init, NoRequest
<1>4. /\ \A o \in Op : /\ state[o] = IF o = 1 THEN s ELSE "none"
                       /\ consent[o] = IF o = 1 THEN c ELSE "unset"
                       /\ plan[o] = IF o = 1 THEN p ELSE NoPlan
                       /\ intent[o] = IF o = 1 THEN i ELSE "none"
                       /\ receipt[o] = IF o = 1 THEN r ELSE "none"
                       /\ stray[o] = 0
  BY <1>1 DEF InitJournal, Init
<1>5. TypeOK
  <2>1. /\ state \in [Op -> {"none", "READY", "SENDING", "UNCERTAIN", "SUCCEEDED", "BLOCKED", "BUSY", "FINALIZED"}]
        /\ plan \in [Op -> Plan] /\ consent \in [Op -> {"unset", "keep", "remove"}]
        /\ receipt \in [Op -> {"none", "open", "closed"}] /\ proof = receipt
        /\ intent \in [Op -> {"none", "delete", "archive"}]
    BY <1>1, <1>2, IdleType DEF InitJournal
  <2>2. manifest \in [Op -> Inventory] /\ inventory \in Inventory /\ edit \in Edit
    BY <1>1, RetirementAssumption, SMTT(30) DEF InitJournal, Inventory, Edit, Init
  <2>3. stray \in [Op -> Nat] /\ faults \in 0..MaxFaults
    BY RetirementAssumption, SMTT(30) DEF Init
  <2> QED
    BY <1>1, <1>3, <2>1, <2>2, <2>3, SMTT(30) DEF Init, TypeOK
<1>6. JobKnows
  BY <1>3 DEF JobKnows, JobHeld, JobBefore, JobInFlight, JobLocal, LocalSteps, Cleaning
<1>7. Active \subseteq {1} /\ (1 \in Active => s = "SUCCEEDED")
  BY <1>1, <1>4 DEF Active, InFlight
<1>8. FlightProtected
  <2> SUFFICES ASSUME 1 \in Active
               PROVE  /\ StillReviewed(1) /\ Quiescent
                      /\ \/ generation = plan[1].generation
                         \/ state[1] = "SUCCEEDED" /\ generation = plan[1].generation + 1 /\ Removed
    BY <1>7 DEF FlightProtected
  <2>1. 1 \in Op /\ plan[1] = LegacyPlan /\ state[1] = "SUCCEEDED" /\ Disabled
    BY <1>1, <1>4, <1>7, RetirementAssumption
  <2>2. StillReviewed(1) /\ Quiescent
    BY <1>2, <2>1 DEF StillReviewed, Quiescent, Disabled, Init
  <2>3. generation = 1 => Removed
    BY SMTT(30) DEF Removed
  <2> QED
    BY <1>1, <1>2, <2>1, <2>2, <2>3, SMTT(30)
<1>9. BusyShape
  BY <1>1, <1>2, <1>4 DEF BusyShape
<1>10. RowsSay
  BY <1>1, <1>3, <1>4, <1>7, <1>8, <1>9, SMTT(30)
     DEF Init, RowsSay, GoneIsQuiet, GateAlone, RowShape, RequestShape, SecretShape, OneInFlight, RefusedIsFinal,
         ForgottenLast, ConsentFirst
<1> QED
  BY <1>5, <1>6, <1>10 DEF IInv

\* Every step preserves the invariant.
LEMMA NextInvariant == ASSUME IInv, [Next]_vars PROVE IInv'
<1>1. CASE Next
  <2>1. CASE Job
    BY <2>1, ReviewCallStep, PrepareStep, BeginStep, PostStep, AnswerStep, GetStep, RecordStep, LocalGuardStep,
       TombstoneStep, CredentialsStep, ExclusiveStep, PurgeLocalStep, VerifyStep, FinalizeStep, FailedStep DEF Job
  <2>2. CASE Tick
    BY <2>2, OthersStep, BeginsStep, TickBlockedStep DEF Tick
  <2>3. CASE Others
    BY <2>3, OthersStep
  <2> QED
    BY <1>1, <2>1, <2>2, <2>3, LoseAnswerStep, CrashStep, InventoryStep, BeginsStep, EnqueueStep, ServeStrayStep
       DEF Next
<1>2. CASE UNCHANGED vars
  <2>1. UNCHANGED <<row, tombstone, journal, request, recovery, work, gate, disk, guard, stray, job, abandoned, faults>>
    BY <1>2 DEF vars, row, tombstone, journal, disk, guard
  <2>2. enabled \in BOOLEAN /\ sync \in BOOLEAN
    BY DEF IInv, TypeOK
  <2> QED
    BY <2>1, <2>2, OtherStep, SMTT(30) DEF Elsewhere, IInv, TypeOK, RowsSay, GateAlone, row
<1> QED
  BY <1>1, <1>2

\* The inductive invariant holds throughout: what the job knows at each of its steps
\* survives every crash, lost answer and stray POST, and so do the rows.
THEOREM RetirementInvariant == Spec => []IInv
  BY InitInvariant, NextInvariant, PTL DEF Spec

\* The journal of a source is the truth about what was sent to NetBox: begin() never
\* has two retirements in flight, no POST precedes SENDING, and blocked() records no
\* refusal of what was done unless a POST had been given up on.
THEOREM JournalIsHonest == Spec => []JournalHonest
<1>1. IInv => JournalHonest
  BY DEF IInv, RowsSay, JournalHonest
<1> QED
  BY <1>1, RetirementInvariant, PTL

\* Nobody moves the source under a retirement in flight, so that no later _guard of it
\* can refuse: the gates, triggers and locks together keep every other writer out.
THEOREM FlightIsProtected == Spec => []FlightProtected
<1>1. IInv => FlightProtected
  BY DEF IInv, RowsSay
<1> QED
  BY <1>1, RetirementInvariant, PTL

\* purge_retired_source comes last: when the rows are gone, so are the objects, the
\* credentials and the files.
THEOREM ForgottenIsLast == Spec => []ForgottenLast
<1>1. IInv => ForgottenLast
  BY DEF IInv, RowsSay
<1> QED
  BY <1>1, RetirementInvariant, PTL

-----------------------------------------------------------------------------
(* Which actions touch the guard's receipts, the files and the consent.    *)
LEMMA Touches == ASSUME Next
                 PROVE  /\ receipt' = receipt \/ Answer \/ LoseAnswer \/ \E o \in Op : ServeStray(o)
                        /\ secrets' = secrets \/ secrets' = "kept" \/ Credentials \/ Exclusive
                        /\ files' = files \/ PurgeLocal
                        /\ consent' = consent \/ Begin \/ Finalize
<1> USE DEF journal, disk, guard
<1>1. CASE Job
  BY <1>1 DEF Job, ReviewCall, Prepare, Begin, Post, Answer, Get, Record, LocalGuard, Tombstone, Credentials, Exclusive,
              PurgeLocal, Verify, Finalize, Failed
<1>2. CASE Tick
  BY <1>2 DEF Tick, TickReconcile, TickReview, TickExecute, TickBlocked, Start
<1>3. CASE Others
  BY <1>3 DEF Others, Elsewhere, ScheduleGate, ScheduleUpdate, Rename, RecoveryPrepare, RecoveryGate,
              RecoveryCredentials, RecoveryComplete, RecoveryAbandon, Becomes, StartOperation, EndOperation,
              OrphanOperation, PollOperation, StartRun, TakeApplyLock, ReleaseApplyLock, FinishRun, AcceptBaseline
<1>4. CASE LoseAnswer \/ Crash \/ InventoryChanges
  BY <1>4 DEF LoseAnswer, Crash, InventoryChanges
<1>5. ASSUME NEW o \in Op, (\E kind \in Kinds : Review(o, kind)) \/ Execute(o) \/ Continue(o) \/ Enqueue(o)
      PROVE  UNCHANGED <<receipt, secrets, files, consent>>
  BY <1>5 DEF Review, Execute, Continue, Start, Enqueue
<1>6. ASSUME NEW o \in Op, ServeStray(o) PROVE UNCHANGED <<secrets, files, consent>>
  BY <1>6 DEF ServeStray
<1> QED
  BY <1>1, <1>2, <1>3, <1>4, <1>5, <1>6 DEF Next

\* Nothing is removed that was not reviewed and consented to: retire_source deletes the
\* reviewed manifest, files go under the receipt and by consent, and begin() never
\* takes a consent back.
THEOREM OnlyReviewed == Spec => ReviewedOnly
<1>1. ASSUME IInv, Next, inventory # 0, receipt' # receipt, inventory' = 0
      PROVE  \E o \in Op : receipt'[o] = "closed" /\ manifest[o] = inventory /\ intent[o] = "delete"
  <2>1. PICK o \in Op : Serve(o) /\ intent[o] # "none"
    <3>1. CASE Answer
      <4>1. job.op \in Op /\ state[job.op] \in Sending /\ intent[job.op] # "none"
        BY <1>1, <3>1, AtWork DEF IInv, JobKnows, JobInFlight, RowsSay, RowShape, Answer, Sending
      <4> QED
        BY <1>1, <3>1, <4>1 DEF Answer
    <3>2. CASE LoseAnswer
      <4>1. job.op \in Op /\ state[job.op] \in Sending /\ intent[job.op] # "none"
        BY <1>1, <3>2, AtWork DEF IInv, JobKnows, JobInFlight, RowsSay, RowShape, LoseAnswer, Sending
      <4> QED
        BY <1>1, <3>2, <4>1 DEF LoseAnswer
    <3>3. ASSUME NEW o \in Op, ServeStray(o) PROVE Serve(o) /\ intent[o] # "none"
      BY <1>1, <3>3 DEF ServeStray, IInv, RowsSay, RowShape
    <3> QED
      BY <1>1, <3>1, <3>2, <3>3, Touches
  <2>2. /\ receipt[o] = "none" /\ receipt' = [receipt EXCEPT ![o] = "closed"] /\ inventory = manifest[o]
        /\ intent[o] # "archive"
    BY <1>1, <2>1 DEF Serve, Servable, Format4
  <2> QED
    BY <1>1, <2>1, <2>2 DEF IInv, TypeOK
<1>2. ASSUME IInv, Next, (secrets = "kept" /\ secrets' = "gone") \/ (files = "kept" /\ files' = "gone")
      PROVE  receipt[job.op] = "closed" /\ consent[job.op] = "remove"
  <2>1. job.pc \in {"credentials", "exclusive", "purge"}
    BY <1>2, Touches DEF Credentials, Exclusive, PurgeLocal
  <2> QED
    BY <1>2, <2>1 DEF IInv, JobKnows, JobLocal, LocalSteps, Cleaning
<1>3. ASSUME IInv, Next, NEW o \in Op, consent[o] = "remove" PROVE consent'[o] = "remove" \/ ~present'
  <2>1. CASE Begin
    <3>1. job.op \in Op
      BY <1>3, <2>1, AtWork DEF Begin
    <3>2. CASE BeginReady(job.op)
      BY <1>3, <3>1, <3>2 DEF BeginReady, Beginnable, IInv, TypeOK, RowsSay, RowShape
    <3>3. CASE BeginAgain(job.op)
      BY <1>3, <3>1, <3>3 DEF BeginAgain, Repeatable, IInv, TypeOK
    <3> QED
      BY <1>3, <2>1, <3>2, <3>3 DEF Begin, ResumeBusy, BeginRefused
  <2>2. CASE Finalize
    BY <1>3, <2>2 DEF Finalize, Purge, Close
  <2> QED
    BY <1>3, <2>1, <2>2, Touches
<1>4. IInv /\ [Next]_vars => [ inventory # 0 /\ receipt' # receipt /\ inventory' = 0
                                => \E o \in Op : /\ receipt'[o] = "closed"
                                                 /\ manifest[o] = inventory
                                                 /\ intent[o] = "delete" ]_vars
  BY <1>1
<1>5. IInv /\ [Next]_vars => [ (secrets = "kept" /\ secrets' = "gone") \/ (files = "kept" /\ files' = "gone")
                                => receipt[job.op] = "closed" /\ consent[job.op] = "remove" ]_vars
  BY <1>2
<1>6. IInv /\ [Next]_vars => [ \A o \in Op : consent[o] = "remove" => consent'[o] = "remove" \/ ~present' ]_vars
  BY <1>3
<1>7. Spec => DeletesReviewed
  BY <1>4, RetirementInvariant, PTL DEF Spec, DeletesReviewed
<1>8. Spec => CleanupAfterReceipt
  BY <1>5, RetirementInvariant, PTL DEF Spec, CleanupAfterReceipt
<1>9. Spec => ConsentKept
  BY <1>6, RetirementInvariant, PTL DEF Spec, ConsentKept
<1> QED
  BY <1>7, <1>8, <1>9 DEF ReviewedOnly
=============================================================================
