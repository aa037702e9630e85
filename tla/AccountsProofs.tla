--------------------------- MODULE AccountsProofs ---------------------------
(***************************************************************************)
(* Proofs about the Selectel accounts: IInv of module Accounts is an       *)
(* inductive invariant; what a state file says of its run is true, a form  *)
(* launches once, and NetBox only takes the import of the current run.     *)
(***************************************************************************)
EXTENDS Accounts, TLAPS
USE ZenonT(30)

\* ---- The bounds, and what moves. ------------------------------------------
\* Runs are numbered from 1; an account without a run names 0.
LEMMA RunNumbers == MaxRuns \in Nat /\ Runs = 1..MaxRuns /\ 0 \notin Runs /\ Runs \subseteq Nat
BY ScenesAssumption, SMTT(30) DEF Runs

\* The bounds of the scene that is played.
LEMMA BoundIs == ASSUME TypeOK PROVE Bound.accounts \subseteq Accounts /\ Bound.operations \subseteq Operations /\ Bound.runs \in 0..MaxRuns
BY ScenesAssumption DEF TypeOK, Bound

Others == <<scene, runs, guard, control, lposts, review, forms, count, launches>>
Ended(r) == runner[r].phase = "dead" /\ post[r] \notin {"flying", "committed"}
ProcessesMove ==
  \A r \in Runs : /\ runner'[r].a = runner[r].a /\ RunIs(r)'
                  /\ (MaySend(r)' => MaySend(r)) /\ (Ended(r) => Ended(r)')
FileMoves(a) ==
  LET s == acct[a]
      t == acct'[a] IN
  /\ t.run = s.run /\ t.pending = s.pending /\ t.deleted = s.deleted /\ t.generation = s.generation
  /\ s.password => t.password
  /\ t.error # "none" \/ t.status \in {"running", "baseline"} => t.run # 0
  /\ t.error = "failed" => s.error = "failed" \/ \A r \in Runs : r = t.run => Ended(r)'
  /\ t.status = "completed" => t.run \in guard.committed
  /\ t.status = "baseline" => retired(t.run)
  /\ Unsettled(s) => Unsettled(t) \/ \A r \in Runs : r = t.run => ~MaySend(r)' \/ retired(r)
  /\ control # None /\ control.a = a => t.status # "running" /\ t.error = s.error

\* A run that may still send was launched.
LEMMA SenderLaunched ==
  ASSUME IInv, NEW r \in Runs, MaySend(r) PROVE r <= runs /\ runner[r].a \in Accounts
<1>1. RunIs(r) /\ runs \in Nat
  BY RunNumbers, SMTT(30) DEF IInv, TypeOK
<1> QED
  BY <1>1, RunNumbers DEF RunIs, MaySend, Silent

\* Steps of state files, runners and POSTs that launch nothing and leave Guard alone.
LEMMA FileStep ==
  ASSUME IInv, TypeOK', UNCHANGED Others, ProcessesMove, control # None => CollectionFree',
         \A a \in Accounts : FileMoves(a)
  PROVE  IInv'
<1>0. TypeOK /\ UNCHANGED <<scene, runs, guard, control, lposts, review, forms, count, launches>>
  BY DEF IInv, Others
<1>1. \A r \in Runs : RunIs(r)'
  BY DEF ProcessesMove
<1>2. \A r \in Runs : Answerable(r)'
  <2> SUFFICES ASSUME NEW r \in Runs, MaySend(r)', ~retired(r)'
               PROVE  LET s == acct'[runner'[r].a] IN s.run = r /\ ~s.deleted /\ Unsettled(s)
    BY DEF Answerable, Unsettled
  <2>1. MaySend(r) /\ ~retired(r) /\ runner'[r].a = runner[r].a
    BY <1>0 DEF ProcessesMove, retired
  <2>2. LET s == acct[runner[r].a] IN s.run = r /\ ~s.deleted /\ Unsettled(s)
    BY <2>1 DEF IInv, Answerable
  <2>3. runner[r].a \in Accounts
    BY <2>1, SenderLaunched
  <2> QED
    BY <2>1, <2>2, <2>3 DEF FileMoves
<1>3. \A a \in Accounts : AccountIs(a)'
  <2> SUFFICES ASSUME NEW a \in Accounts PROVE AccountIs(a)'
    OBVIOUS
  <2>1. AccountIs(a) /\ FileMoves(a)
    BY DEF IInv
  <2>2. acct'[a].run \in 0..MaxRuns /\ acct[a].run \in 0..MaxRuns
    BY <1>0 DEF TypeOK, State
  <2>3. acct'[a].run # 0 => acct'[a].run \in Runs
    BY <2>2, RunNumbers, SMTT(30)
  <2>4. acct'[a].error = "failed" => Ended(acct[a].run)'
    BY <2>1, <2>3 DEF FileMoves, AccountIs, ProcessesMove, Ended
  <2> QED
    BY <1>0, <2>1, <2>3, <2>4 DEF FileMoves, AccountIs, ProcessesMove, Ended, retired
<1>4. Decisions' = Decisions
  BY <1>0 DEF Decisions, FileMoves
<1>5. \A d \in Decisions' : DecisionIs(d)'
  BY <1>0, <1>4 DEF IInv, DecisionIs, retired
<1>6. ControlIs'
  <2> SUFFICES ASSUME control # None PROVE ControlIs'
    BY <1>0 DEF ControlIs
  <2>1. control.a \in Accounts
    BY <1>0 DEF TypeOK, Call
  <2> QED
    BY <1>0, <2>1 DEF IInv, ControlIs, FileMoves, retired
<1>7. \A q \in Requests : FormIs(q)'
  <2> SUFFICES ASSUME NEW q \in Requests PROVE FormIs(q)'
    OBVIOUS
  <2>1. forms[q] # None => forms[q].a \in Accounts
    BY <1>0 DEF TypeOK, Form
  <2> QED
    BY <1>0, <2>1, SMTT(30) DEF IInv, FormIs, FileMoves
<1> QED
  BY <1>0, <1>1, <1>2, <1>3, <1>5, <1>6, <1>7 DEF IInv

\* ---- Steps that write state files only. -------------------------------------
Rest == <<scene, runs, runner, post, guard, control, lposts, review, forms, count, launches>>
SameFile(s, t) ==
  /\ t.run = s.run /\ t.pending = s.pending /\ t.deleted = s.deleted /\ t.generation = s.generation
  /\ t.password = s.password /\ t.error = s.error /\ t.status = s.status

\* A file whose run, result and decision stay as they were.
LEMMA SameMoves == ASSUME IInv, NEW a \in Accounts, SameFile(acct[a], acct'[a]) PROVE FileMoves(a)
<1>1. AccountIs(a) /\ ControlIs
  BY DEF IInv
<1> QED
  BY <1>1 DEF FileMoves, SameFile, AccountIs, ControlIs, Unsettled

\* Only state files are written.
LEMMA OnlyFiles ==
  ASSUME IInv, acct' \in [Accounts -> State], UNCHANGED Rest, \A a \in Accounts : FileMoves(a)
  PROVE  IInv'
<1>1. UNCHANGED Others /\ runner' = runner /\ post' = post /\ runs' = runs /\ guard' = guard /\ control' = control
  BY DEF Rest, Others
<1>2. TypeOK'
  BY DEF IInv, TypeOK, Rest
<1>3. ProcessesMove
  BY <1>1 DEF IInv, ProcessesMove, RunIs, MaySend, Ended
<1>4. control # None => CollectionFree'
  BY <1>1 DEF IInv, ControlIs, CollectionFree
<1> QED
  BY <1>1, <1>2, <1>3, <1>4, FileStep

\* Only the file of one account is written.
LEMMA OneFile ==
  ASSUME IInv, NEW a \in Accounts, NEW t \in State, acct' = [acct EXCEPT ![a] = t], UNCHANGED Rest, FileMoves(a)
  PROVE  IInv'
<1>1. acct \in [Accounts -> State]
  BY DEF IInv, TypeOK
<1>2. acct' \in [Accounts -> State]
  BY <1>1
<1>3. \A b \in Accounts : FileMoves(b)
  <2> SUFFICES ASSUME NEW b \in Accounts, b # a PROVE FileMoves(b)
    OBVIOUS
  <2>1. acct'[b] = acct[b]
    BY <1>1
  <2> QED
    BY <2>1, SameMoves DEF SameFile
<1> QED
  BY <1>2, <1>3, OnlyFiles

\* Only the file of one account is written, and nothing about its run.
LEMMA QuietFile ==
  ASSUME IInv, NEW a \in Accounts, NEW t \in State, acct' = [acct EXCEPT ![a] = t], UNCHANGED Rest, SameFile(acct[a], t)
  PROVE  IInv'
<1>1. acct'[a] = t
  BY DEF IInv, TypeOK
<1> QED
  BY <1>1, SameMoves, OneFile

\* Enabling, scheduling and the clocks.
LEMMA SetEnabledStep == ASSUME IInv, NEW a \in Accounts, NEW on \in BOOLEAN, _set_enabled(a, on) PROVE IInv'
<1> DEFINE t == [acct[a] EXCEPT !.enabled = on, !.due = IF on THEN next_run(acct[a]) ELSE "none"]
<1>1. acct[a] \in State
  BY DEF IInv, TypeOK
<1>2. t \in State /\ SameFile(acct[a], t)
  <2>1. PICK due \in {"none", "later", "now"} : due = IF on THEN next_run(acct[a]) ELSE "none"
    BY DEF next_run
  <2>2. PICK s \in State : s = acct[a]
    BY <1>1
  <2>3. t = [s EXCEPT !.enabled = on, !.due = due]
    BY <2>1, <2>2
  <2> HIDE DEF t
  <2>4. t \in State
    BY <2>3 DEF State
  <2> QED
    BY <2>2, <2>3 DEF State, SameFile
<1>3. acct' = [acct EXCEPT ![a] = t] /\ UNCHANGED Rest
  BY DEF _set_enabled, Rest
<1> HIDE DEF t
<1> QED
  BY <1>2, <1>3, QuietFile

\* The schedule is switched.
LEMMA SetScheduleStep == ASSUME IInv, NEW a \in Accounts, NEW on \in BOOLEAN, _set_schedule(a, on) PROVE IInv'
<1> DEFINE t == [acct[a] EXCEPT !.scheduled = on, !.due = IF on /\ acct[a].enabled THEN "later" ELSE "none"]
<1>1. acct[a] \in State
  BY DEF IInv, TypeOK
<1>2. t \in State /\ SameFile(acct[a], t)
  <2>1. PICK due \in {"none", "later", "now"} : due = IF on /\ acct[a].enabled THEN "later" ELSE "none"
    OBVIOUS
  <2>2. PICK s \in State : s = acct[a]
    BY <1>1
  <2>3. t = [s EXCEPT !.scheduled = on, !.due = due]
    BY <2>1, <2>2
  <2> HIDE DEF t
  <2>4. t \in State
    BY <2>3 DEF State
  <2> QED
    BY <2>2, <2>3 DEF State, SameFile
<1>3. acct' = [acct EXCEPT ![a] = t] /\ UNCHANGED Rest
  BY DEF _set_schedule, Rest
<1> HIDE DEF t
<1> QED
  BY <1>2, <1>3, QuietFile

\* Time passes for an account.
LEMMA ClockStep == ASSUME IInv, NEW a \in Accounts, Clock(a) \/ Age(a) \/ Hour(a) PROVE IInv'
<1>1. acct[a] \in State
  BY DEF IInv, TypeOK
<1>2. CASE Clock(a)
  <2> DEFINE t == [acct[a] EXCEPT !.due = "now"]
  <2>1. t \in State /\ SameFile(acct[a], t)
    BY <1>1 DEF State, SameFile
  <2>2. acct' = [acct EXCEPT ![a] = t] /\ UNCHANGED Rest
    BY <1>2 DEF Clock, Rest
  <2> HIDE DEF t
  <2> QED
    BY <2>1, <2>2, QuietFile
<1>3. ASSUME NEW age \in {"late", "old"}, acct' = [acct EXCEPT ![a].age = age], UNCHANGED Rest PROVE IInv'
  <2> DEFINE t == [acct[a] EXCEPT !.age = age]
  <2>1. t \in State /\ SameFile(acct[a], t)
    BY <1>1 DEF State, SameFile
  <2>2. acct' = [acct EXCEPT ![a] = t] /\ UNCHANGED Rest
    BY <1>3
  <2> HIDE DEF t
  <2> QED
    BY <2>1, <2>2, QuietFile
<1>4. CASE Age(a)
  <2>1. acct' = [acct EXCEPT ![a].age = "late"] /\ UNCHANGED Rest
    BY <1>4 DEF Age, Rest
  <2> QED
    BY <1>3, <2>1
<1>5. CASE Hour(a)
  <2>1. acct' = [acct EXCEPT ![a].age = "old"] /\ UNCHANGED Rest
    BY <1>5 DEF Hour, Rest
  <2> QED
    BY <1>3, <2>1
<1> QED
  BY <1>2, <1>4, <1>5
\* ---- A reservation left behind, and what settles a run. ----------------------
\* Closed(): the run stays named, and unsettled.
LEMMA ClosedIs ==
  ASSUME IInv, NEW a \in Accounts
  PROVE  LET s == acct[a]
             t == Closed(s) IN
         /\ t \in State /\ t.run = s.run /\ t.pending = s.pending /\ t.deleted = s.deleted
         /\ t.generation = s.generation /\ t.password = s.password /\ t.request = s.request
         /\ t.status = "running" => running(s)
         /\ \/ t = s
            \/ s.status = "running" /\ t.status = "attention" /\ t.error = "interrupted"
<1>1. acct[a] \in State
  BY DEF IInv, TypeOK
<1>2. CASE acct[a].status = "running" /\ ~running(acct[a])
  <2> DEFINE t == [acct[a] EXCEPT !.status = "attention", !.error = "interrupted", !.due = "none"]
  <2>1. Closed(acct[a]) = t
    BY <1>2 DEF Closed, interrupted
  <2>2. t \in State
    BY <1>1 DEF State, Uncertain
  <2>3. /\ t.run = acct[a].run /\ t.pending = acct[a].pending /\ t.deleted = acct[a].deleted
        /\ t.generation = acct[a].generation /\ t.password = acct[a].password /\ t.request = acct[a].request
        /\ t.status = "attention" /\ t.error = "interrupted"
    BY <1>1 DEF State
  <2> HIDE DEF t
  <2> QED
    BY <1>2, <2>1, <2>2, <2>3
<1>3. CASE ~(acct[a].status = "running" /\ ~running(acct[a]))
  <2>1. Closed(acct[a]) = acct[a]
    BY <1>3 DEF Closed
  <2> QED
    BY <1>1, <1>3, <2>1
<1> QED
  BY <1>2, <1>3

\* Closing one reservation, or all, is such a step.
LEMMA ClosedMoves ==
  ASSUME IInv, NEW a \in Accounts, control = None, acct'[a] = Closed(acct[a]) PROVE FileMoves(a)
<1>1. CASE acct'[a] = acct[a]
  BY <1>1, SameMoves DEF SameFile
<1>2. CASE acct'[a] # acct[a]
  <2>1. AccountIs(a)
    BY DEF IInv
  <2> QED
    BY <1>2, <2>1, ClosedIs, SMTT(30) DEF FileMoves, AccountIs, Unsettled, Uncertain
<1> QED
  BY <1>1, <1>2

\* A run is settled for another file only when nothing of it can be sent any more.
LEMMA SettledRun ==
  ASSUME IInv, NEW a \in Accounts, ~Unsettled(acct[a]), NEW r \in Runs, runner[r].a = a, MaySend(r)
  PROVE  retired(r)
BY DEF IInv, Answerable

\* Save: the password; a result other than an uncertain one is forgotten.
LEMMA SaveStep == ASSUME IInv, NEW a \in Accounts, Save(a) PROVE IInv'
<1> DEFINE s == Closed(acct[a])
           t == _save_account(s)
<1>1. s \in State /\ control = None /\ ~running(acct[a])
  BY ClosedIs DEF Save, StoreFree
<1>2. t \in State /\ acct' = [acct EXCEPT ![a] = t] /\ UNCHANGED Rest
  BY <1>1 DEF Save, Rest, _save_account, State
<1>3. acct'[a] = t
  BY <1>2 DEF IInv, TypeOK
<1>4. /\ t.run = acct[a].run /\ t.pending = acct[a].pending /\ t.deleted = acct[a].deleted
      /\ t.generation = acct[a].generation /\ t.password
      /\ IF s.error \in Uncertain THEN t.error = s.error /\ t.status = s.status
         ELSE t.error = "none" /\ t.status = "configured" /\ s = acct[a] /\ s.status # "running"
  BY <1>1, ClosedIs DEF _save_account, State, Uncertain
<1>5. AccountIs(a)
  BY DEF IInv
<1>6. FileMoves(a)
  <2>1. CASE s.error \in Uncertain
    BY <1>1, <1>3, <1>4, <1>5, <2>1, ClosedIs, SMTT(30) DEF FileMoves, AccountIs, Unsettled, Uncertain
  <2>2. CASE s.error \notin Uncertain
    BY <1>1, <1>3, <1>4, <1>5, <2>2 DEF FileMoves, AccountIs, Unsettled
  <2> QED
    BY <2>1, <2>2
<1> HIDE DEF t
<1> QED
  BY <1>2, <1>6, OneFile

\* Receipt reconciliation: only a committed receipt settles the run.
LEMMA ReconcileStep == ASSUME IInv, NEW a \in Accounts, reconcile_account(a) PROVE IInv'
<1> DEFINE s == Closed(acct[a])
<1>1. s \in State /\ control = None /\ s.error \in Uncertain /\ UNCHANGED Rest
  BY ClosedIs DEF reconcile_account, StoreFree, Rest
<1>2. PICK outcome \in lookup(s.run) : acct' = [acct EXCEPT ![a] = reconciled_state(s, outcome)]
  BY DEF reconcile_account
<1> DEFINE t == reconciled_state(s, outcome)
<1>3. t \in State /\ acct'[a] = t
  <2>1. [s EXCEPT !.status = "completed", !.error = "none", !.due = "none"] \in State
    BY <1>1 DEF State
  <2>2. t \in State
    BY <1>1, <2>1 DEF reconciled_state
  <2> QED
    BY <1>2, <2>2 DEF IInv, TypeOK
<1>4. CASE t = s
  BY <1>1, <1>2, <1>3, <1>4, ClosedMoves, OneFile
<1>5. CASE t # s
  <2>1. outcome = "committed" /\ t = [s EXCEPT !.status = "completed", !.error = "none", !.due = "none"]
    BY <1>5 DEF reconciled_state
  <2>2. s.run \in guard.committed
    BY <2>1 DEF lookup
  <2>3. \A r \in Runs : r = s.run => ~MaySend(r)'
    <3>1. \A r \in guard.committed : r \in Runs /\ RunIs(r)
      BY DEF IInv, TypeOK, GuardTables
    <3>2. runner' = runner /\ post' = post
      BY <1>1 DEF Rest
    <3> QED
      BY <2>2, <3>1, <3>2 DEF RunIs, MaySend, Silent
  <2>4. /\ t.run = s.run /\ t.pending = s.pending /\ t.deleted = s.deleted /\ t.generation = s.generation
        /\ t.password = s.password /\ t.status = "completed" /\ t.error = "none"
    BY <1>1, <2>1 DEF State
  <2>5. FileMoves(a)
    BY <1>1, <1>3, <2>2, <2>3, <2>4, ClosedIs DEF FileMoves
  <2> HIDE DEF t
  <2> QED
    BY <1>1, <1>2, <1>3, <2>5, OneFile DEF t
<1> QED
  BY <1>4, <1>5
\* ---- launch() ----------------------------------------------------------------
\* A run of account a is launched, while the other files are left alone or closed.
Launched(a, r, t) ==
  /\ r = runs + 1 /\ r \in Runs /\ runs' = r
  /\ \E phase \in {"dead", "spawned"} :
       /\ runner' = [runner EXCEPT ![r] = [a |-> a, phase |-> phase, result |-> "none"]]
       /\ \/ t.status = "running" /\ t.error = "none"
          \/ phase = "dead" /\ t.status = "attention" /\ t.error = "failed"
  /\ t.run = r /\ t \in State /\ acct'[a] = t /\ DOMAIN acct' = Accounts /\ acct' = [b \in Accounts |-> acct'[b]]
  /\ ~acct[a].deleted /\ ~t.deleted /\ t.pending = acct[a].pending /\ t.generation = acct[a].generation
  /\ acct[a].password => t.password
  /\ \A b \in Accounts : b # a => acct'[b] = acct[b] \/ acct'[b] = Closed(acct[b])
LaunchedBy(q, a) == launches[q] = 0 /\ launches'[q] = 1 /\ forms[q] # None /\ forms[q].a = a /\ acct'[a].password

\* The account whose run was launched has settled its last one.
LEMMA LaunchStep ==
  ASSUME IInv, control = None, NEW a \in Accounts, ~Unsettled(acct[a]), NEW r, NEW t, Launched(a, r, t),
         UNCHANGED <<scene, post, guard, control, lposts, review, forms, count>>,
         launches' \in [Requests -> Nat], \A q \in Requests : launches'[q] = launches[q] \/ LaunchedBy(q, a)
  PROVE  IInv'
<1>0. /\ TypeOK /\ \A x \in Runs : RunIs(x) /\ Answerable(x)
      /\ \A b \in Accounts : AccountIs(b)
  BY DEF IInv
<1>1. r = runs + 1 /\ r \in Runs /\ runs' = r /\ runs \in Nat /\ Runs \subseteq Nat
  BY <1>0, RunNumbers, SMTT(30) DEF Launched, TypeOK
<1>2. PICK phase \in {"dead", "spawned"} :
        /\ runner' = [runner EXCEPT ![r] = [a |-> a, phase |-> phase, result |-> "none"]]
        /\ \/ t.status = "running" /\ t.error = "none"
           \/ phase = "dead" /\ t.status = "attention" /\ t.error = "failed"
  BY DEF Launched
<1>3. /\ runner'[r].a = a /\ runner'[r].phase = phase /\ runner'[r].result = "none"
      /\ \A x \in Runs : x # r => runner'[x] = runner[x]
  BY <1>0, <1>1, <1>2 DEF TypeOK
<1>4. \A b \in Accounts : b # a =>
        LET s == acct[b]
            u == acct'[b] IN
        /\ u \in State /\ u.run = s.run /\ u.pending = s.pending /\ u.deleted = s.deleted
        /\ u.generation = s.generation /\ u.password = s.password
        /\ u = s \/ (s.status = "running" /\ u.status = "attention" /\ u.error = "interrupted")
  BY <1>0, ClosedIs, SMTT(30) DEF Launched, TypeOK
<1>5. TypeOK'
  <2>1. acct' \in [Accounts -> State]
    BY <1>4 DEF Launched
  <2>2. [a |-> a, phase |-> phase, result |-> "none"] \in Process
    BY DEF Process, Phases
  <2>3. runner' \in [Runs -> Process]
    BY <1>0, <1>1, <1>2, <2>2 DEF TypeOK
  <2>4. runs' \in 0..MaxRuns
    BY <1>1, RunNumbers, SMTT(30)
  <2> QED
    BY <1>0, <2>1, <2>3, <2>4 DEF TypeOK
<1>6. \A x \in Runs : RunIs(x)'
  <2> SUFFICES ASSUME NEW x \in Runs PROVE RunIs(x)'
    OBVIOUS
  <2>1. CASE x = r
    BY <1>0, <1>1, <1>3, <2>1, SMTT(30) DEF RunIs, Silent
  <2>2. CASE x # r
    <3>1. x <= runs' <=> x <= runs
      BY <1>1, <2>2, SMTT(30)
    <3> QED
      BY <1>0, <1>3, <2>2, <3>1 DEF RunIs
  <2> QED
    BY <2>1, <2>2
<1>7. \A x \in Runs : Answerable(x)'
  <2> SUFFICES ASSUME NEW x \in Runs, MaySend(x)', ~retired(x)'
               PROVE  LET s == acct'[runner'[x].a] IN s.run = x /\ ~s.deleted /\ Unsettled(s)
    BY DEF Answerable, Unsettled
  <2>1. CASE x = r
    <3>1. post[r] = "none"
      BY <1>0, <1>1, SMTT(30) DEF RunIs
    <3>2. phase = "spawned"
      BY <1>3, <2>1, <3>1 DEF MaySend, Silent
    <3> QED
      BY <1>2, <1>3, <2>1, <3>2 DEF Launched, Unsettled
  <2>2. CASE x # r
    <3>1. runner'[x] = runner[x] /\ MaySend(x) /\ ~retired(x)
      BY <1>3, <2>2 DEF MaySend, retired
    <3>2. runner[x].a \in Accounts
      BY <3>1, SenderLaunched
    <3>3. LET s == acct[runner[x].a] IN s.run = x /\ ~s.deleted /\ Unsettled(s)
      BY <1>0, <3>1 DEF Answerable
    <3> QED
      BY <1>4, <3>1, <3>2, <3>3, SMTT(30) DEF Unsettled, Uncertain
  <2> QED
    BY <2>1, <2>2
<1>8. \A b \in Accounts : AccountIs(b)'
  <2> SUFFICES ASSUME NEW b \in Accounts PROVE AccountIs(b)'
    OBVIOUS
  <2>1. AccountIs(b) /\ acct[b].run \in 0..MaxRuns
    BY <1>0 DEF TypeOK, State
  <2>2. CASE b = a
    <3>1. post[r] = "none"
      BY <1>0, <1>1, SMTT(30) DEF RunIs
    <3>2. acct'[a].run = r /\ r # 0 /\ acct'[a].status \in {"running", "attention"}
      BY <1>1, <1>2, RunNumbers DEF Launched
    <3> QED
      BY <1>1, <1>2, <1>3, <2>1, <2>2, <3>1, <3>2, SMTT(30) DEF AccountIs, Launched
  <2>3. CASE b # a
    <3>1. acct[b].run # 0 => acct[b].run \in Runs /\ acct[b].run # r /\ acct[b].run <= runs'
      BY <1>1, <2>1, RunNumbers, SMTT(30) DEF AccountIs
    <3>2. acct[b].run # 0 => runner'[acct[b].run] = runner[acct[b].run]
      BY <1>3, <3>1
    <3> QED
      BY <1>4, <2>1, <2>3, <3>1, <3>2, SMTT(30) DEF AccountIs, retired
  <2> QED
    BY <2>2, <2>3
<1>9. \A b \in Accounts : acct'[b].pending = acct[b].pending
  BY <1>4 DEF Launched
<1>10. \A d \in Decisions' : DecisionIs(d)'
  <2>1. Decisions' = Decisions
    BY <1>9 DEF Decisions
  <2> QED
    BY <2>1 DEF IInv, DecisionIs, retired
<1>11. ControlIs'
  BY DEF ControlIs
<1>12. \A q \in Requests : FormIs(q)'
  <2> SUFFICES ASSUME NEW q \in Requests PROVE FormIs(q)'
    OBVIOUS
  <2>1. FormIs(q) /\ (forms[q] # None => forms[q].a \in Accounts)
    BY <1>0 DEF IInv, TypeOK, Form
  <2>2. CASE LaunchedBy(q, a)
    BY <2>1, <2>2 DEF FormIs, LaunchedBy
  <2>3. CASE launches'[q] = launches[q]
    <3>1. CASE launches[q] # 0 /\ forms[q].a = a
      BY <2>1, <2>3, <3>1 DEF FormIs, Launched
    <3>2. CASE launches[q] # 0 /\ forms[q].a # a
      BY <1>4, <2>1, <2>3, <3>2 DEF FormIs
    <3>3. CASE launches[q] = 0
      BY <2>1, <2>3, <3>3 DEF FormIs
    <3> QED
      BY <3>1, <3>2, <3>3
  <2> QED
    BY <2>2, <2>3
<1> QED
  BY <1>5, <1>6, <1>7, <1>8, <1>10, <1>11, <1>12 DEF IInv
\* launch() is such a step, from the files its caller has read and closed.
LEMMA LaunchEffect ==
  ASSUME IInv, NEW a \in Accounts, NEW all \in [Accounts -> State], launch(a, all),
         ~all[a].deleted, ~acct[a].deleted, all[a].pending = acct[a].pending, all[a].generation = acct[a].generation,
         acct[a].password => all[a].password,
         \A b \in Accounts : b # a => all[b] = acct[b] \/ all[b] = Closed(acct[b])
  PROVE  Launched(a, runs + 1, acct'[a]) /\ acct'[a].password = all[a].password
<1> DEFINE r == runs + 1
           s == Reserved(all[a], r)
<1>1. r \in Runs /\ runs' = r /\ r \in 0..MaxRuns
  <2>1. runs \in 0..MaxRuns /\ Bound.runs \in 0..MaxRuns
    BY BoundIs DEF IInv, TypeOK
  <2>2. runs < Bound.runs /\ runs' = r
    BY DEF launch
  <2> QED
    BY <2>1, <2>2, RunNumbers, SMTT(30)
<1>2. /\ s \in State /\ s.run = r /\ ~s.deleted /\ s.pending = all[a].pending /\ s.generation = all[a].generation
      /\ s.password = all[a].password /\ s.status = "running" /\ s.error = "none"
  <2>1. s = [all[a] EXCEPT !.status = "running", !.error = "none", !.run = r, !.age = "fresh", !.pid = FALSE,
                           !.intent = FALSE, !.due = next_run(all[a])]
    BY DEF Reserved
  <2>2. next_run(all[a]) \in {"none", "later", "now"} /\ all[a] \in State
    BY DEF next_run
  <2>3. PICK due \in {"none", "later", "now"} : due = next_run(all[a])
    BY <2>2
  <2>4. PICK x \in State : x = all[a]
    BY <2>2
  <2>5. s = [x EXCEPT !.status = "running", !.error = "none", !.run = r, !.age = "fresh", !.pid = FALSE,
                      !.intent = FALSE, !.due = due]
    BY <2>1, <2>3, <2>4
  <2> HIDE DEF r, s
  <2>6. s \in State
    BY <1>1, <2>5 DEF State
  <2>7. s.run = r /\ s.deleted = x.deleted /\ s.pending = x.pending /\ s.generation = x.generation
        /\ s.password = x.password /\ s.status = "running" /\ s.error = "none"
    BY <2>4, <2>5 DEF State
  <2> QED
    BY <2>4, <2>6, <2>7
<1>3. PICK how \in Bound.starts :
        /\ acct' = [all EXCEPT ![a] = CASE how = "started" -> [s EXCEPT !.pid = TRUE]
                                        [] how = "unknown" -> s
                                        [] OTHER -> [s EXCEPT !.status = "attention", !.error = "failed"]]
        /\ runner' = [runner EXCEPT ![r] = [a |-> a, phase |-> IF how = "failed" THEN "dead" ELSE "spawned",
                                            result |-> "none"]]
  BY DEF launch
<1> HIDE DEF s, r
<1> DEFINE t == CASE how = "started" -> [s EXCEPT !.pid = TRUE]
                  [] how = "unknown" -> s
                  [] OTHER -> [s EXCEPT !.status = "attention", !.error = "failed"]
<1>4. /\ t \in State /\ t.run = r /\ ~t.deleted /\ t.pending = s.pending /\ t.generation = s.generation
      /\ t.password = s.password
      /\ \/ how \in {"started", "unknown"} /\ t.status = "running" /\ t.error = "none"
         \/ how \notin {"started", "unknown"} /\ t.status = "attention" /\ t.error = "failed"
  <2>1. CASE how = "started"
    BY <1>2, <2>1 DEF State
  <2>2. CASE how = "unknown"
    BY <1>2, <2>2
  <2>3. CASE how \notin {"started", "unknown"}
    <3>1. t = [s EXCEPT !.status = "attention", !.error = "failed"]
      BY <2>3
    <3> QED
      BY <1>2, <2>3, <3>1 DEF State
  <2> QED
    BY <2>1, <2>2, <2>3
<1>5. how \in {"started", "unknown", "failed"}
  BY ScenesAssumption DEF Bound, IInv, TypeOK
<1>6. acct' = [all EXCEPT ![a] = t]
  BY <1>3
<1> HIDE DEF t
<1>7. acct'[a] = t /\ \A b \in Accounts : b # a => acct'[b] = all[b]
  BY <1>6
<1>8. DOMAIN acct' = Accounts /\ acct' = [b \in Accounts |-> acct'[b]]
  BY <1>6
<1>9. \E phase \in {"dead", "spawned"} :
        /\ runner' = [runner EXCEPT ![r] = [a |-> a, phase |-> phase, result |-> "none"]]
        /\ \/ t.status = "running" /\ t.error = "none"
           \/ phase = "dead" /\ t.status = "attention" /\ t.error = "failed"
  <2>1. CASE how = "failed"
    BY <1>3, <1>4, <2>1
  <2>2. CASE how \in {"started", "unknown"}
    BY <1>3, <1>4, <2>2
  <2> QED
    BY <1>5, <2>1, <2>2
<1> QED
  BY <1>1, <1>2, <1>4, <1>7, <1>8, <1>9 DEF Launched, r
\* A file that Closed() leaves certain is as it was.
LEMMA ClosedCertain ==
  ASSUME IInv, NEW a \in Accounts, ~running(acct[a]), Closed(acct[a]).error \notin Uncertain
  PROVE  Closed(acct[a]) = acct[a] /\ ~Unsettled(acct[a])
BY ClosedIs DEF Unsettled, Uncertain

\* collect: closes what was left, or launches.
LEMMA CollectStep == ASSUME IInv, NEW a \in Accounts, _collect_account(a) PROVE IInv'
<1> DEFINE s == Closed(acct[a])
           all == [acct EXCEPT ![a] = s]
<1>1. /\ control = None /\ acct[a].pending = None /\ ~acct[a].deleted /\ ~running(acct[a])
      /\ UNCHANGED <<scene, post, guard, control, lposts, review, forms, count, launches>>
  BY DEF _collect_account, StoreFree, _account_error
<1>2. acct \in [Accounts -> State] /\ launches \in [Requests -> Nat] /\ s \in State
  BY ClosedIs DEF IInv, TypeOK
<1>3. CASE s.error \notin Uncertain /\ launch(a, all)
  <2>1. s = acct[a] /\ ~Unsettled(acct[a])
    BY <1>1, <1>3, ClosedCertain
  <2>2. all = acct
    BY <1>2, <2>1
  <2>3. Launched(a, runs + 1, acct'[a])
    BY <1>1, <1>2, <1>3, <2>2, LaunchEffect
  <2> QED
    BY <1>1, <1>2, <2>1, <2>3, LaunchStep
<1>4. CASE acct' = all /\ UNCHANGED <<runs, runner>>
  <2>1. acct'[a] = s /\ UNCHANGED Rest
    BY <1>1, <1>2, <1>4 DEF Rest
  <2>2. FileMoves(a)
    BY <1>1, <2>1, ClosedMoves
  <2> HIDE DEF s
  <2> QED
    BY <1>2, <1>4, <2>1, <2>2, OneFile
<1> QED
  BY <1>3, <1>4 DEF _collect_account

\* tick: the scheduler closes what was left everywhere, and may launch one.
LEMMA TickStep == ASSUME IInv, tick PROVE IInv'
<1> DEFINE all == [a \in Accounts |-> Closed(acct[a])]
<1>1. /\ control = None /\ \A a \in Accounts : ~running(acct[a])
      /\ UNCHANGED <<scene, post, guard, control, lposts, review, forms, count, launches>>
  BY DEF tick, StoreFree, AnyRunning
<1>2. all \in [Accounts -> State] /\ launches \in [Requests -> Nat]
  BY ClosedIs DEF IInv, TypeOK
<1>3. ASSUME NEW a \in Accounts, Due(all[a]), launch(a, all) PROVE IInv'
  <2>1. all[a] = acct[a] /\ ~Unsettled(acct[a]) /\ ~acct[a].deleted
    BY <1>1, <1>3, ClosedCertain DEF Due
  <2>2. \A b \in Accounts : all[b] = Closed(acct[b])
    OBVIOUS
  <2>3. Launched(a, runs + 1, acct'[a])
    <3> HIDE DEF all
    <3> QED
      BY <1>2, <1>3, <2>1, <2>2, LaunchEffect
  <2> QED
    BY <1>1, <1>2, <2>1, <2>3, LaunchStep
<1>4. CASE acct' = all /\ UNCHANGED <<runs, runner>>
  <2>1. UNCHANGED Rest
    BY <1>1, <1>4 DEF Rest
  <2>2. \A a \in Accounts : FileMoves(a)
    BY <1>1, <1>4, ClosedMoves
  <2> QED
    BY <1>2, <1>4, <2>1, <2>2, OnlyFiles
<1> QED
  BY <1>3, <1>4 DEF tick

\* connect: a form that launched before finds a password, a deletion or a later connection.
LEMMA ConnectStep == ASSUME IInv, NEW q \in Requests, connect(q) PROVE IInv'
<1> DEFINE f == forms[q]
           a == f.a
           s == acct[a]
           u == [_save_account(s) EXCEPT !.request = q, !.enabled = TRUE, !.scheduled = FALSE, !.due = "none"]
           all == [acct EXCEPT ![a] = u]
<1>1. /\ control = None /\ f # None /\ s.pending = None /\ ~s.deleted /\ f.generation = s.generation
      /\ s.error \notin Uncertain /\ ~(s.status = "running" /\ ~running(s)) /\ ~s.password /\ ~AnyRunning
      /\ launch(a, all) /\ launches' = [launches EXCEPT ![q] = @ + 1]
      /\ UNCHANGED <<scene, post, guard, control, lposts, review, forms, count>>
  BY DEF connect, StoreFree, _account_error, SameGeneration
<1>2. a \in Accounts /\ acct \in [Accounts -> State] /\ launches \in [Requests -> Nat] /\ f.generation \in Nat
  BY <1>1 DEF IInv, TypeOK, Form
<1>3. ~Unsettled(s)
  BY <1>1, <1>2 DEF AnyRunning, Unsettled
<1>4. u \in State /\ ~u.deleted /\ u.pending = s.pending /\ u.generation = s.generation /\ u.password
  <2>1. _save_account(s) = [s EXCEPT !.password = TRUE, !.status = "configured", !.error = "none"]
    BY <1>1 DEF _save_account
  <2>2. s \in State
    BY <1>2
  <2> HIDE DEF s
  <2> QED
    BY <1>1, <2>1, <2>2 DEF State
<1>5. launches[q] = 0
  <2>1. FormIs(q)
    BY DEF IInv
  <2> QED
    BY <1>1, <1>2, <2>1, SMTT(30) DEF FormIs
<1>6. Launched(a, runs + 1, acct'[a]) /\ acct'[a].password
  <2>1. all \in [Accounts -> State] /\ all[a] = u /\ \A b \in Accounts : b # a => all[b] = acct[b]
    BY <1>2, <1>4
  <2> HIDE DEF u, all
  <2> QED
    BY <1>1, <1>2, <1>4, <2>1, LaunchEffect
<1>7. launches' \in [Requests -> Nat] /\ \A x \in Requests : launches'[x] = launches[x] \/ LaunchedBy(x, a)
  BY <1>1, <1>2, <1>5, <1>6, SMTT(30) DEF LaunchedBy
<1> HIDE DEF a, u, all
<1> QED
  BY <1>1, <1>2, <1>3, <1>6, <1>7, LaunchStep DEF a
\* ---- The runner. ---------------------------------------------------------------
Busy == {"begun", "collected", "checked", "import", "sent"}
Results == {"none", "failed", "completed", "unconfirmed"}

\* A process that is alive was launched for an account.
LEMMA Alive == ASSUME IInv, NEW r \in Runs, runner[r].phase # "dead" PROVE runner[r].a \in Accounts /\ runner[r] \in Process
<1>1. RunIs(r) /\ runner[r] \in Process
  BY DEF IInv, TypeOK
<1> QED
  BY <1>1 DEF RunIs

\* One process moves, and with it its POST and its account's file.
LEMMA RunnerMoves ==
  ASSUME IInv, NEW r \in Runs, runner[r].phase # "dead", NEW phase \in Phases, NEW result \in Results,
         Goto(r, phase, result), UNCHANGED Others,
         post' \in [Runs -> {"none", "flying", "committed", "refused"}], \A x \in Runs : x # r => post'[x] = post[x],
         RunIs(r)', MaySend(r)' => MaySend(r), phase \in Busy => runner[r].phase \in Busy \/ control = None,
         acct' \in [Accounts -> State], \A a \in Accounts : FileMoves(a)
  PROVE  IInv'
<1>0. /\ runner \in [Runs -> Process] /\ runs' = runs /\ guard' = guard
      /\ runner' = [runner EXCEPT ![r].phase = phase, ![r].result = result]
  BY DEF IInv, TypeOK, Others, Goto
<1>1. /\ runner' \in [Runs -> Process] /\ runner'[r].a = runner[r].a /\ runner'[r].phase = phase
      /\ \A x \in Runs : x # r => runner'[x] = runner[x]
  BY <1>0 DEF Process, Results
<1>2. TypeOK'
  BY <1>1 DEF IInv, TypeOK, Others
<1>3. ProcessesMove
  BY <1>0, <1>1, SMTT(30) DEF IInv, ProcessesMove, RunIs, MaySend, Ended
<1>4. control # None => CollectionFree'
  BY <1>1 DEF IInv, ControlIs, CollectionFree, Busy
<1> QED
  BY <1>2, <1>3, <1>4, FileStep

\* The same, when no file is written.
LEMMA RunnerAlone ==
  ASSUME IInv, NEW r \in Runs, runner[r].phase # "dead", NEW phase \in Phases, NEW result \in Results,
         Goto(r, phase, result), UNCHANGED Others, UNCHANGED acct,
         post' \in [Runs -> {"none", "flying", "committed", "refused"}], \A x \in Runs : x # r => post'[x] = post[x],
         RunIs(r)', MaySend(r)' => MaySend(r), phase \in Busy => runner[r].phase \in Busy \/ control = None
  PROVE  IInv'
<1>1. \A a \in Accounts : FileMoves(a)
  BY SameMoves DEF SameFile
<1>2. acct' \in [Accounts -> State]
  BY DEF IInv, TypeOK
<1> QED
  BY <1>1, <1>2, RunnerMoves

\* A process that has sent nothing goes on, fails or ends.
LEMMA SilentMove ==
  ASSUME IInv, NEW r \in Runs, runner[r].phase \in Silent, NEW phase \in (Silent \cup {"finishing", "dead"}),
         NEW result \in {"none", "failed"}, Goto(r, phase, result), UNCHANGED Others, UNCHANGED post
  PROVE  /\ RunIs(r)' /\ (MaySend(r)' => MaySend(r)) /\ post' \in [Runs -> {"none", "flying", "committed", "refused"}]
         /\ runner[r].phase # "dead" /\ phase \in Phases /\ result \in Results
         /\ (phase = "dead" => Ended(r)' /\ ~MaySend(r)')
<1>0. /\ runner \in [Runs -> Process] /\ runs' = runs /\ guard' = guard /\ post' = post
      /\ runner' = [runner EXCEPT ![r].phase = phase, ![r].result = result]
  BY DEF IInv, TypeOK, Others, Goto
<1>1. runner'[r].a = runner[r].a /\ runner'[r].phase = phase /\ runner'[r].result = result
  BY <1>0 DEF Process
<1>2. RunIs(r) /\ post[r] = "none"
  BY DEF IInv, RunIs
<1>3. post \in [Runs -> {"none", "flying", "committed", "refused"}]
  BY DEF IInv, TypeOK
<1> QED
  BY <1>0, <1>1, <1>2, <1>3 DEF RunIs, MaySend, Silent, Phases, Results, Ended

\* Begin and Collect.
LEMMA BeginStep == ASSUME IInv, NEW r \in Runs, Begin(r) \/ Collect(r) PROVE IInv'
<1>1. runner[r].phase \in {"spawned", "begun"} /\ UNCHANGED Others /\ UNCHANGED acct /\ UNCHANGED post
  BY DEF Begin, Collect, At, RunnerOnly, Others
<1>2. \E phase \in {"begun", "collected", "finishing", "dead"}, result \in {"none", "failed"} :
        Goto(r, phase, result) /\ (phase \in Busy => runner[r].phase \in Busy \/ control = None)
  BY DEF Begin, Collect, At, StoreFree, Busy
<1>3. PICK phase \in {"begun", "collected", "finishing", "dead"}, result \in {"none", "failed"} :
        Goto(r, phase, result) /\ (phase \in Busy => runner[r].phase \in Busy \/ control = None)
  BY <1>2
<1>4. runner[r].phase \in Silent /\ phase \in Silent \cup {"finishing", "dead"}
  BY <1>1 DEF Silent
<1> QED
  BY <1>1, <1>3, <1>4, SilentMove, RunnerAlone

\* The check under apply.lock: a run of a disabled account fails.
LEMMA CheckStep == ASSUME IInv, NEW r \in Runs, Check(r) PROVE IInv'
<1> DEFINE a == runner[r].a
<1>1. runner[r].phase = "collected" /\ runner[r].phase \in Silent /\ UNCHANGED Others /\ UNCHANGED post
  BY DEF Check, At, RunnerOnly, Others, Silent
<1>2. a \in Accounts /\ acct \in [Accounts -> State]
  BY <1>1, Alive DEF IInv, TypeOK
<1>3. ASSUME NEW phase \in {"finishing", "dead", "checked"}, NEW result \in {"none", "failed"}, Goto(r, phase, result), UNCHANGED acct
      PROVE  IInv'
  <2>1. phase \in Silent \cup {"finishing", "dead"} /\ runner[r].phase \in Busy
    BY <1>1 DEF Silent, Busy
  <2> QED
    BY <1>1, <1>3, <2>1, SilentMove, RunnerAlone
<1>4. CASE /\ Mine(r) /\ Goto(r, "dead", "none")
           /\ acct' = [acct EXCEPT ![a].status = "attention", ![a].error = "failed"]
  <2>1. RunIs(r)' /\ Ended(r)' /\ ~MaySend(r)' /\ post' \in [Runs -> {"none", "flying", "committed", "refused"}]
    BY <1>1, <1>4, SilentMove
  <2>2. acct[a].run = r /\ r # 0
    BY <1>4, RunNumbers DEF Mine
  <2> DEFINE t == [acct[a] EXCEPT !.status = "attention", !.error = "failed"]
  <2>3. t \in State /\ acct' = [acct EXCEPT ![a] = t]
    <3>1. acct[a] \in State
      BY <1>2
    <3> QED
      BY <1>2, <1>4, <3>1 DEF State
  <2>4. acct'[a] = t /\ acct' \in [Accounts -> State] /\ \A b \in Accounts : b # a => acct'[b] = acct[b]
    BY <1>2, <2>3
  <2>5. /\ t.run = r /\ t.pending = acct[a].pending /\ t.deleted = acct[a].deleted /\ t.password = acct[a].password
        /\ t.generation = acct[a].generation /\ t.status = "attention" /\ t.error = "failed"
    <3>1. acct[a] \in State
      BY <1>2
    <3> QED
      BY <2>2, <3>1 DEF State
  <2>6. control = None
    BY <1>1 DEF IInv, ControlIs, CollectionFree
  <2>7. FileMoves(a)
    <3> HIDE DEF t, a
    <3> QED
      BY <2>1, <2>2, <2>4, <2>5, <2>6 DEF FileMoves
  <2>8. \A b \in Accounts : FileMoves(b)
    BY <2>4, <2>7, SameMoves DEF SameFile
  <2>9. "dead" \in Phases /\ "none" \in Results /\ "dead" \notin Busy /\ runner[r].phase # "dead"
        /\ \A x \in Runs : post'[x] = post[x]
    BY <1>1 DEF Phases, Results, Busy
  <2> QED
    BY <1>1, <1>4, <2>1, <2>4, <2>8, <2>9, RunnerMoves
<1> QED
  BY <1>3, <1>4 DEF Check
\* The intent is written, or the run fails or just ends.
LEMMA IntendStep == ASSUME IInv, NEW r \in Runs, Intend(r) PROVE IInv'
<1> DEFINE a == runner[r].a
<1>1. runner[r].phase = "checked" /\ runner[r].phase \in Silent /\ UNCHANGED Others /\ UNCHANGED post
  BY DEF Intend, At, RunnerOnly, Others, Silent
<1>2. a \in Accounts /\ acct \in [Accounts -> State]
  BY <1>1, Alive DEF IInv, TypeOK
<1>3. ASSUME NEW phase \in {"import", "dead", "finishing"}, NEW result \in {"none", "failed"}, Goto(r, phase, result),
             acct' \in [Accounts -> State], \A b \in Accounts : SameFile(acct[b], acct'[b])
      PROVE  IInv'
  <2>1. phase \in Silent \cup {"finishing", "dead"} /\ runner[r].phase \in Busy
    BY <1>1 DEF Silent, Busy
  <2>2. \A b \in Accounts : FileMoves(b)
    BY <1>3, SameMoves
  <2> QED
    BY <1>1, <1>3, <2>1, <2>2, SilentMove, RunnerMoves
<1>4. CASE acct' = [acct EXCEPT ![a].intent = TRUE] /\ Goto(r, "import", "none")
  <2> DEFINE t == [acct[a] EXCEPT !.intent = TRUE]
  <2>0. t \in State /\ SameFile(acct[a], t)
    <3>1. acct[a] \in State
      BY <1>2
    <3> QED
      BY <3>1 DEF State, SameFile
  <2>1. acct' \in [Accounts -> State] /\ \A b \in Accounts : SameFile(acct[b], acct'[b])
    <3>1. acct' = [acct EXCEPT ![a] = t]
      BY <1>4
    <3> HIDE DEF t
    <3> QED
      BY <1>2, <2>0, <3>1 DEF SameFile
  <2> QED
    BY <1>3, <1>4, <2>1
<1>5. CASE Goto(r, "dead", "none") /\ UNCHANGED acct
  BY <1>2, <1>3, <1>5 DEF SameFile
<1>6. CASE Goto(r, "finishing", "failed") /\ UNCHANGED acct
  BY <1>2, <1>3, <1>6 DEF SameFile
<1> QED
  BY <1>4, <1>5, <1>6 DEF Intend

\* What a process does to itself.
LEMMA Gone ==
  ASSUME IInv, NEW r \in Runs, NEW phase, NEW result, Goto(r, phase, result)
  PROVE  runner'[r].a = runner[r].a /\ runner'[r].phase = phase /\ runner'[r].result = result
BY DEF IInv, TypeOK, Goto, Process

\* The POST is sent; its sender gets an answer, or none; the process dies.
LEMMA SendStep == ASSUME IInv, NEW r \in Runs, Send(r) PROVE IInv'
<1>1. /\ runner[r].phase = "import" /\ Goto(r, "sent", "none") /\ post' = [post EXCEPT ![r] = "flying"]
      /\ UNCHANGED Others /\ UNCHANGED acct
  BY DEF Send, At, RunnerOnly, Others
<1>2. post \in [Runs -> {"none", "flying", "committed", "refused"}] /\ RunIs(r) /\ runs' = runs /\ guard' = guard
  BY <1>1 DEF IInv, TypeOK, Others
<1>3. post'[r] = "flying" /\ post[r] = "none" /\ MaySend(r)
  BY <1>1, <1>2 DEF RunIs, MaySend, Silent
<1>4. runner'[r].a = runner[r].a /\ runner'[r].phase = "sent" /\ runner'[r].result = "none"
  BY <1>1, Gone
<1>5. RunIs(r)'
  BY <1>1, <1>2, <1>3, <1>4 DEF RunIs, Silent
<1>6. /\ post' \in [Runs -> {"none", "flying", "committed", "refused"}] /\ \A x \in Runs : x # r => post'[x] = post[x]
      /\ "sent" \in Phases /\ "none" \in Results /\ runner[r].phase \in Busy /\ runner[r].phase # "dead"
  BY <1>1, <1>2 DEF Phases, Results, Busy
<1> QED
  BY <1>1, <1>3, <1>5, <1>6, RunnerAlone

\* An answer reaches its run.
LEMMA AnswerStep == ASSUME IInv, NEW r \in Runs, Answer(r) PROVE IInv'
<1>1. runner[r].phase = "sent" /\ UNCHANGED Others /\ UNCHANGED acct /\ UNCHANGED post
  BY DEF Answer, At, RunnerOnly, Others
<1>2. PICK output \in child(r) : Goto(r, "finishing", confirmed_import(output))
  BY DEF Answer
<1> DEFINE result == confirmed_import(output)
<1>3. post \in [Runs -> {"none", "flying", "committed", "refused"}] /\ RunIs(r) /\ runs' = runs /\ guard' = guard
  BY <1>1 DEF IInv, TypeOK, Others
<1>4. /\ result \in Results
      /\ result = "completed" => post[r] = "committed"
      /\ result \notin {"completed", "unconfirmed"} => post[r] = "refused"
  <2>1. output = "unconfirmed" \/ output \in main(r)
    BY DEF child, child_result
  <2>2. output = "answer" => post[r] = "committed"
    BY <2>1 DEF main
  <2>3. output = "refused" => post[r] = "refused"
    BY <2>1 DEF main
  <2> QED
    BY <2>2, <2>3 DEF confirmed_import, Results
<1> HIDE DEF result
<1>5. runner'[r].a = runner[r].a /\ runner'[r].phase = "finishing" /\ runner'[r].result = result
  BY <1>2, Gone DEF result
<1>6. RunIs(r)'
  BY <1>1, <1>3, <1>4, <1>5 DEF RunIs, Silent
<1>7. /\ MaySend(r)' => MaySend(r)
      /\ post' \in [Runs -> {"none", "flying", "committed", "refused"}] /\ \A x \in Runs : x # r => post'[x] = post[x]
      /\ "finishing" \in Phases /\ "finishing" \notin Busy /\ runner[r].phase # "dead"
  BY <1>1, <1>3, <1>5 DEF MaySend, Silent, Phases, Busy
<1> QED
  BY <1>1, <1>2, <1>4, <1>6, <1>7, RunnerAlone DEF result

\* A run crashes.
LEMMA CrashStep == ASSUME IInv, NEW r \in Runs, Crash(r) PROVE IInv'
<1>1. runner[r].phase # "dead" /\ Goto(r, "dead", "none") /\ UNCHANGED Others /\ UNCHANGED acct
  BY DEF Crash, RunnerOnly, Others
<1>2. post' = post \/ (runner[r].phase = "import" /\ post' = [post EXCEPT ![r] = "flying"])
  BY DEF Crash, At
<1>3. post \in [Runs -> {"none", "flying", "committed", "refused"}] /\ RunIs(r) /\ runs' = runs /\ guard' = guard
  BY <1>1 DEF IInv, TypeOK, Others
<1>4. /\ post' \in [Runs -> {"none", "flying", "committed", "refused"}] /\ \A x \in Runs : x # r => post'[x] = post[x]
      /\ post'[r] = post[r] \/ (runner[r].phase = "import" /\ post'[r] = "flying")
  BY <1>2, <1>3
<1>5. runner'[r].a = runner[r].a /\ runner'[r].phase = "dead" /\ runner'[r].result = "none"
  BY <1>1, Gone
<1>6. RunIs(r)' /\ (MaySend(r)' => MaySend(r))
  BY <1>1, <1>3, <1>4, <1>5 DEF RunIs, Silent, MaySend
<1>7. "dead" \in Phases /\ "none" \in Results /\ "dead" \notin Busy
  BY DEF Phases, Results, Busy
<1> QED
  BY <1>1, <1>4, <1>6, <1>7, RunnerAlone

\* _finish_run: the result is written for the run the account still names.
LEMMA FinishStep == ASSUME IInv, NEW r \in Runs, _finish_run(r) PROVE IInv'
<1> DEFINE a == runner[r].a
           t == Finished(acct[a], runner[r].result)
<1>1. runner[r].phase = "finishing" /\ Goto(r, "dead", "none") /\ UNCHANGED Others /\ UNCHANGED post
  BY DEF _finish_run, At, RunnerOnly, Others
<1>2. /\ post \in [Runs -> {"none", "flying", "committed", "refused"}] /\ RunIs(r) /\ runs' = runs /\ guard' = guard
      /\ a \in Accounts /\ acct \in [Accounts -> State] /\ runner[r] \in Process
  BY <1>1, Alive DEF IInv, TypeOK, Others
<1>3. runner'[r].a = a /\ runner'[r].phase = "dead" /\ runner'[r].result = "none"
  BY <1>1, Gone
<1>4. /\ RunIs(r)' /\ (MaySend(r)' => MaySend(r)) /\ (\A x \in Runs : x # r => post'[x] = post[x])
      /\ post' \in [Runs -> {"none", "flying", "committed", "refused"}]
      /\ "dead" \in Phases /\ "none" \in Results /\ "dead" \notin Busy /\ runner[r].phase # "dead"
  BY <1>1, <1>2, <1>3 DEF RunIs, Silent, MaySend, Phases, Results, Busy
<1>5. CASE UNCHANGED acct
  BY <1>1, <1>4, <1>5, RunnerAlone
<1>6. CASE control = None /\ acct[a].run = r /\ acct' = [acct EXCEPT ![a] = t]
  <2>1. /\ t \in State /\ t.run = r /\ t.pending = acct[a].pending /\ t.deleted = acct[a].deleted
        /\ t.password = acct[a].password /\ t.generation = acct[a].generation
        /\ \/ runner[r].result = "completed" /\ t.status = "completed" /\ t.error = "none"
           \/ runner[r].result = "unconfirmed" /\ t.status = "attention" /\ t.error = "unconfirmed"
           \/ runner[r].result \notin {"completed", "unconfirmed"} /\ t.status = "attention" /\ t.error = "failed"
    <3>1. acct[a] \in State
      BY <1>2
    <3>2. CASE runner[r].result = "completed"
      <4>1. t = [acct[a] EXCEPT !.status = "completed", !.error = "none"]
        BY <3>2 DEF Finished
      <4> QED
        BY <1>6, <3>1, <3>2, <4>1 DEF State
    <3>3. CASE runner[r].result = "unconfirmed"
      <4>1. t = [acct[a] EXCEPT !.status = "attention", !.error = "unconfirmed", !.due = "none"]
        BY <3>3 DEF Finished
      <4> QED
        BY <1>6, <3>1, <3>3, <4>1 DEF State, Uncertain
    <3>4. CASE runner[r].result \notin {"completed", "unconfirmed"}
      <4>1. t = [acct[a] EXCEPT !.status = "attention", !.error = "failed"]
        BY <3>4 DEF Finished
      <4> QED
        BY <1>6, <3>1, <3>4, <4>1 DEF State
    <3> QED
      BY <3>2, <3>3, <3>4
  <2> HIDE DEF t
  <2>2. acct'[a] = t /\ acct' \in [Accounts -> State] /\ \A b \in Accounts : b # a => acct'[b] = acct[b]
    BY <1>2, <1>6, <2>1
  <2>3. FileMoves(a)
    <3>1. r # 0 /\ r = acct[a].run
      BY <1>6, RunNumbers
    <3>2. CASE runner[r].result = "completed"
      <4>1. r \in guard.committed /\ ~MaySend(r)'
        BY <1>1, <1>2, <1>3, <3>2 DEF RunIs, MaySend, Silent
      <4> QED
        BY <1>6, <2>1, <2>2, <3>1, <3>2, <4>1 DEF FileMoves
    <3>3. CASE runner[r].result = "unconfirmed"
      BY <1>6, <2>1, <2>2, <3>1, <3>3 DEF FileMoves, Unsettled, Uncertain
    <3>4. CASE runner[r].result \notin {"completed", "unconfirmed"}
      <4>1. Ended(r)' /\ ~MaySend(r)'
        BY <1>1, <1>2, <1>3, <3>4 DEF RunIs, MaySend, Silent, Ended
      <4> QED
        BY <1>6, <2>1, <2>2, <3>1, <3>4, <4>1 DEF FileMoves
    <3> QED
      BY <3>2, <3>3, <3>4
  <2>4. \A b \in Accounts : FileMoves(b)
    BY <2>2, <2>3, SameMoves DEF SameFile
  <2> QED
    BY <1>1, <1>4, <2>2, <2>4, RunnerMoves
<1> QED
  BY <1>5, <1>6 DEF _finish_run, StoreFree, Mine
\* ---- The Guard plugin. -----------------------------------------------------------
\* Guard's rows and receipts of runs; what is retired and decided stays.
LEMMA TablesStep ==
  ASSUME IInv, TypeOK', UNCHANGED <<scene, acct, runs, runner, control, lposts, review, forms, launches>>,
         count'.nonces = count.nonces, count'.tries = count.tries,
         guard'.retired = guard.retired, guard'.receipts = guard.receipts, guard.committed \subseteq guard'.committed,
         \A r \in Runs : RunIs(r)' /\ (MaySend(r)' => MaySend(r)) /\ (Ended(r) => Ended(r)')
  PROVE  IInv'
<1>1. \A r \in Runs : Answerable(r)'
  BY DEF IInv, Answerable, retired
<1>2. \A a \in Accounts : AccountIs(a)'
  <2> SUFFICES ASSUME NEW a \in Accounts PROVE AccountIs(a)'
    OBVIOUS
  <2>1. AccountIs(a) /\ acct[a].run \in 0..MaxRuns
    BY DEF IInv, TypeOK, State
  <2>2. acct[a].error = "failed" => acct[a].run \in Runs
    BY <2>1, RunNumbers, SMTT(30) DEF AccountIs
  <2> QED
    BY <2>1, <2>2 DEF AccountIs, retired, Ended
<1>3. \A d \in Decisions' : DecisionIs(d)'
  <2>1. Decisions' = Decisions
    BY DEF Decisions
  <2> QED
    BY <2>1 DEF IInv, DecisionIs, retired
<1>4. ControlIs'
  BY DEF IInv, ControlIs, CollectionFree, retired
<1>5. \A q \in Requests : FormIs(q)'
  BY DEF IInv, FormIs
<1> QED
  BY <1>1, <1>2, <1>3, <1>4, <1>5 DEF IInv

\* The import is committed whole, or refused.
LEMMA ServeStep == ASSUME IInv, NEW r \in Runs, ServeImport(r) PROVE IInv'
<1>0. TypeOK /\ RunIs(r) /\ post[r] = "flying" /\ runner[r].a \in Accounts
  <2>1. MaySend(r)
    BY DEF ServeImport, MaySend
  <2> QED
    BY <2>1, SenderLaunched DEF IInv, ServeImport
<1>1. UNCHANGED <<scene, acct, runs, runner, control, lposts, review, forms, count, launches>>
  BY DEF ServeImport
<1>2. /\ guard' \in GuardTables /\ guard'.retired = guard.retired /\ guard'.receipts = guard.receipts
      /\ \E answer \in {"refused", "committed"} :
           /\ post' = [post EXCEPT ![r] = answer]
           /\ guard'.committed = IF answer = "committed" THEN guard.committed \cup {r} ELSE guard.committed
  <2>1. CASE post' = [post EXCEPT ![r] = "refused"] /\ UNCHANGED guard
    BY <1>0, <2>1 DEF TypeOK
  <2>2. CASE post' = [post EXCEPT ![r] = "committed"] /\ guard' = Imported(r)
    <3>1. guard' = [guard EXCEPT !.committed = @ \cup {r}, !.revision[runner[r].a] = @ + 1]
      BY <2>2 DEF Imported
    <3>2. guard \in GuardTables
      BY <1>0 DEF TypeOK
    <3> DEFINE rev == [guard.revision EXCEPT ![runner[r].a] = @ + 1]
               com == guard.committed \cup {r}
    <3>3. rev \in [Accounts -> Nat] /\ com \in SUBSET Runs
      BY <1>0, <3>2, SMTT(30) DEF GuardTables
    <3>4. guard' = [guard EXCEPT !.committed = com, !.revision = rev]
      BY <3>1, <3>2 DEF GuardTables
    <3> HIDE DEF rev, com
    <3>5. guard' \in GuardTables /\ guard'.retired = guard.retired /\ guard'.receipts = guard.receipts /\ guard'.committed = com
      BY <3>2, <3>3, <3>4 DEF GuardTables
    <3> QED
      BY <2>2, <3>5 DEF com
  <2> QED
    BY <2>1, <2>2 DEF ServeImport
<1>3. PICK answer \in {"refused", "committed"} :
        /\ post' = [post EXCEPT ![r] = answer]
        /\ guard'.committed = IF answer = "committed" THEN guard.committed \cup {r} ELSE guard.committed
  BY <1>2
<1>4. /\ post' \in [Runs -> {"none", "flying", "committed", "refused"}] /\ post'[r] = answer
      /\ \A x \in Runs : x # r => post'[x] = post[x]
  BY <1>0, <1>3 DEF TypeOK
<1>5. TypeOK'
  BY <1>0, <1>1, <1>2, <1>4 DEF TypeOK
<1>6. \A x \in Runs : RunIs(x)' /\ (MaySend(x)' => MaySend(x)) /\ (Ended(x) => Ended(x)')
  <2> SUFFICES ASSUME NEW x \in Runs PROVE RunIs(x)' /\ (MaySend(x)' => MaySend(x)) /\ (Ended(x) => Ended(x)')
    OBVIOUS
  <2>1. RunIs(x)
    BY DEF IInv
  <2>2. CASE x = r
    BY <1>0, <1>1, <1>3, <1>4, <2>2 DEF RunIs, MaySend, Ended, Silent
  <2>3. CASE x # r
    BY <1>1, <1>3, <1>4, <2>1, <2>3 DEF RunIs, MaySend, Ended
  <2> QED
    BY <2>2, <2>3
<1> QED
  BY <1>1, <1>2, <1>3, <1>5, <1>6, TablesStep

\* Somebody edits a card.
LEMMA EditStep == ASSUME IInv, NEW a \in Accounts, Edit(a) PROVE IInv'
<1>1. /\ UNCHANGED <<scene, acct, runs, runner, post, control, lposts, review, forms, launches>>
      /\ count' = [count EXCEPT !.edits = @ + 1] /\ guard' = [guard EXCEPT !.revision[a] = @ + 1]
  BY DEF Edit
<1>2. guard \in GuardTables /\ count \in [nonces : Nat, tries : Nat, edits : Nat]
  BY DEF IInv, TypeOK
<1>3. /\ guard' \in GuardTables /\ guard'.retired = guard.retired /\ guard'.receipts = guard.receipts
      /\ guard'.committed = guard.committed
  BY <1>1, <1>2, SMTT(30) DEF GuardTables
<1>4. /\ count' \in [nonces : Nat, tries : Nat, edits : Nat] /\ count'.nonces = count.nonces /\ count'.tries = count.tries
  BY <1>1, <1>2, SMTT(30)
<1>5. TypeOK'
  BY <1>1, <1>3, <1>4 DEF IInv, TypeOK
<1>6. \A x \in Runs : RunIs(x)' /\ (MaySend(x)' => MaySend(x)) /\ (Ended(x) => Ended(x)')
  BY <1>1, <1>3 DEF IInv, RunIs, MaySend, Ended
<1> QED
  BY <1>1, <1>3, <1>4, <1>5, <1>6, TablesStep

\* A form is opened at the generation of its account.
LEMMA OpenFormStep == ASSUME IInv, NEW q \in Requests, OpenForm(q) PROVE IInv'
<1>1. /\ UNCHANGED <<scene, acct, runs, runner, post, guard, control, lposts, review, count, launches>> /\ forms[q] = None
      /\ TypeOK /\ Bound.accounts \subseteq Accounts
  BY BoundIs DEF OpenForm, IInv
<1>2. PICK a \in Bound.accounts : forms' = [forms EXCEPT ![q] = [a |-> a, generation |-> acct[a].generation]]
  BY DEF OpenForm
<1>3. a \in Accounts /\ acct[a].generation \in Nat /\ acct[a].generation <= count.nonces
  BY <1>1 DEF TypeOK, State, IInv, AccountIs
<1>4. /\ forms' \in [Requests -> {None} \cup Form] /\ forms'[q].generation = acct[a].generation
      /\ \A x \in Requests : x # q => forms'[x] = forms[x]
  BY <1>1, <1>2, <1>3 DEF TypeOK, Form
<1>5. TypeOK'
  BY <1>1, <1>4 DEF TypeOK
<1>6. \A x \in Requests : FormIs(x)'
  <2> SUFFICES ASSUME NEW x \in Requests PROVE FormIs(x)'
    OBVIOUS
  <2>1. FormIs(x)
    BY DEF IInv
  <2>2. CASE x = q
    BY <1>1, <1>3, <1>4, <2>1, <2>2 DEF FormIs
  <2>3. CASE x # q
    BY <1>1, <1>4, <2>1, <2>3 DEF FormIs
  <2> QED
    BY <2>2, <2>3
<1>7. /\ \A r \in Runs : RunIs(r)' /\ Answerable(r)'
      /\ \A b \in Accounts : AccountIs(b)'
  BY <1>1 DEF IInv, RunIs, Answerable, MaySend, AccountIs, retired
<1>8. ControlIs' /\ \A d \in Decisions' : DecisionIs(d)'
  <2>1. Decisions' = Decisions
    BY <1>1 DEF Decisions
  <2> QED
    BY <1>1, <2>1 DEF IInv, ControlIs, CollectionFree, DecisionIs, retired
<1> QED
  BY <1>1, <1>5, <1>6, <1>7, <1>8 DEF IInv
\* What execute() writes: the run of the decision is retired, no run is un-retired.
LEMMA ExecutedIs ==
  ASSUME IInv, NEW l \in lposts, guard' = Executed(l)
  PROVE  /\ guard' \in GuardTables /\ guard'.committed = guard.committed
         /\ guard'.receipts \subseteq guard.receipts \cup {l.nonce}
         /\ \A r \in Runs : retired(r) => retired(r)'
         /\ l.key # 0 => retired(l.key)'
<1>1. guard \in GuardTables /\ l \in Posted
  BY DEF IInv, TypeOK
<1> DEFINE ret == accept(l)
           epo == [guard.epoch EXCEPT ![l.a] = @ + 1]
           rec == IF l.operation = "baseline" THEN guard.receipts ELSE guard.receipts \cup {l.nonce}
           rev == [guard.revision EXCEPT ![l.a] = IF l.operation = "baseline" THEN @ ELSE @ + 1]
           fen == [guard.fence EXCEPT ![l.a] = CASE l.operation = "delete" -> TRUE [] l.operation = "activate" -> FALSE [] OTHER -> @]
<1>2. guard' = [guard EXCEPT !.retired = ret, !.epoch = epo, !.receipts = rec, !.revision = rev, !.fence = fen]
  BY <1>1 DEF Executed, GuardTables
<1>3. epo \in [Accounts -> Nat] /\ rev \in [Accounts -> Nat] /\ fen \in [Accounts -> BOOLEAN] /\ rec \in SUBSET Nat
  <2>1. epo \in [Accounts -> Nat] /\ rec \in SUBSET Nat
    BY <1>1, SMTT(30) DEF GuardTables, Posted
  <2>2. rev \in [Accounts -> Nat]
    BY <1>1, SMTT(30) DEF GuardTables, Posted
  <2>3. fen \in [Accounts -> BOOLEAN]
    BY <1>1 DEF GuardTables, Posted
  <2> QED
    BY <2>1, <2>2, <2>3
<1>4. Fingerprint(l.a, "baseline") \in Prints /\ Fingerprint(l.a, "baseline") # None
  <2>1. Fingerprint(l.a, "baseline") \in Prints
    BY <1>1 DEF Fingerprint, Prints, GuardTables, Posted
  <2> QED
    BY <2>1, NoneAssumption
<1>5. /\ ret \in [Runs -> {None} \cup Prints] /\ (\A r \in Runs : guard.retired[r] # None => ret[r] # None)
      /\ l.key # 0 => ret[l.key] # None
  <2>1. l.key # 0 => l.key \in Runs
    BY <1>1, RunNumbers, SMTT(30) DEF Posted
  <2> QED
    BY <1>1, <1>4, <2>1 DEF accept, GuardTables
<1> HIDE DEF ret, epo, rec, rev, fen
<1>6. guard' \in GuardTables /\ guard'.committed = guard.committed /\ guard'.receipts = rec /\ guard'.retired = ret
  BY <1>1, <1>2, <1>3, <1>5 DEF GuardTables
<1> QED
  BY <1>5, <1>6 DEF rec, retired

\* A lifecycle POST is answered.
LEMMA ExecuteStep == ASSUME IInv, NEW l \in lposts, execute(l) PROVE IInv'
<1>0. TypeOK /\ l \in Posted
  BY DEF IInv, TypeOK
<1>1. lposts' = lposts \ {l} /\ UNCHANGED <<scene, acct, runs, runner, post, review, forms, count, launches>>
  BY DEF execute
<1>2. /\ guard' \in GuardTables /\ guard'.committed = guard.committed
      /\ guard'.receipts \subseteq guard.receipts \cup {l.nonce}
      /\ \A r \in Runs : retired(r) => retired(r)'
      /\ guard'.receipts # guard.receipts /\ l.key # 0 => retired(l.key)'
  <2>1. CASE UNCHANGED guard
    BY <1>0, <2>1 DEF TypeOK, retired
  <2>2. CASE guard' = Executed(l)
    BY <2>2, ExecutedIs
  <2> QED
    BY <2>1, <2>2 DEF execute
<1>3. l \in Decisions /\ DecisionIs(l) /\ Decisions' \subseteq Decisions
  BY <1>1 DEF IInv, Decisions
<1>4. \/ Answered(l, "rolled_back")
      \/ Answered(l, "done") /\ (Retiring(l.operation, l.key) => retired(l.key)')
  <2>1. CASE Replay(l) /\ Answered(l, "done") /\ UNCHANGED guard
    <3>1. CASE l.operation = "baseline"
      <4>1. l.fingerprint # None
        BY <1>0, NoneAssumption DEF Posted
      <4> QED
        BY <2>1, <3>1, <4>1 DEF Replay, retired
    <3>2. CASE l.operation # "baseline"
      BY <1>3, <2>1, <3>2 DEF Replay, DecisionIs, retired
    <3> QED
      BY <3>1, <3>2
  <2>2. CASE Answered(l, "done") /\ guard' = Executed(l)
    <3>1. Retiring(l.operation, l.key) => l.key # 0
      BY <1>3 DEF Retiring, DecisionIs
    <3> QED
      BY <2>2, <3>1, ExecutedIs
  <2> QED
    BY <2>1, <2>2 DEF execute
<1>5. /\ control' \in {None} \cup Call /\ (control' # None <=> control # None)
      /\ control # None => control'.a = control.a /\ control'.try = control.try
      /\ control # None /\ control.try # l.try => control'.answer = control.answer
      /\ control # None /\ control.try = l.try =>
           (control'.answer = "done" => (Retiring(l.operation, l.key) => retired(l.key)'))
  <2>1. CASE control = None \/ control.try # l.try
    BY <1>0, <1>4, <2>1 DEF Answered, TypeOK
  <2>2. CASE control # None /\ control.try = l.try
    <3>1. control \in Call
      BY <1>0, <2>2 DEF TypeOK
    <3>2. ASSUME NEW answer \in {"done", "rolled_back"}, Answered(l, answer)
          PROVE  control' \in Call /\ control'.a = control.a /\ control'.try = control.try /\ control'.answer = answer
      BY <2>2, <3>1, <3>2 DEF Answered, Call
    <3> QED
      BY <1>4, <2>2, <3>2, NoneAssumption
  <2> QED
    BY <2>1, <2>2
<1>6. TypeOK'
  BY <1>0, <1>1, <1>2, <1>5 DEF TypeOK
<1>7. /\ \A r \in Runs : RunIs(r)' /\ Answerable(r)'
      /\ \A a \in Accounts : AccountIs(a)'
  <2>1. \A r \in Runs : RunIs(r)' /\ Answerable(r)'
    BY <1>1, <1>2 DEF IInv, RunIs, Answerable, MaySend
  <2> SUFFICES ASSUME NEW a \in Accounts PROVE AccountIs(a)'
    BY <2>1
  <2>2. AccountIs(a) /\ acct[a].run \in 0..MaxRuns
    BY <1>0 DEF IInv, TypeOK, State
  <2>3. acct[a].run # 0 => acct[a].run \in Runs
    BY <2>2, RunNumbers, SMTT(30)
  <2> QED
    BY <1>1, <1>2, <2>2, <2>3 DEF AccountIs
<1>8. \A d \in Decisions' : DecisionIs(d)'
  <2> SUFFICES ASSUME NEW d \in Decisions, d \in Decisions' PROVE DecisionIs(d)'
    BY <1>3
  <2>1. DecisionIs(d) /\ d.key \in 0..MaxRuns
    <3>1. d \in Posted \/ d \in Decision
      BY <1>0, SMTT(30) DEF Decisions, TypeOK, State
    <3> QED
      BY <3>1 DEF IInv, Posted, Decision
  <2>2. Retiring(d.operation, d.key) => d.key \in Runs /\ d.key # 0
    BY <2>1, RunNumbers, SMTT(30) DEF Retiring, DecisionIs
  <2>3. d.nonce = l.nonce => d.operation = l.operation /\ d.key = l.key
    BY <1>3 DEF DecisionIs
  <2>4. d.nonce \in guard'.receipts /\ Retiring(d.operation, d.key) => retired(d.key)'
    <3>1. CASE d.nonce \in guard.receipts
      BY <1>2, <2>1, <2>2, <3>1 DEF DecisionIs
    <3>2. CASE d.nonce \notin guard.receipts
      BY <1>2, <2>2, <2>3, <3>2 DEF retired
    <3> QED
      BY <3>1, <3>2
  <2> QED
    BY <1>1, <1>3, <2>1, <2>4 DEF DecisionIs
<1>9. ControlIs'
  <2> SUFFICES ASSUME control # None PROVE ControlIs'
    BY <1>5 DEF ControlIs
  <2> DEFINE p == acct[control.a].pending
  <2>1. control.a \in Accounts /\ p # None
    BY <1>0 DEF TypeOK, Call, IInv, ControlIs
  <2>2. p \in Decisions /\ p.key \in 0..MaxRuns
    BY <1>0, <2>1 DEF Decisions, TypeOK, State, Decision
  <2>3. Retiring(p.operation, p.key) => p.key \in Runs
    BY <2>2, RunNumbers, SMTT(30) DEF Retiring, DecisionIs, IInv
  <2>4. control.try = l.try => p.operation = l.operation /\ p.key = l.key
    BY <1>3, <2>2 DEF IInv, ControlIs, DecisionIs
  <2>5. control'.answer = "done" /\ Retiring(p.operation, p.key) => retired(p.key)'
    <3>1. CASE control.try = l.try
      BY <1>1, <1>5, <2>4, <3>1 DEF Retiring, retired
    <3>2. CASE control.try # l.try
      BY <1>1, <1>2, <1>5, <2>3, <3>2 DEF IInv, ControlIs
    <3> QED
      BY <3>1, <3>2
  <2> QED
    BY <1>1, <1>5, <2>1, <2>5 DEF IInv, ControlIs, CollectionFree
<1>10. /\ \A q \in Requests : FormIs(q)'
       /\ \A m \in lposts' : m.try <= count'.tries
       /\ \A n \in guard'.receipts : n <= count'.nonces
  BY <1>1, <1>2, <1>3 DEF IInv, FormIs, DecisionIs
<1> QED
  BY <1>6, <1>7, <1>8, <1>9, <1>10 DEF IInv

\* A plan is shown: nothing else changes.
LEMMA ReviewStep == ASSUME IInv, NEW a \in Bound.accounts, NEW operation \in Bound.operations, _review_lifecycle(a, operation) PROVE IInv'
<1>0. TypeOK /\ a \in Accounts /\ operation \in Operations
  BY BoundIs DEF IInv
<1>1. UNCHANGED <<scene, acct, runs, runner, post, guard, control, lposts, forms, count, launches>>
  BY DEF _review_lifecycle
<1>2. review' \in Planned
  <2>1. PICK key \in KeysOf(acct[a], operation) :
          review' = [a |-> a, operation |-> operation, key |-> key, fingerprint |-> Fingerprint(a, operation)]
    BY DEF _review_lifecycle
  <2>2. key \in 0..MaxRuns
    BY <1>0, RunNumbers, SMTT(30) DEF KeysOf, TypeOK, State, Operations
  <2>3. Fingerprint(a, operation) \in Prints
    BY <1>0 DEF Fingerprint, Prints, TypeOK, GuardTables
  <2> QED
    BY <1>0, <2>1, <2>2, <2>3 DEF Planned
<1>3. TypeOK'
  BY <1>0, <1>1, <1>2 DEF TypeOK
<1>4. /\ \A r \in Runs : RunIs(r)' /\ Answerable(r)'
      /\ \A b \in Accounts : AccountIs(b)'
      /\ \A q \in Requests : FormIs(q)'
  BY <1>1 DEF IInv, RunIs, Answerable, MaySend, AccountIs, FormIs, retired
<1>5. Decisions' = Decisions
  BY <1>1 DEF Decisions
<1>6. ControlIs' /\ \A d \in Decisions' : DecisionIs(d)'
  BY <1>1, <1>5 DEF IInv, ControlIs, CollectionFree, DecisionIs, retired
<1> QED
  BY <1>1, <1>3, <1>4, <1>6 DEF IInv

\* One file is written by a decision: its run is left as it was, or it was settled or retired.
LeavesRun(s, t) ==
  \/ t.run = s.run /\ t.deleted = s.deleted /\ t.status = s.status /\ t.error = s.error
  \/ ~Unsettled(s)
  \/ s.run \in Runs /\ retired(s.run)
KeepsForm(t, f) ==
  \/ t.password \/ t.generation > f.generation
  \/ t.deleted /\ (t.pending # None /\ t.pending.operation = "activate" => t.pending.nonce > f.generation)
\* A decision is written to the account's file.
LEMMA DecidedFile ==
  ASSUME IInv, NEW a \in Accounts, NEW t \in State, acct' = [acct EXCEPT ![a] = t],
         UNCHANGED <<runs, runner, post, guard, forms, launches>>,
         count'.nonces \in Nat, count.nonces <= count'.nonces, LeavesRun(acct[a], t), AccountIs(a)',
         \A q \in Requests : launches[q] # 0 /\ forms[q] # None /\ forms[q].a = a => KeepsForm(t, forms[q])
  PROVE  /\ \A r \in Runs : RunIs(r)' /\ Answerable(r)'
         /\ \A b \in Accounts : AccountIs(b)'
         /\ \A q \in Requests : FormIs(q)'
         /\ \A n \in guard'.receipts : n <= count'.nonces
<1>0. /\ TypeOK /\ acct \in [Accounts -> State] /\ count.nonces \in Nat
      /\ acct'[a] = t /\ \A b \in Accounts : b # a => acct'[b] = acct[b]
  BY DEF IInv, TypeOK
<1>1. \A r \in Runs : RunIs(r)'
  BY DEF IInv, RunIs
<1>2. \A r \in Runs : Answerable(r)'
  <2> SUFFICES ASSUME NEW r \in Runs, MaySend(r), ~retired(r)
               PROVE  LET s == acct'[runner[r].a] IN s.run = r /\ ~s.deleted /\ Unsettled(s)
    BY DEF Answerable, MaySend, Unsettled, retired
  <2>1. LET s == acct[runner[r].a] IN s.run = r /\ ~s.deleted /\ Unsettled(s)
    BY DEF IInv, Answerable
  <2>2. runner[r].a \in Accounts
    BY SenderLaunched
  <2>3. CASE runner[r].a = a
    BY <1>0, <2>1, <2>3 DEF LeavesRun, Unsettled
  <2>4. CASE runner[r].a # a
    BY <1>0, <2>1, <2>2, <2>4
  <2> QED
    BY <2>3, <2>4
<1>3. \A b \in Accounts : AccountIs(b)'
  <2> SUFFICES ASSUME NEW b \in Accounts, b # a PROVE AccountIs(b)'
    OBVIOUS
  <2>1. AccountIs(b) /\ acct'[b] = acct[b] /\ acct[b].generation \in Nat
    BY <1>0 DEF IInv, State
  <2> QED
    BY <1>0, <2>1, SMTT(30) DEF AccountIs, retired
<1>4. \A q \in Requests : FormIs(q)'
  <2> SUFFICES ASSUME NEW q \in Requests PROVE FormIs(q)'
    OBVIOUS
  <2>1. FormIs(q) /\ (forms[q] # None => forms[q] \in Form /\ forms[q].a \in Accounts /\ forms[q].generation \in Nat)
    BY <1>0 DEF IInv, TypeOK, Form
  <2>2. CASE forms[q] = None
    BY <2>1, <2>2 DEF FormIs
  <2>3. CASE forms[q] # None /\ forms[q].a = a
    BY <1>0, <2>1, <2>3, SMTT(30) DEF FormIs, KeepsForm
  <2>4. CASE forms[q] # None /\ forms[q].a # a
    BY <1>0, <2>1, <2>4, SMTT(30) DEF FormIs
  <2> QED
    BY <2>2, <2>3, <2>4
<1>5. \A n \in guard'.receipts : n <= count'.nonces
  BY <1>0, SMTT(30) DEF IInv, TypeOK, GuardTables
<1> QED
  BY <1>1, <1>2, <1>3, <1>4, <1>5

\* Decisions stay told apart when one is sent again, or a new one gets the next nonce.
LEMMA NewDecision ==
  ASSUME IInv, UNCHANGED guard, count.nonces \in Nat, NEW p,
         \A x \in Decisions' : x \in Decisions \/ (x.nonce = p.nonce /\ x.operation = p.operation /\ x.key = p.key),
         \/ p \in Decisions /\ count'.nonces = count.nonces
         \/ /\ p.nonce = count.nonces + 1 /\ count'.nonces = count.nonces + 1
            /\ p.operation = "baseline" => p.key # 0
  PROVE  \A d \in Decisions' : DecisionIs(d)'
<1>0. \A d \in Decisions : DecisionIs(d) /\ d.nonce \in Nat
  <2>1. \A d \in Decisions : d \in Posted \/ d \in Decision
    BY SMTT(30) DEF IInv, Decisions, TypeOK, State
  <2> QED
    BY <2>1 DEF IInv, Posted, Decision
<1>1. CASE p \in Decisions /\ count'.nonces = count.nonces
  <2>1. \A x \in Decisions' : \E y \in Decisions : x.nonce = y.nonce /\ x.operation = y.operation /\ x.key = y.key
    BY <1>1
  <2> SUFFICES ASSUME NEW d \in Decisions' PROVE DecisionIs(d)'
    OBVIOUS
  <2>2. PICK y \in Decisions : d.nonce = y.nonce /\ d.operation = y.operation /\ d.key = y.key
    BY <2>1
  <2>3. DecisionIs(y)
    BY <1>0
  <2>4. \A e \in Decisions' : e.nonce = d.nonce => e.operation = d.operation /\ e.key = d.key
    BY <2>1, <2>2, <2>3 DEF DecisionIs
  <2> QED
    BY <1>1, <2>2, <2>3, <2>4 DEF DecisionIs, retired, Retiring
<1>2. CASE /\ p.nonce = count.nonces + 1 /\ count'.nonces = count.nonces + 1
           /\ p.operation = "baseline" => p.key # 0
  <2> SUFFICES ASSUME NEW d \in Decisions' PROVE DecisionIs(d)'
    OBVIOUS
  <2>1. count.nonces + 1 \notin guard.receipts
    BY SMTT(30) DEF IInv, TypeOK, GuardTables
  <2>2. \A x \in Decisions : DecisionIs(x) /\ x.nonce \in Nat /\ x.nonce <= count.nonces /\ x.nonce # p.nonce
    BY <1>0, <1>2, SMTT(30) DEF DecisionIs
  <2>3. CASE d \in Decisions
    BY <1>2, <2>2, <2>3, SMTT(30) DEF DecisionIs, retired, Retiring
  <2>4. CASE d.nonce = p.nonce /\ d.operation = p.operation /\ d.key = p.key
    BY <1>2, <2>1, <2>2, <2>4, SMTT(30) DEF DecisionIs
  <2> QED
    BY <2>3, <2>4
<1> QED
  BY <1>1, <1>2

\* A decision is written and sent.
LEMMA ExecuteLifecycleStep == ASSUME IInv, NEW a \in Accounts, _execute_lifecycle(a) PROVE IInv'
<1> DEFINE s == acct[a]
           fresh == [a |-> a, operation |-> review.operation, key |-> review.key, fingerprint |-> review.fingerprint,
                     nonce |-> count.nonces + 1]
           p == IF s.pending # None THEN s.pending ELSE fresh
           t == [s EXCEPT !.pending = p, !.enabled = FALSE, !.due = "none"]
           l == [a |-> a, operation |-> p.operation, key |-> p.key, fingerprint |-> p.fingerprint,
                 nonce |-> p.nonce, try |-> count.tries + 1]
<1>0. TypeOK /\ s \in State /\ count \in [nonces : Nat, tries : Nat, edits : Nat] /\ AccountIs(a)
  BY DEF IInv, TypeOK
<1>1. /\ CollectionFree /\ _handle_account(s, p.operation, p.key) /\ (s.pending = None => review # None)
      /\ acct' = [acct EXCEPT ![a] = t] /\ lposts' = lposts \cup {l}
      /\ control' = [a |-> a, try |-> count.tries + 1, answer |-> None]
      /\ count' = [count EXCEPT !.tries = @ + 1, !.nonces = IF s.pending = None THEN @ + 1 ELSE @]
      /\ review' = IF s.pending = None THEN None ELSE review
      /\ UNCHANGED <<scene, runs, runner, post, guard, forms, launches>>
  BY DEF _execute_lifecycle
<1>2. /\ p \in Decision /\ p # None
      /\ IF s.pending = None THEN p.nonce = count.nonces + 1 ELSE p = s.pending
  <2>1. CASE s.pending = None
    <3>1. review \in Planned
      BY <1>0, <1>1, <2>1 DEF TypeOK
    <3>2. fresh \in Decision
      BY <1>0, <3>1, SMTT(30) DEF Planned, Decision
    <3> QED
      BY <2>1, <3>2, NoneAssumption
  <2>2. CASE s.pending # None
    BY <1>0, <2>2 DEF State
  <2> QED
    BY <2>1, <2>2
<1> HIDE DEF p
<1>3. /\ count' \in [nonces : Nat, tries : Nat, edits : Nat] /\ count'.tries = count.tries + 1
      /\ count'.nonces = IF s.pending = None THEN count.nonces + 1 ELSE count.nonces
  <2> DEFINE n == IF s.pending = None THEN count.nonces + 1 ELSE count.nonces
  <2>1. count' = [count EXCEPT !.tries = count.tries + 1, !.nonces = n] /\ n \in Nat /\ count.tries + 1 \in Nat
    BY <1>0, <1>1, SMTT(30)
  <2> HIDE DEF n
  <2>2. count \in [nonces : Nat, tries : Nat, edits : Nat]
    BY <1>0
  <2>3. count' \in [nonces : Nat, tries : Nat, edits : Nat]
    BY <2>1, <2>2
  <2>4. count'.tries = count.tries + 1 /\ count'.nonces = n
    BY <2>1, <2>2
  <2> QED
    BY <2>3, <2>4 DEF n
<1>4. /\ t \in State /\ t.pending = p /\ t.run = s.run /\ t.deleted = s.deleted /\ t.status = s.status /\ t.error = s.error
      /\ t.password = s.password /\ t.generation = s.generation
  BY <1>0, <1>2 DEF State
<1>5. /\ l \in Posted /\ l.nonce = p.nonce /\ l.operation = p.operation /\ l.key = p.key /\ l.try = count.tries + 1
  BY <1>0, <1>2, SMTT(30) DEF Posted, Decision
<1> HIDE DEF t, l
<1>6. acct \in [Accounts -> State] /\ acct'[a] = t /\ \A b \in Accounts : b # a => acct'[b] = acct[b]
  BY <1>0, <1>1 DEF TypeOK
<1>7. TypeOK'
  <2>1. acct' \in [Accounts -> State] /\ lposts' \subseteq Posted /\ control' \in Call /\ review' \in {None} \cup Planned
    BY <1>0, <1>1, <1>4, <1>5, <1>6, SMTT(30) DEF TypeOK, Call
  <2> QED
    BY <1>0, <1>1, <1>3, <2>1 DEF TypeOK
<1>8. AccountIs(a)'
  <2>1. p.operation = "activate" => s.deleted
    BY <1>1 DEF _handle_account
  <2>2. s.generation <= count'.nonces
    BY <1>0, <1>3, SMTT(30) DEF AccountIs, State
  <2> QED
    BY <1>0, <1>1, <1>4, <1>6, <2>1, <2>2 DEF AccountIs, retired
<1>9. \A q \in Requests : launches[q] # 0 /\ forms[q] # None /\ forms[q].a = a => KeepsForm(t, forms[q])
  <2> SUFFICES ASSUME NEW q \in Requests, launches[q] # 0, forms[q] # None, forms[q].a = a PROVE KeepsForm(t, forms[q])
    OBVIOUS
  <2>1. FormIs(q) /\ forms[q].generation \in Nat
    BY <1>0 DEF IInv, TypeOK, Form
  <2> QED
    BY <1>0, <1>2, <1>4, <2>1, SMTT(30) DEF FormIs, KeepsForm
<1>10. /\ \A r \in Runs : RunIs(r)' /\ Answerable(r)'
       /\ \A b \in Accounts : AccountIs(b)'
       /\ \A q \in Requests : FormIs(q)'
       /\ \A n \in guard'.receipts : n <= count'.nonces
  <2>1. LeavesRun(acct[a], t) /\ count'.nonces \in Nat /\ count.nonces <= count'.nonces
    BY <1>0, <1>3, <1>4, SMTT(30) DEF LeavesRun
  <2> QED
    BY <1>1, <1>4, <1>8, <1>9, <2>1, DecidedFile
<1>11. \A d \in Decisions' : DecisionIs(d)'
  <2>1. \A x \in Decisions' : x \in Decisions \/ (x.nonce = p.nonce /\ x.operation = p.operation /\ x.key = p.key)
    BY <1>1, <1>4, <1>5, <1>6 DEF Decisions
  <2>2. s.pending # None => p \in Decisions
    BY <1>2 DEF Decisions
  <2>3. p.operation = "baseline" => p.key # 0
    BY <1>0, <1>1 DEF _handle_account, Retiring, AccountIs, Uncertain
  <2> QED
    BY <1>0, <1>1, <1>2, <1>3, <2>1, <2>2, <2>3, NewDecision
<1>12. \A m \in lposts : m.try \in Nat /\ m.try <= count.tries
  BY <1>0 DEF IInv, TypeOK, Posted
<1>13. \A m \in lposts' : m.try <= count'.tries
  BY <1>0, <1>1, <1>3, <1>5, <1>12, SMTT(30)
<1>14. ControlIs'
  <2>1. control' # None /\ control'.a = a /\ control'.try = count.tries + 1 /\ control'.answer # "done"
    BY <1>0, <1>1, <1>7, NoneAssumption, SMTT(30) DEF TypeOK, Call
  <2>2. \A m \in lposts' : m.try = count.tries + 1 => m.nonce = p.nonce
    BY <1>0, <1>1, <1>5, <1>12, SMTT(30)
  <2>3. /\ s.status # "running"
        /\ IF Retiring(p.operation, p.key) THEN s.error \in Uncertain /\ p.key = s.run ELSE s.error \notin Uncertain
    BY <1>1 DEF _handle_account
  <2> QED
    BY <1>0, <1>1, <1>2, <1>3, <1>4, <1>6, <2>1, <2>2, <2>3, SMTT(30) DEF ControlIs, CollectionFree
<1> QED
  BY <1>7, <1>10, <1>11, <1>13, <1>14 DEF IInv

\* The file of an account that was never connected, and of a deleted one.
LEMMA BlankIs == /\ Blank \in State /\ Blank.pending = None /\ Blank.run = 0 /\ ~Blank.deleted /\ Blank.status = "none"
                 /\ Blank.error = "none" /\ Blank.generation = 0
<1>1. 0 \in 0..MaxRuns
  BY RunNumbers, SMTT(30)
<1> QED
  BY <1>1 DEF Blank, State
\* The state of a deleted account.
LEMMA DeletedIs == /\ Deleted \in State /\ Deleted.pending = None /\ Deleted.run = 0 /\ Deleted.deleted
                   /\ Deleted.status = "deleted" /\ Deleted.error = "none" /\ Deleted.generation = 0
BY BlankIs DEF Deleted, State

\* The call ends: its decision is applied, dropped or kept.
LEMMA FinishLifecycleStep == ASSUME IInv, _finish_lifecycle PROVE IInv'
<1>0. /\ control # None /\ control' = None
      /\ UNCHANGED <<scene, runs, runner, post, guard, lposts, review, forms, count, launches>>
  BY DEF _finish_lifecycle
<1>a. PICK a \in Accounts : a = control.a
  BY <1>0 DEF IInv, TypeOK, Call
<1> DEFINE s == acct[a]
           p == s.pending
<1>1. /\ TypeOK /\ s \in State /\ AccountIs(a) /\ p # None /\ p \in Decision /\ count.nonces \in Nat
      /\ acct \in [Accounts -> State]
  BY <1>0, <1>a DEF IInv, TypeOK, ControlIs, State
<1>2. /\ s.status # "running"
      /\ IF Retiring(p.operation, p.key) THEN s.error \in Uncertain /\ p.key = s.run ELSE s.error \notin Uncertain
      /\ control.answer = "done" /\ Retiring(p.operation, p.key) => retired(p.key)
      /\ p \in Decisions /\ p.nonce <= count.nonces
  BY <1>0, <1>a, <1>1 DEF IInv, ControlIs, Decisions, DecisionIs
<1>3. ASSUME NEW t \in State, acct' = [acct EXCEPT ![a] = t], t.pending \in {None, p}, LeavesRun(s, t), AccountIs(a)',
             \A q \in Requests : launches[q] # 0 /\ forms[q] # None /\ forms[q].a = a => KeepsForm(t, forms[q])
      PROVE  IInv'
  <2>1. acct' \in [Accounts -> State] /\ acct'[a] = t /\ \A b \in Accounts : b # a => acct'[b] = acct[b]
    BY <1>1, <1>3
  <2>2. TypeOK'
    BY <1>0, <1>1, <2>1 DEF TypeOK
  <2>3. Decisions' \subseteq Decisions
    BY <1>0, <1>1, <1>3, <2>1 DEF Decisions
  <2>4. \A d \in Decisions' : DecisionIs(d)'
    BY <1>0, <2>3 DEF IInv, DecisionIs, retired
  <2>5. /\ \A r \in Runs : RunIs(r)' /\ Answerable(r)'
        /\ \A b \in Accounts : AccountIs(b)'
        /\ \A q \in Requests : FormIs(q)'
        /\ \A n \in guard'.receipts : n <= count'.nonces
    <3>1. count'.nonces \in Nat /\ count.nonces <= count'.nonces
      BY <1>0, <1>1, SMTT(30)
    <3> QED
      BY <1>0, <1>1, <1>3, <3>1, DecidedFile
  <2> QED
    BY <1>0, <2>2, <2>4, <2>5 DEF IInv, ControlIs
<1>4. ASSUME NEW q \in Requests, launches[q] # 0, forms[q] # None, forms[q].a = a
      PROVE  /\ forms[q].generation \in Nat
             /\ \/ s.password \/ s.generation > forms[q].generation
                \/ s.deleted /\ (p.operation = "activate" => p.nonce > forms[q].generation)
  BY <1>1, <1>4 DEF IInv, FormIs, TypeOK, Form
<1>5. CASE UNCHANGED acct
  <2>1. acct' = [acct EXCEPT ![a] = s] /\ LeavesRun(s, s) /\ AccountIs(a)'
    BY <1>0, <1>1, <1>5 DEF LeavesRun, AccountIs, retired
  <2>2. \A q \in Requests : launches[q] # 0 /\ forms[q] # None /\ forms[q].a = a => KeepsForm(s, forms[q])
    BY <1>4 DEF KeepsForm
  <2> QED
    BY <1>1, <1>3, <2>1, <2>2
\* The decision is dropped, or it was to detach.
<1>6. ASSUME acct' = [acct EXCEPT ![a] = [s EXCEPT !.pending = None]] PROVE IInv'
  <2> DEFINE t == [s EXCEPT !.pending = None]
  <2>1. /\ t \in State /\ t.pending = None /\ t.run = s.run /\ t.deleted = s.deleted /\ t.status = s.status
        /\ t.error = s.error /\ t.password = s.password /\ t.generation = s.generation
    BY <1>1 DEF State
  <2>2. acct' = [acct EXCEPT ![a] = t]
    BY <1>6
  <2> HIDE DEF t
  <2>3. acct'[a] = t /\ LeavesRun(s, t)
    BY <1>1, <2>1, <2>2 DEF LeavesRun
  <2>4. AccountIs(a)'
    BY <1>0, <1>1, <2>1, <2>3 DEF AccountIs, retired
  <2>5. \A q \in Requests : launches[q] # 0 /\ forms[q] # None /\ forms[q].a = a => KeepsForm(t, forms[q])
    BY <1>4, <2>1 DEF KeepsForm
  <2> QED
    BY <1>3, <2>1, <2>2, <2>3, <2>4, <2>5
<1>7. CASE control.answer = "done" /\ acct' = [acct EXCEPT ![a] = Settled(s, p)]
  <2>1. CASE p.operation = "baseline"
    <3> DEFINE t == [s EXCEPT !.status = "baseline", !.error = "none", !.enabled = FALSE, !.scheduled = FALSE,
                              !.due = "none", !.pending = None]
    <3>1. acct' = [acct EXCEPT ![a] = t]
      BY <1>7, <2>1 DEF Settled
    <3>2. /\ t \in State /\ t.pending = None /\ t.run = s.run /\ t.deleted = s.deleted /\ t.status = "baseline"
          /\ t.error = "none" /\ t.password = s.password /\ t.generation = s.generation
      BY <1>1 DEF State
    <3> HIDE DEF t
    <3>3. s.run \in Runs /\ s.run # 0 /\ retired(s.run)
      BY <1>1, <1>2, <1>7, <2>1, RunNumbers, SMTT(30) DEF Retiring, AccountIs, Uncertain, State
    <3>4. acct'[a] = t /\ LeavesRun(s, t)
      BY <1>1, <3>1, <3>3 DEF LeavesRun
    <3>5. AccountIs(a)'
      BY <1>0, <1>1, <3>2, <3>3, <3>4 DEF AccountIs, retired
    <3>6. \A q \in Requests : launches[q] # 0 /\ forms[q] # None /\ forms[q].a = a => KeepsForm(t, forms[q])
      BY <1>4, <3>2 DEF KeepsForm
    <3> QED
      BY <1>3, <3>1, <3>2, <3>4, <3>5, <3>6
  <2>2. CASE p.operation = "delete"
    <3> DEFINE t == Deleted
    <3>1. acct' = [acct EXCEPT ![a] = t]
      BY <1>7, <2>2 DEF Settled
    <3>2. /\ t \in State /\ t.pending = None /\ t.run = 0 /\ t.deleted /\ t.status = "deleted"
          /\ t.error = "none" /\ t.generation = 0
      BY DeletedIs
    <3> HIDE DEF t
    <3>3. LeavesRun(s, t)
      <4>1. CASE Retiring(p.operation, p.key)
        <5>1. s.run \in Runs /\ retired(s.run)
          BY <1>1, <1>2, <1>7, <4>1, RunNumbers, SMTT(30) DEF AccountIs, Uncertain, State
        <5> QED
          BY <5>1 DEF LeavesRun
      <4>2. CASE ~Retiring(p.operation, p.key)
        BY <1>2, <4>2 DEF LeavesRun, Unsettled
      <4> QED
        BY <4>1, <4>2
    <3>4. acct'[a] = t
      BY <1>1, <3>1
    <3>5. AccountIs(a)'
      BY <1>0, <1>1, <3>2, <3>4, SMTT(30) DEF AccountIs, retired
    <3>6. \A q \in Requests : launches[q] # 0 /\ forms[q] # None /\ forms[q].a = a => KeepsForm(t, forms[q])
      BY <3>2 DEF KeepsForm
    <3> QED
      BY <1>3, <3>1, <3>2, <3>3, <3>5, <3>6
  <2>3. CASE p.operation = "activate"
    <3> DEFINE t == [s EXCEPT !.deleted = FALSE, !.status = "configured", !.error = "none", !.generation = p.nonce, !.pending = None]
    <3>1. acct' = [acct EXCEPT ![a] = t]
      BY <1>7, <2>3 DEF Settled
    <3>2. /\ t \in State /\ t.pending = None /\ t.run = s.run /\ ~t.deleted /\ t.status = "configured"
          /\ t.error = "none" /\ t.password = s.password /\ t.generation = p.nonce
      BY <1>1 DEF State, Decision
    <3> HIDE DEF t
    <3>3. LeavesRun(s, t) /\ acct'[a] = t
      BY <1>1, <1>2, <2>3, <3>1 DEF LeavesRun, Unsettled, Retiring
    <3>4. AccountIs(a)'
      BY <1>0, <1>1, <1>2, <3>2, <3>3 DEF AccountIs, retired
    <3>5. s.generation = 0
      BY <1>1, <2>3 DEF AccountIs
    <3>6. \A q \in Requests : launches[q] # 0 /\ forms[q] # None /\ forms[q].a = a => KeepsForm(t, forms[q])
      BY <1>4, <2>3, <3>2, <3>5, SMTT(30) DEF KeepsForm
    <3> QED
      BY <1>3, <3>1, <3>2, <3>3, <3>4, <3>6
  <2>4. CASE p.operation = "detach"
    BY <1>6, <1>7, <2>4 DEF Settled
  <2> QED
    BY <1>1, <2>1, <2>2, <2>3, <2>4 DEF Decision, Operations
<1>8. CASE acct' = [acct EXCEPT ![a].pending = None]
  BY <1>6, <1>8
<1> QED
  BY <1>a, <1>5, <1>7, <1>8 DEF _finish_lifecycle

\* Every start satisfies the invariant.
LEMMA InitInvariant == Init => IInv
<1> SUFFICES ASSUME Init PROVE IInv
  OBVIOUS
<1>1. /\ scene \in DOMAIN Scenes /\ runs = 0 /\ control = None /\ lposts = {} /\ review = None
      /\ acct = [a \in Accounts |-> Blank] /\ forms = [q \in Requests |-> None] /\ launches = [q \in Requests |-> 0]
      /\ post = [r \in Runs |-> "none"] /\ runner = [r \in Runs |-> [a |-> None, phase |-> "dead", result |-> "none"]]
      /\ count = [nonces |-> 0, tries |-> 0, edits |-> 0]
  BY DEF Init
<1>2. guard \in GuardTables /\ guard.committed = {} /\ guard.receipts = {}
  BY DEF Init, GuardTables
<1>3. \A r \in Runs : runner[r] \in Process /\ runner[r].phase = "dead" /\ runner[r].result = "none" /\ post[r] = "none"
  BY <1>1 DEF Process, Phases
<1>4. TypeOK
  <2>1. acct \in [Accounts -> State] /\ runs \in 0..MaxRuns
    BY <1>1, BlankIs, RunNumbers, SMTT(30)
  <2>2. runner \in [Runs -> Process] /\ post \in [Runs -> {"none", "flying", "committed", "refused"}]
    BY <1>1, <1>3
  <2>3. count \in [nonces : Nat, tries : Nat, edits : Nat] /\ count.nonces = 0
    BY <1>1
  <2> QED
    BY <1>1, <1>2, <2>1, <2>2, <2>3 DEF TypeOK
<1>5. \A r \in Runs : RunIs(r) /\ Answerable(r)
  BY <1>1, <1>2, <1>3, RunNumbers, SMTT(30) DEF RunIs, Answerable, MaySend, Silent
<1>6. \A a \in Accounts : AccountIs(a)
  BY <1>1, BlankIs, SMTT(30) DEF AccountIs
<1>7. Decisions = {} /\ ControlIs /\ \A q \in Requests : FormIs(q)
  BY <1>1, BlankIs DEF Decisions, ControlIs, FormIs
<1> QED
  BY <1>1, <1>2, <1>4, <1>5, <1>6, <1>7 DEF IInv

\* And every step keeps it.
LEMMA NextInvariant == IInv /\ [Next]_vars => IInv'
<1> SUFFICES ASSUME IInv, [Next]_vars PROVE IInv'
  OBVIOUS
<1>0. Bound.accounts \subseteq Accounts
  BY BoundIs DEF IInv
<1>1. CASE Administrator
  <2>1. ASSUME NEW a \in Bound.accounts, Save(a) \/ _collect_account(a) \/ reconcile_account(a) \/ _execute_lifecycle(a)
        PROVE  IInv'
    BY <1>0, <2>1, SaveStep, CollectStep, ReconcileStep, ExecuteLifecycleStep
  <2>2. ASSUME NEW a \in Bound.accounts, NEW on \in BOOLEAN, _set_enabled(a, on) \/ _set_schedule(a, on) PROVE IInv'
    BY <1>0, <2>2, SetEnabledStep, SetScheduleStep
  <2>3. ASSUME NEW a \in Bound.accounts, NEW operation \in Bound.operations, _review_lifecycle(a, operation) PROVE IInv'
    BY <2>3, ReviewStep
  <2>4. ASSUME NEW q \in Requests, OpenForm(q) \/ connect(q) PROVE IInv'
    BY <2>4, OpenFormStep, ConnectStep
  <2> QED
    BY <1>1, <2>1, <2>2, <2>3, <2>4 DEF Administrator
<1>2. CASE tick \/ _finish_lifecycle
  BY <1>2, TickStep, FinishLifecycleStep
<1>3. ASSUME NEW a \in Bound.accounts, Clock(a) \/ Age(a) \/ Hour(a) \/ Edit(a) PROVE IInv'
  BY <1>0, <1>3, ClockStep, EditStep
<1>4. ASSUME NEW r \in Runs, Runner(r) \/ Crash(r) \/ ServeImport(r) PROVE IInv'
  BY <1>4, BeginStep, CheckStep, IntendStep, SendStep, AnswerStep, FinishStep, CrashStep, ServeStep DEF Runner
<1>5. ASSUME NEW l \in lposts, execute(l) PROVE IInv'
  BY <1>5, ExecuteStep
<1>6. CASE UNCHANGED vars
  <2>1. UNCHANGED Rest /\ UNCHANGED acct
    BY <1>6 DEF vars, Rest
  <2>2. acct' \in [Accounts -> State] /\ \A a \in Accounts : FileMoves(a)
    BY <2>1, SameMoves DEF IInv, TypeOK, SameFile
  <2> QED
    BY <2>1, <2>2, OnlyFiles
<1> QED
  BY <1>1, <1>2, <1>3, <1>4, <1>5, <1>6 DEF Next

\* The state files, the runners, Guard's tables and the decisions stay consistent with each other,
\* for any number of accounts, runs, forms and decisions.
THEOREM AccountsInvariant == Spec => []IInv
BY InitInvariant, NextInvariant, PTL DEF Spec

\* What the file of an account says of its run is true, and no form launches two runs.
THEOREM AccountsAreHonest == Spec => []HonestAccount
<1>1. IInv => HonestAccount
  <2> SUFFICES ASSUME IInv PROVE HonestAccount
    OBVIOUS
  <2>1. ConnectOnce
    BY SMTT(30) DEF IInv, ConnectOnce, FormIs
  <2>2. ASSUME NEW a \in Accounts
        PROVE  LET s == acct[a] IN
               /\ s.status = "completed" => s.run \in guard.committed
               /\ s.status = "baseline" => retired(s.run)
               /\ s.error = "failed" => s.run \notin guard.committed /\ post[s.run] # "flying"
    <3>1. AccountIs(a) /\ acct[a].run \in 0..MaxRuns
      BY DEF IInv, TypeOK, State
    <3>2. acct[a].error = "failed" => acct[a].run \in Runs /\ RunIs(acct[a].run)
      BY <3>1, RunNumbers, SMTT(30) DEF IInv, AccountIs
    <3> QED
      BY <3>1, <3>2 DEF AccountIs, RunIs
  <2> QED
    BY <2>1, <2>2 DEF HonestAccount
<1> QED
  BY <1>1, AccountsInvariant, PTL

\* Only ServeImport commits a run, and of the run its account names.
THEOREM ImportsAreCurrent == Spec => ImportIsCurrent
<1>1. ASSUME IInv, [Next]_vars
      PROVE  [\A r \in guard'.committed \ guard.committed :
                LET s == acct[runner[r].a] IN s.run = r /\ ~s.deleted /\ ~retired(r)]_vars
  <2> SUFFICES ASSUME NEW r \in guard'.committed \ guard.committed
               PROVE  LET s == acct[runner[r].a] IN s.run = r /\ ~s.deleted /\ ~retired(r)
    OBVIOUS
  <2>1. guard' # guard
    OBVIOUS
  <2>2. \A l \in lposts : ~execute(l)
    <3>1. ASSUME NEW l \in lposts, execute(l) PROVE guard'.committed = guard.committed
      BY <1>1, <3>1, ExecutedIs DEF execute
    <3> QED
      BY <3>1
  <2>3. \A a \in Accounts : ~Edit(a)
    <3>1. ASSUME NEW a \in Accounts, Edit(a) PROVE guard'.committed = guard.committed
      BY <1>1, <3>1 DEF Edit, IInv, TypeOK, GuardTables
    <3> QED
      BY <3>1
  <2>4. PICK x \in Runs : ServeImport(x) /\ guard' # guard
    <3>1. Bound.accounts \subseteq Accounts
      BY <1>1, BoundIs DEF IInv
    <3>2. ~Administrator
      BY <2>1 DEF Administrator, Save, _collect_account, reconcile_account, _execute_lifecycle, _set_enabled,
         _set_schedule, _review_lifecycle, OpenForm, connect
    <3>3. ~tick /\ ~_finish_lifecycle /\ \A a \in Bound.accounts : ~Clock(a) /\ ~Age(a) /\ ~Hour(a)
      BY <2>1 DEF tick, _finish_lifecycle, Clock, Age, Hour
    <3>4. \A y \in Runs : ~Runner(y) /\ ~Crash(y)
      BY <2>1 DEF Runner, Begin, Collect, Check, Intend, Send, Answer, _finish_run, Crash, RunnerOnly
    <3> QED
      BY <1>1, <2>1, <2>2, <2>3, <3>1, <3>2, <3>3, <3>4 DEF Next, vars
  <2>5. post[x] = "flying" /\ Importable(x) /\ guard' = Imported(x)
    BY <2>4 DEF ServeImport
  <2>6. r = x
    BY <1>1, <2>5 DEF Imported, IInv, TypeOK, GuardTables
  <2>7. MaySend(x) /\ ~retired(x)
    BY <2>5 DEF MaySend, Importable
  <2> QED
    BY <1>1, <2>6, <2>7 DEF IInv, Answerable
<1> QED
  BY <1>1, AccountsInvariant, PTL DEF Spec, ImportIsCurrent
=============================================================================
