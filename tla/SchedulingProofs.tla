-------------------------- MODULE SchedulingProofs --------------------------
(* The cadence of scheduled runs, for any sources, intervals, calendars and  *)
(* bounds.                                                                   *)
EXTENDS Scheduling, TLAPS
USE ZenonT(30)

\* What OneRunPerSlot, IntervalKept and NoRecentOverlap say of the runs of one source.
Cadence(q) ==
    /\ \A i \in 1..Len(q) : q[i].rule.calendar # NoCalendar =>
          \E u \in Slots[q[i].rule.calendar] : /\ q[i].rule.changed < u
                                               /\ u <= q[i].started
                                               /\ i > 1 => q[i - 1].started < u
    /\ \A i \in 2..Len(q) : q[i].rule.calendar = NoCalendar => q[i].started >= q[i - 1].started + q[i].rule.interval
    /\ \A i, j \in 1..Len(q) : /\ q[i].status = "RUNNING"
                               /\ q[j].status = "RUNNING"
                               /\ i < j
                               => q[j].started > q[i].started + Stale

\* What StillDue says of a schedule, the runs and the moment.
DueBy(r, q, t) ==
    /\ r.sync
    /\ \A i \in 1..Len(q) : q[i].status = "RUNNING" => t > q[i].started + Stale
    /\ r.calendar = NoCalendar => (q # << >> => t >= q[Len(q)].started + r.interval)
    /\ r.calendar # NoCalendar => \E u \in Slots[r.calendar] : /\ r.changed < u
                                                               /\ u <= t
                                                               /\ q # << >> => q[Len(q)].started < u

\* The three properties of the history are Cadence of every source.
LEMMA CadenceIs == (OneRunPerSlot /\ IntervalKept /\ NoRecentOverlap) <=> \A s \in Source : Cadence(runs[s])
  BY DEF OneRunPerSlot, IntervalKept, NoRecentOverlap, Running, Cadence

\* StillDue is DueBy of the tick's copy, the history and the clock.
LEMMA StillDueIs == ASSUME NEW s \in Source PROVE StillDue(s) <=> DueBy(loaded[s], runs[s], now)
  BY DEF StillDue, Running, Latest, DueBy

\* The same of the next state.
LEMMA NextIs == /\ (\A s \in Source : Cadence(runs'[s])) => (OneRunPerSlot /\ IntervalKept /\ NoRecentOverlap)'
                /\ \A s \in Source : DueBy(loaded'[s], runs'[s], now') => StillDue(s)'
<1>1. (\A s \in Source : Cadence(runs'[s])) => (OneRunPerSlot /\ IntervalKept /\ NoRecentOverlap)'
  BY DEF OneRunPerSlot, IntervalKept, NoRecentOverlap, Running, Cadence
<1>2. \A s \in Source : DueBy(loaded'[s], runs'[s], now') => StillDue(s)'
  BY DEF StillDue, Running, Latest, DueBy
<1>3. QED
  BY <1>1, <1>2

\* A clock of the model is a natural number.
LEMMA ClockIsNat == Time \subseteq Nat
  BY SchedulingAssumption, SMTT(30) DEF Time

\* The fields of a row and of a run.
LEMMA Fields == /\ \A r \in Schedule : /\ r.interval \in Nat
                                       /\ r.changed \in Time /\ r.changed \in Nat
                                       /\ r.calendar # NoCalendar => r.calendar \in Calendar
                /\ \A x \in Run : x.started \in Nat /\ x.started \in Time /\ x.rule \in Schedule
  BY ClockIsNat, SchedulingAssumption DEF Schedule, Run

\* next_slot returns a slot later than the moment asked about.
LEMMA NextSlotLater == ASSUME NEW c \in Calendar, NEW t \in Time
                       PROVE  NextSlot(c, t) \in Slots[c] /\ NextSlot(c, t) > t /\ NextSlot(c, t) \in Nat
  BY SchedulingAssumption DEF NextSlot

\* A source that is due stays due while only time passes.
LEMMA DueLater == ASSUME NEW r \in Schedule, NEW q \in Seq(Run), NEW t \in Nat, NEW u \in Nat, t <= u, DueBy(r, q, t)
                  PROVE  DueBy(r, q, u)
<1>1. \A i \in 1..Len(q) : q[i].started \in Nat
  BY Fields, SMTT(30)
<1>2. q # << >> => Len(q) \in 1..Len(q)
  BY SMTT(30)
<1>3. \A c \in Calendar : Slots[c] \subseteq Nat
  BY SchedulingAssumption
<1>4. r.interval \in Nat /\ (r.calendar # NoCalendar => r.calendar \in Calendar) /\ Stale \in Nat
  BY Fields, SchedulingAssumption
<1>5. r.calendar # NoCalendar => \E v \in Slots[r.calendar] : r.changed < v /\ v <= u /\ (q # << >> => q[Len(q)].started < v)
  BY <1>3, <1>4, SMTT(30) DEF DueBy
<1>6. \A i \in 1..Len(q) : q[i].status = "RUNNING" => u > q[i].started + Stale
  BY <1>1, <1>4, SMTT(30) DEF DueBy
<1>7. r.calendar = NoCalendar => (q # << >> => u >= q[Len(q)].started + r.interval)
  BY <1>1, <1>2, <1>4, SMTT(30) DEF DueBy
<1>8. QED
  BY <1>5, <1>6, <1>7 DEF DueBy

\* evaluate_schedule: an eligible source is due by its copy of the schedule.
LEMMA EligibleIsDue == ASSUME TypeOK, NEW s \in Source, Eligible(s, loaded[s], now)
                       PROVE  DueBy(loaded[s], runs[s], now)
<1> DEFINE r == loaded[s]
           q == runs[s]
<1>1. r \in Schedule /\ q \in Seq(Run) /\ now \in Nat /\ now \in Time
  BY ClockIsNat DEF TypeOK
<1>2. q # << >> => Len(q) \in 1..Len(q) /\ q[Len(q)] \in Run
  BY <1>1, SMTT(30)
<1>3. r.sync
  BY DEF Eligible
<1>4. \A i \in 1..Len(q) : q[i].status = "RUNNING" => now > q[i].started + Stale
  BY <1>1, Fields, SchedulingAssumption, SMTT(30) DEF Eligible, Blocked, Running
<1>5. r.calendar = NoCalendar => (q # << >> => now >= q[Len(q)].started + r.interval)
  BY DEF Eligible, NextExpected, Latest
<1>6. ASSUME r.calendar # NoCalendar
      PROVE  \E u \in Slots[r.calendar] : r.changed < u /\ u <= now /\ (q # << >> => q[Len(q)].started < u)
  <2> DEFINE a == IF q = << >> THEN r.changed ELSE Later(q[Len(q)].started, r.changed)
  <2>1. /\ r.changed \in Time /\ r.changed \in Nat
        /\ r.calendar \in Calendar
        /\ q # << >> => q[Len(q)].started \in Time /\ q[Len(q)].started \in Nat
    BY <1>1, <1>2, <1>6, Fields
  <2>2. a \in Time /\ a \in Nat /\ r.changed <= a /\ (q # << >> => q[Len(q)].started <= a)
    BY <2>1, SMTT(30) DEF Later
  <2>3. now >= NextSlot(r.calendar, a)
    BY <1>6 DEF Eligible, NextExpected, Latest
  <2> HIDE DEF a, q, r
  <2>4. NextSlot(r.calendar, a) \in Slots[r.calendar] /\ NextSlot(r.calendar, a) > a /\ NextSlot(r.calendar, a) \in Nat
    BY <2>1, <2>2, NextSlotLater
  <2>5. QED
    BY <1>1, <2>1, <2>2, <2>3, <2>4, SMTT(30)
<1>7. QED
  BY <1>3, <1>4, <1>5, <1>6 DEF DueBy

\* start_run of a source that is due keeps the cadence.
LEMMA CadenceStart ==
  ASSUME NEW q \in Seq(Run), NEW r \in Schedule, NEW t \in Time, Cadence(q), DueBy(r, q, t)
  PROVE  LET p == Append(q, [started |-> t, status |-> "RUNNING", rule |-> r])
         IN  p \in Seq(Run) /\ p # << >> /\ Cadence(p)
<1> DEFINE x == [started |-> t, status |-> "RUNNING", rule |-> r]
           p == Append(q, x)
           n == Len(q)
<1>1. x \in Run /\ x.started = t /\ x.status = "RUNNING" /\ x.rule = r
  BY DEF Run
<1> HIDE DEF x
<1>2. p \in Seq(Run) /\ p # << >> /\ n \in Nat /\ Len(p) = n + 1 /\ p[n + 1] = x
  BY <1>1, SMTT(30)
<1>3. \A i \in 1..n : p[i] = q[i] /\ q[i] \in Run
  BY <1>1, SMTT(30)
<1>4. n > 0 => p[n] = q[n] /\ q[n] \in Run /\ q # << >>
  BY <1>2, <1>3, SMTT(30)
<1> HIDE DEF p
<1>5. \A i \in 1..n : i > 1 => i - 1 \in 1..n /\ p[i - 1] = q[i - 1]
  BY <1>2, <1>3, SMTT(30)
<1>6. ASSUME NEW i \in 1..Len(p), p[i].rule.calendar # NoCalendar
      PROVE  \E u \in Slots[p[i].rule.calendar] : /\ p[i].rule.changed < u
                                                  /\ u <= p[i].started
                                                  /\ i > 1 => p[i - 1].started < u
  <2>1. CASE i \in 1..n
    BY <1>3, <1>5, <1>6, <2>1 DEF Cadence
  <2>2. CASE i = n + 1
    <3>1. i > 1 => n > 0 /\ i - 1 = n
      BY <1>2, <2>2, SMTT(30)
    <3>2. p[i].rule = r /\ p[i].started = t
      BY <1>1, <1>2, <2>2
    <3>3. QED
      BY <1>4, <1>6, <3>1, <3>2 DEF DueBy
  <2>3. QED
    BY <1>2, <2>1, <2>2, SMTT(30)
<1>7. ASSUME NEW i \in 2..Len(p), p[i].rule.calendar = NoCalendar
      PROVE  p[i].started >= p[i - 1].started + p[i].rule.interval
  <2>1. CASE i \in 2..n
    BY <1>2, <1>3, <1>5, <1>7, <2>1, SMTT(30) DEF Cadence
  <2>2. CASE i = n + 1
    <3>1. n > 0 /\ i - 1 = n
      BY <1>2, <2>2, SMTT(30)
    <3>2. p[i].rule = r /\ p[i].started = t
      BY <1>1, <1>2, <2>2
    <3>3. QED
      BY <1>4, <1>7, <3>1, <3>2 DEF DueBy
  <2>3. QED
    BY <1>2, <2>1, <2>2, SMTT(30)
<1>8. ASSUME NEW i \in 1..Len(p), NEW j \in 1..Len(p), p[i].status = "RUNNING", p[j].status = "RUNNING", i < j
      PROVE  p[j].started > p[i].started + Stale
  <2>1. CASE j \in 1..n
    BY <1>2, <1>3, <1>8, <2>1, SMTT(30) DEF Cadence
  <2>2. CASE j = n + 1
    BY <1>1, <1>2, <1>3, <1>8, <2>2, SMTT(30) DEF DueBy
  <2>3. QED
    BY <1>2, <2>1, <2>2, SMTT(30)
<1>9. Cadence(p)
  BY <1>6, <1>7, <1>8 DEF Cadence
<1>10. QED
  BY <1>2, <1>9 DEF p, x

\* finish_run changes the status of the latest run only, and keeps the cadence.
LEMMA CadenceFinish ==
  ASSUME NEW q \in Seq(Run), q # << >>, Cadence(q)
  PROVE  LET p == [q EXCEPT ![Len(q)].status = "ENDED"]
         IN  p \in Seq(Run) /\ Len(p) = Len(q) /\ Cadence(p)
<1> DEFINE n == Len(q)
           p == [q EXCEPT ![n].status = "ENDED"]
           x == [q[n] EXCEPT !.status = "ENDED"]
<1>1. n \in Nat \ {0} /\ n \in 1..n /\ q[n] \in Run
  BY SMTT(30)
<1>2. x \in Run /\ x.started = q[n].started /\ x.status = "ENDED" /\ x.rule = q[n].rule
  BY <1>1 DEF Run
<1>3. p = [q EXCEPT ![n] = x]
  OBVIOUS
<1> HIDE DEF x, p
<1>4. p \in Seq(Run) /\ Len(p) = n /\ p[n] = x /\ \A i \in 1..n : i # n => p[i] = q[i]
  BY <1>1, <1>2, <1>3, SMTT(30)
<1>5. \A i \in 1..n : /\ p[i].started = q[i].started
                      /\ p[i].rule = q[i].rule
                      /\ p[i].status = "RUNNING" => q[i].status = "RUNNING"
  BY <1>2, <1>4
<1>6. \A i \in 1..n : i > 1 => p[i - 1].started = q[i - 1].started
  BY <1>1, <1>5, SMTT(30)
<1>7. Cadence(p)
  BY <1>1, <1>4, <1>5, <1>6, SMTT(30) DEF Cadence
<1>8. QED
  BY <1>4, <1>7 DEF p

\* The initial states satisfy the inductive invariant.
LEMMA InitIInv == Init => IInv
<1> SUFFICES ASSUME Init PROVE IInv
  OBVIOUS
<1>1. TypeOK
  <2>1. 0 \in Time /\ 0 \in 0..MaxEdits /\ 0 \in 0..MaxFaults
    BY SchedulingAssumption, SMTT(30) DEF Time
  <2>2. row \in [Source -> Schedule] /\ loaded \in [Source -> Schedule]
    BY DEF Init
  <2>3. tick \in [pc : {"idle", "load", "start", "run"}, at : Time, due : SUBSET Source]
    BY <2>1 DEF Init, IdleTick
  <2>4. runs \in [Source -> Seq(Run)]
    BY SMTT(30) DEF Init
  <2>5. QED
    BY <2>1, <2>2, <2>3, <2>4 DEF Init, TypeOK
<1>2. tick.at <= now /\ tick.pc = "idle" /\ tick.due = {}
  BY SMTT(30) DEF Init, IdleTick
<1>3. \A s \in Source : Cadence(runs[s])
  <2>1. \A s \in Source : runs[s] = << >>
    BY DEF Init
  <2>2. Cadence(<< >>)
    BY SMTT(30) DEF Cadence
  <2>3. QED
    BY <2>1, <2>2
<1>4. QED
  BY <1>1, <1>2, <1>3, CadenceIs DEF IInv, Due

\* A step that leaves the history and the tick's copy of the rows alone, and after which
\* the tick has nothing to run that it had not before.
LEMMA Quiet ==
  ASSUME IInv, TypeOK', now <= now',
         runs' = runs, loaded' = loaded,
         tick' = tick \/ (tick'.pc # "run" /\ tick'.due \subseteq Due),
         tick'.at <= now',
         tick'.pc # "idle" => \A s \in admitted' : row'[s] = loaded'[s] \/ row'[s].changed >= tick'.at
  PROVE  IInv'
<1>1. TypeOK /\ now \in Nat /\ now' \in Nat
  BY ClockIsNat DEF IInv, TypeOK
<1>2. \A s \in Source : Cadence(runs'[s])
  BY CadenceIs DEF IInv
<1>3. \A s \in Due' : s \in Due
  BY DEF Due, First
<1>4. Due \subseteq Source
  BY <1>1 DEF TypeOK, Due
<1>5. ASSUME NEW s \in Due' PROVE StillDue(s)'
  <2>1. s \in Source /\ loaded[s] \in Schedule /\ runs[s] \in Seq(Run)
    BY <1>1, <1>3, <1>4 DEF TypeOK
  <2>2. DueBy(loaded[s], runs[s], now)
    BY <1>3, <2>1, StillDueIs DEF IInv
  <2>3. DueBy(loaded[s], runs[s], now')
    BY <1>1, <2>1, <2>2, DueLater
  <2>4. QED
    BY <2>1, <2>3, NextIs
<1>6. (tick.pc = "run" => \A s \in tick.due : First(s) => runs[s] # << >>)'
  BY DEF IInv, First
<1>7. QED
  BY <1>2, <1>5, <1>6, NextIs DEF IInv

\* The UPDATE writes the row of one source and its schedule_changed_at.
LEMMA UpdateEffect ==
  ASSUME TypeOK, NEW s \in Source, Update(s)
  PROVE  /\ row' \in [Source -> Schedule]
         /\ row'[s].changed = now
         /\ \A u \in Source : u # s => row'[u] = row[u]
<1>1. PICK on \in BOOLEAN, i \in Interval, c \in Calendar \cup {NoCalendar} :
         row' = [row EXCEPT ![s].sync = on, ![s].interval = i, ![s].calendar = c, ![s].changed = now]
  BY DEF Update
<1> DEFINE x == [row[s] EXCEPT !.sync = on, !.interval = i, !.calendar = c, !.changed = now]
<1>2. row[s] \in Schedule /\ now \in Time /\ row \in [Source -> Schedule]
  BY DEF TypeOK
<1>3. x \in Schedule /\ x.changed = now
  BY <1>2 DEF Schedule
<1>4. row' = [row EXCEPT ![s] = x]
  BY <1>1, <1>2
<1> HIDE DEF x
<1>5. QED
  BY <1>2, <1>3, <1>4

\* A retirement writes the row of one source.
LEMMA RetireEffect ==
  ASSUME TypeOK, NEW s \in Source, Retire(s)
  PROVE  /\ row' \in [Source -> Schedule]
         /\ \A u \in Source : u # s => row'[u] = row[u]
<1> DEFINE x == [row[s] EXCEPT !.enabled = FALSE, !.sync = FALSE]
<1>1. row[s] \in Schedule /\ row \in [Source -> Schedule]
  BY DEF TypeOK
<1>2. x \in Schedule
  BY <1>1 DEF Schedule
<1>3. row' = [row EXCEPT ![s] = x]
  BY <1>1 DEF Retire
<1> HIDE DEF x
<1>4. QED
  BY <1>1, <1>2, <1>3

\* Every step keeps the types.
LEMMA TypeStep == TypeOK /\ [Next]_vars => TypeOK'
<1> SUFFICES ASSUME TypeOK, [Next]_vars PROVE TypeOK'
  OBVIOUS
<1> USE DEF TypeOK
<1>1. CASE Load
  BY <1>1, SchedulingAssumption DEF Load, IdleTick, Time
<1>2. CASE Evaluate
  <2>1. {s \in Source : Eligible(s, loaded[s], now)} \subseteq Source
    OBVIOUS
  <2>2. QED
    BY <1>2, <2>1 DEF Evaluate
<1>3. CASE End
  BY <1>3, SchedulingAssumption, SMTT(30) DEF End, IdleTick, Time
<1>4. CASE Die
  BY <1>4, SchedulingAssumption, SMTT(30) DEF Die, IdleTick, Time
<1>5. CASE Pass
  BY <1>5, SchedulingAssumption, SMTT(30) DEF Pass, Time
<1>6. ASSUME NEW s \in Source, Start(s) PROVE TypeOK'
  <2>1. faults' \in 0..MaxFaults
    BY <1>6, SchedulingAssumption, SMTT(30) DEF Start
  <2>2. tick' \in [pc : {"idle", "load", "start", "run"}, at : Time, due : SUBSET Source]
    BY <1>6 DEF Start
  <2> DEFINE x == [started |-> now, status |-> "RUNNING", rule |-> loaded[s]]
  <2>3. x \in Run
    BY DEF Run
  <2>4. runs' \in [Source -> Seq(Run)]
    <3>1. runs' = runs \/ runs' = [runs EXCEPT ![s] = Append(runs[s], x)]
      BY <1>6 DEF Start
    <3> HIDE DEF x
    <3>2. Append(runs[s], x) \in Seq(Run)
      BY <2>3, SMTT(30)
    <3>3. QED
      BY <3>1, <3>2
  <2>5. QED
    BY <1>6, <2>1, <2>2, <2>4 DEF Start
<1>7. ASSUME NEW s \in Source, Finish(s) PROVE TypeOK'
  <2>1. faults' \in 0..MaxFaults
    BY <1>7, SchedulingAssumption, SMTT(30) DEF Finish
  <2>2. tick' \in [pc : {"idle", "load", "start", "run"}, at : Time, due : SUBSET Source]
    BY <1>7 DEF Finish
  <2>3. ASSUME NEW q \in Seq(Run) PROVE [q EXCEPT ![Len(q)].status = "ENDED"] \in Seq(Run)
    <3> DEFINE x == [q[Len(q)] EXCEPT !.status = "ENDED"]
    <3>1. CASE q = << >>
      <4>1. Len(q) = 0 /\ DOMAIN q = {}
        BY <3>1, SMTT(30)
      <4>2. [q EXCEPT ![Len(q)].status = "ENDED"] = q
        BY <4>1, SMTT(30)
      <4>3. QED
        BY <4>2
    <3>2. CASE q # << >>
      <4>1. Len(q) \in 1..Len(q) /\ q[Len(q)] \in Run
        BY <3>2, SMTT(30)
      <4>2. x \in Run
        BY <4>1 DEF Run
      <4>3. [q EXCEPT ![Len(q)] = x] \in Seq(Run)
        BY <4>1, <4>2, SMTT(30)
      <4>4. QED
        BY <4>3
    <3>3. QED
      BY <3>1, <3>2
  <2>4. runs' \in [Source -> Seq(Run)]
    <3> DEFINE p == [runs[s] EXCEPT ![Len(runs[s])].status = "ENDED"]
    <3>1. runs' = runs \/ runs' = [runs EXCEPT ![s] = p]
      BY <1>7 DEF Finish
    <3>2. p \in Seq(Run)
      BY <2>3
    <3> HIDE DEF p
    <3>3. QED
      BY <3>1, <3>2
  <2>5. QED
    BY <1>7, <2>1, <2>2, <2>4 DEF Finish
<1>8. ASSUME NEW s \in Source, Update(s) PROVE TypeOK'
  <2>1. edits' \in 0..MaxEdits
    BY <1>8, SchedulingAssumption, SMTT(30) DEF Update
  <2>2. row' \in [Source -> Schedule]
    BY <1>8, UpdateEffect
  <2>3. QED
    BY <1>8, <2>1, <2>2 DEF Update
<1>9. ASSUME NEW s \in Source, Retire(s) PROVE TypeOK'
  <2>1. row' \in [Source -> Schedule]
    BY <1>9, RetireEffect
  <2>2. QED
    BY <1>9, <2>1 DEF Retire
<1>10. CASE UNCHANGED vars
  BY <1>10 DEF vars
<1>11. QED
  BY <1>1, <1>2, <1>3, <1>4, <1>5, <1>6, <1>7, <1>8, <1>9, <1>10 DEF Next

\* start_run: the run is recorded, and the rest of the list stays due.
LEMMA StartStep ==
  ASSUME IInv, TypeOK', NEW s \in Source, Start(s)
  PROVE  IInv'
<1>1. TypeOK /\ now \in Nat /\ now \in Time /\ tick.pc = "start" /\ First(s) /\ s \in tick.due /\ s \in Due
  BY ClockIsNat DEF IInv, TypeOK, Start, First, Due
<1>2. CASE runs' = runs /\ tick' = [tick EXCEPT !.due = @ \ {s}]
  <2>1. tick'.pc = tick.pc /\ tick'.at = tick.at /\ tick'.due = tick.due \ {s}
    BY <1>1, <1>2 DEF TypeOK
  <2>2. tick'.due \subseteq Due
    BY <1>1, <2>1 DEF Due
  <2>3. QED
    BY <1>1, <1>2, <2>1, <2>2, Quiet, SMTT(30) DEF Start, IInv
<1>3. CASE /\ runs' = [runs EXCEPT ![s] = Append(@, [started |-> now, status |-> "RUNNING", rule |-> loaded[s]])]
           /\ tick' = [tick EXCEPT !.pc = "run"]
  <2> DEFINE p == Append(runs[s], [started |-> now, status |-> "RUNNING", rule |-> loaded[s]])
  <2>1. runs[s] \in Seq(Run) /\ loaded[s] \in Schedule /\ Cadence(runs[s]) /\ DueBy(loaded[s], runs[s], now)
    BY <1>1, CadenceIs, StillDueIs DEF IInv, TypeOK
  <2>2. p \in Seq(Run) /\ p # << >> /\ Cadence(p)
    BY <1>1, <2>1, CadenceStart
  <2>3. runs' = [runs EXCEPT ![s] = p] /\ runs \in [Source -> Seq(Run)]
    BY <1>1, <1>3 DEF TypeOK
  <2> HIDE DEF p
  <2>4. runs'[s] = p /\ \A u \in Source : u # s => runs'[u] = runs[u]
    BY <2>3
  <2>5. \A u \in Source : Cadence(runs'[u])
    BY <2>2, <2>4, CadenceIs DEF IInv
  <2>6. tick'.pc = "run" /\ tick'.at = tick.at /\ tick'.due = tick.due
    BY <1>1, <1>3 DEF TypeOK
  <2>7. tick.due \subseteq Source /\ Source \subseteq Nat
    BY <1>1, SchedulingAssumption DEF TypeOK
  <2>8. \A u \in Source : First(u)' <=> u = s
    BY <1>1, <2>6, <2>7, SMTT(30) DEF First
  <2>9. Due' \subseteq tick.due \ {s}
    BY <2>6, <2>7, <2>8 DEF Due
  <2>10. UNCHANGED <<now, row, admitted, loaded>>
    BY DEF Start
  <2>11. ASSUME NEW u \in Due' PROVE StillDue(u)'
    <3>1. u \in Source /\ u # s /\ u \in Due
      BY <1>1, <2>7, <2>9 DEF Due
    <3>2. DueBy(loaded[u], runs[u], now)
      BY <3>1, StillDueIs DEF IInv
    <3>3. QED
      BY <2>4, <2>10, <3>1, <3>2, NextIs
  <2>12. (tick.pc = "run" => \A u \in tick.due : First(u) => runs[u] # << >>)'
    BY <2>2, <2>4, <2>6, <2>7, <2>8
  <2>13. (tick.at <= now)' /\ (\A u \in admitted : row[u] = loaded[u] \/ row[u].changed >= tick.at)'
    BY <1>1, <2>6, <2>10 DEF IInv
  <2>14. QED
    BY <2>5, <2>11, <2>12, <2>13, NextIs DEF IInv
<1>4. QED
  BY <1>2, <1>3 DEF Start

\* finish_run, or its failure: the source leaves the list.
LEMMA FinishStep ==
  ASSUME IInv, TypeOK', NEW s \in Source, Finish(s)
  PROVE  IInv'
<1>1. TypeOK /\ tick.pc = "run" /\ First(s) /\ s \in tick.due /\ runs[s] # << >>
  BY DEF IInv, TypeOK, Finish, First
<1>2. tick.due \subseteq Source /\ Source \subseteq Nat
  BY <1>1, SchedulingAssumption DEF TypeOK
<1>3. tick'.pc = "start" /\ tick'.at = tick.at /\ tick'.due = tick.due \ {s}
  BY <1>1 DEF Finish, TypeOK
<1>4. Due' \subseteq Due /\ Due' \subseteq Source /\ s \notin Due'
  <2>1. ASSUME NEW u \in tick.due, u # s PROVE ~First(u)
    <3>1. u \in Nat /\ s \in Nat /\ s <= u
      BY <1>1, <1>2 DEF First
    <3>2. ~(u <= s)
      BY <2>1, <3>1, SMTT(30)
    <3> QED
      BY <1>1, <3>2 DEF First
  <2>2. Due' = tick.due \ {s}
    BY <1>3 DEF Due
  <2> QED
    BY <1>2, <2>1, <2>2 DEF Due
<1>5. UNCHANGED <<now, row, admitted, loaded>>
  BY DEF Finish
<1>6. Cadence(runs'[s]) /\ \A u \in Source : u # s => runs'[u] = runs[u]
  <2> DEFINE p == [runs[s] EXCEPT ![Len(runs[s])].status = "ENDED"]
  <2>1. runs[s] \in Seq(Run) /\ Cadence(runs[s]) /\ runs \in [Source -> Seq(Run)]
    BY <1>1, CadenceIs DEF IInv, TypeOK
  <2>2. Cadence(p)
    BY <1>1, <2>1, CadenceFinish
  <2>3. runs' = runs \/ runs' = [runs EXCEPT ![s] = p]
    BY DEF Finish
  <2> HIDE DEF p
  <2>4. QED
    BY <2>1, <2>2, <2>3
<1>7. \A u \in Source : Cadence(runs'[u])
  BY <1>6, CadenceIs DEF IInv
<1>8. ASSUME NEW u \in Due' PROVE StillDue(u)'
  <2>1. u \in Source /\ u # s /\ u \in Due
    BY <1>4
  <2>2. DueBy(loaded[u], runs[u], now)
    BY <2>1, StillDueIs DEF IInv
  <2>3. QED
    BY <1>5, <1>6, <2>1, <2>2, NextIs
<1>9. (tick.at <= now)' /\ (\A u \in admitted : row[u] = loaded[u] \/ row[u].changed >= tick.at)'
  BY <1>1, <1>3, <1>5 DEF IInv
<1>10. QED
  BY <1>3, <1>7, <1>8, <1>9, NextIs DEF IInv

\* Every step keeps the inductive invariant.
LEMMA StepIInv == IInv /\ [Next]_vars => IInv'
<1> SUFFICES ASSUME IInv, [Next]_vars PROVE IInv'
  OBVIOUS
<1>1. TypeOK /\ TypeOK' /\ now \in Nat
  BY TypeStep, ClockIsNat DEF IInv, TypeOK
<1>2. CASE Load
  <2>1. /\ tick'.pc = "load" /\ tick'.at = now /\ tick'.due = {}
        /\ loaded' = row' /\ now' = now /\ runs' = runs
    BY <1>2 DEF Load, IdleTick
  <2>2. \A s \in Source : Cadence(runs'[s])
    BY <2>1, CadenceIs DEF IInv
  <2>3. QED
    BY <1>1, <2>1, <2>2, NextIs, SMTT(30) DEF IInv, Due
<1>3. CASE Evaluate
  <2>1. /\ tick'.pc = "start" /\ tick'.at = tick.at /\ tick.pc = "load"
        /\ tick'.due = {s \in Source : Eligible(s, loaded[s], now)}
        /\ UNCHANGED <<now, row, admitted, runs, loaded>>
    BY <1>1, <1>3 DEF Evaluate, TypeOK
  <2>2. \A s \in Source : Cadence(runs'[s])
    BY <2>1, CadenceIs DEF IInv
  <2>3. \A s \in Due' : s \in Source /\ DueBy(loaded'[s], runs'[s], now')
    BY <1>1, <2>1, EligibleIsDue DEF Due
  <2>4. QED
    BY <1>1, <2>1, <2>2, <2>3, NextIs DEF IInv
<1>4. CASE End \/ Die
  <2>1. tick' = IdleTick /\ UNCHANGED <<now, row, admitted, runs, loaded>>
    BY <1>4 DEF End, Die
  <2>2. tick'.pc = "idle" /\ tick'.at = 0 /\ tick'.due = {}
    BY <2>1 DEF IdleTick
  <2>3. QED
    BY <1>1, <2>1, <2>2, Quiet, SMTT(30)
<1>5. CASE Pass
  <2>1. now' = now + 1 /\ UNCHANGED <<row, admitted, runs, tick, loaded>>
    BY <1>5 DEF Pass
  <2>2. tick.at \in Nat /\ tick.at <= now
    BY <1>1, ClockIsNat DEF IInv, TypeOK
  <2>3. now <= now' /\ tick'.at <= now'
    BY <1>1, <2>1, <2>2, SMTT(30)
  <2>4. tick'.pc # "idle" => \A s \in admitted' : row'[s] = loaded'[s] \/ row'[s].changed >= tick'.at
    BY <2>1 DEF IInv
  <2>5. QED
    BY <1>1, <2>1, <2>3, <2>4, Quiet
<1>6. ASSUME NEW s \in Source, Start(s) PROVE IInv'
  BY <1>1, <1>6, StartStep
<1>7. ASSUME NEW s \in Source, Finish(s) PROVE IInv'
  BY <1>1, <1>7, FinishStep
<1>8. ASSUME NEW s \in Source, Update(s) PROVE IInv'
  <2>1. UNCHANGED <<now, admitted, runs, tick, loaded>>
    BY <1>8 DEF Update
  <2>2. row'[s].changed = now /\ \A u \in Source : u # s => row'[u] = row[u]
    BY <1>1, <1>8, UpdateEffect
  <2>3. admitted \subseteq Source /\ tick.at <= now
    BY <1>1 DEF IInv, TypeOK
  <2>4. tick'.pc # "idle" => \A u \in admitted' : row'[u] = loaded'[u] \/ row'[u].changed >= tick'.at
    BY <2>1, <2>2, <2>3 DEF IInv
  <2>5. QED
    BY <1>1, <2>1, <2>3, <2>4, Quiet, SMTT(30)
<1>9. ASSUME NEW s \in Source, Retire(s) PROVE IInv'
  <2>1. UNCHANGED <<now, runs, tick, loaded>> /\ admitted' = admitted \ {s}
    BY <1>9 DEF Retire
  <2>2. \A u \in Source : u # s => row'[u] = row[u]
    BY <1>1, <1>9, RetireEffect
  <2>3. admitted \subseteq Source /\ tick.at <= now
    BY <1>1 DEF IInv, TypeOK
  <2>4. tick'.pc # "idle" => \A u \in admitted' : row'[u] = loaded'[u] \/ row'[u].changed >= tick'.at
    BY <2>1, <2>2, <2>3 DEF IInv
  <2>5. QED
    BY <1>1, <2>1, <2>3, <2>4, Quiet, SMTT(30)
<1>10. CASE UNCHANGED vars
  <2>1. UNCHANGED <<now, row, admitted, runs, tick, loaded>>
    BY <1>10 DEF vars
  <2>2. QED
    BY <1>1, <2>1, Quiet, SMTT(30) DEF IInv
<1>11. QED
  BY <1>2, <1>3, <1>4, <1>5, <1>6, <1>7, <1>8, <1>9, <1>10 DEF Next

\* For all constants, a slot of a calendar gives one scheduled run, runs by interval keep
\* their distance, and a recent run that has not ended is never overlapped.
THEOREM CadenceIsKept == Spec => []CadenceKept
<1>1. IInv => CadenceKept
  BY DEF IInv, CadenceKept
<1>2. QED
  BY <1>1, InitIInv, StepIInv, PTL DEF Spec

\* For all constants, the scheduler starts a source that is switched off only in a tick
\* that had loaded the schedule before it was switched off.
THEOREM SwitchIsSeen == Spec => OffIsSeen
<1>1. IInv /\ [Next]_vars =>
         [ \A s \in Source : Len(runs'[s]) > Len(runs[s]) /\ ~row[s].sync => row[s].changed >= tick.at ]_vars
  <2> SUFFICES ASSUME IInv, Next, NEW s \in Source, Len(runs'[s]) > Len(runs[s]), ~row[s].sync
               PROVE  row[s].changed >= tick.at
    OBVIOUS
  <2>1. TypeOK /\ runs[s] \in Seq(Run) /\ Len(runs[s]) \in Nat
    BY SMTT(30) DEF IInv, TypeOK
  <2>2. runs' # runs
    BY <2>1, SMTT(30)
  <2>3. PICK u \in Source : Start(u) \/ Finish(u)
    BY <2>2 DEF Next, Load, Evaluate, End, Die, Pass, Update, Retire
  <2>4. CASE Start(u)
    <3>1. u \in admitted /\ u \in Due /\ tick.pc = "start"
      BY <2>2, <2>4 DEF Start, First, Due
    <3>2. u = s
      BY <2>1, <2>4, SMTT(30) DEF Start, IInv, TypeOK
    <3>3. loaded[s].sync
      BY <3>1, <3>2 DEF IInv, StillDue
    <3>4. QED
      BY <3>1, <3>2, <3>3 DEF IInv
  <2>5. CASE Finish(u)
    <3>1. UNCHANGED runs \/ runs' = [runs EXCEPT ![u] = [runs[u] EXCEPT ![Len(runs[u])].status = "ENDED"]]
      BY <2>5 DEF Finish
    <3>2. runs[u] \in Seq(Run)
      BY <2>1 DEF TypeOK
    <3> DEFINE p == [runs[u] EXCEPT ![Len(runs[u])].status = "ENDED"]
    <3>3. runs[u] # << >>
      BY <2>5 DEF IInv, Finish, First
    <3>4. p \in Seq(Run) /\ Len(p) = Len(runs[u])
      BY <3>2, <3>3, CadenceFinish, CadenceIs DEF IInv
    <3> HIDE DEF p
    <3>5. runs' = [runs EXCEPT ![u] = p]
      BY <2>2, <3>1 DEF p
    <3>6. Len(runs'[s]) = Len(runs[s])
      BY <2>1, <3>4, <3>5 DEF TypeOK
    <3>7. QED
      BY <2>1, <3>6, SMTT(30)
  <2>6. QED
    BY <2>3, <2>4, <2>5
<1>2. QED
  BY <1>1, InitIInv, StepIInv, PTL DEF Spec, OffIsSeen
=============================================================================
