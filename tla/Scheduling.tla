----------------------------- MODULE Scheduling -----------------------------
(***************************************************************************)
(* When a source is synchronized by the scheduler: every tick loads the    *)
(* schedules, derives from them and from the history of scheduled runs     *)
(* which sources are due (scheduler_runtime.py, application/scheduling.py) *)
(* and runs those one after another (orchestrator.py), while the schedule  *)
(* worker changes schedules (schedule_worker.py) and sources are retired.  *)
(* flock lets one tick run at a time; a tick that dies leaves a run that   *)
(* nobody finishes.  Next slots are those of Calendar, here any set of     *)
(* moments per calendar.  Manual runs do not move the cadence.             *)
(***************************************************************************)
EXTENDS Naturals, Sequences

CONSTANTS Source,        \* in the order of their ids
          Interval,      \* intervals an operator may choose
          Calendar,      \* calendars an operator may choose
          Slots,         \* the moments of each calendar
          Stale,         \* age at which a RUNNING run no longer blocks
          MaxTime,       \* bound: the clock
          MaxEdits,      \* bound: changes of schedules
          MaxFaults      \* bound: ticks that die, writes of the history that fail

NoCalendar == "none"
Time == 0..MaxTime

ASSUME SchedulingAssumption == /\ Source \subseteq Nat
                               /\ Interval \subseteq Nat \ {0}
                               /\ NoCalendar \notin Calendar
                               /\ Slots \in [Calendar -> SUBSET Nat]
                               /\ {Stale, MaxTime, MaxEdits, MaxFaults} \subseteq Nat
                               /\ \A c \in Calendar, t \in Time :   \* SlotIsFirst of Calendar
                                     \E s \in Slots[c] : s > t /\ \A u \in Slots[c] : u > t => s <= u

VARIABLES now,
          row,        \* sources: the schedule and its schedule_changed_at
          admitted,   \* sources the trigger guard_run_source lets run
          runs,       \* sync_runs with trigger scheduled, oldest first
          tick,       \* the holder of the scheduler's lock
          loaded,     \* its copy of the rows
          edits, faults
vars == <<now, row, admitted, runs, tick, loaded, edits, faults>>

Schedule == [enabled : BOOLEAN, sync : BOOLEAN, interval : Interval, calendar : Calendar \cup {NoCalendar},
             changed : Time]
\* rule is not a column: it is the schedule by which the tick found the run due.
Run == [started : Time, status : {"RUNNING", "ENDED"}, rule : Schedule]

TypeOK == /\ now \in Time
          /\ row \in [Source -> Schedule]
          /\ admitted \subseteq Source
          /\ runs \in [Source -> Seq(Run)]
          /\ tick \in [pc : {"idle", "load", "start", "run"}, at : Time, due : SUBSET Source]
          /\ loaded \in [Source -> Schedule]
          /\ edits \in 0..MaxEdits
          /\ faults \in 0..MaxFaults

-----------------------------------------------------------------------------
(* evaluate_schedule.                                                      *)

Later(t, u) == IF t > u THEN t ELSE u
NextSlot(c, t) == CHOOSE s \in Slots[c] : s > t /\ \A u \in Slots[c] : u > t => s <= u

\* latest_by_source.
Latest(s) == runs[s][Len(runs[s])]
Running(s) == {i \in 1..Len(runs[s]) : runs[s][i].status = "RUNNING"}

\* Faulty variant: a calendar counts from the last change of the schedule only.
NextExpectedChanged(s, r, t) ==
    IF r.calendar # NoCalendar THEN NextSlot(r.calendar, r.changed)
    ELSE IF runs[s] = << >> THEN t ELSE Latest(s).started + r.interval

NextExpected(s, r, t) ==
    IF r.calendar # NoCalendar
    THEN NextSlot(r.calendar, IF runs[s] = << >> THEN r.changed ELSE Later(Latest(s).started, r.changed))
    ELSE IF runs[s] = << >> THEN t ELSE Latest(s).started + r.interval

\* The latest RUNNING run, unless it is stale.
Blocked(s, t) == \E i \in Running(s) : t <= runs[s][i].started + Stale

\* DUE or DELAYED.
Eligible(s, r, t) == /\ r.enabled /\ r.sync
                     /\ ~Blocked(s, t)
                     /\ t >= NextExpected(s, r, t)

-----------------------------------------------------------------------------
(* The tick.                                                               *)

\* run_sources sorts by id.
First(s) == s \in tick.due /\ \A u \in tick.due : s <= u
IdleTick == [pc |-> "idle", at |-> 0, due |-> {}]

Init == /\ now = 0
        /\ row \in [Source -> {r \in Schedule : r.enabled /\ r.changed = 0}]
        /\ admitted = Source
        /\ runs = [s \in Source |-> << >>]
        /\ tick = IdleTick
        /\ loaded = row
        /\ edits = 0 /\ faults = 0

\* Faulty variant: rows that are known are not loaded again.
LoadOnce == /\ tick.pc = "idle"
            /\ tick' = [IdleTick EXCEPT !.pc = "load", !.at = now]
            /\ UNCHANGED <<now, row, admitted, runs, loaded, edits, faults>>

\* load_scheduler_source_configs.
Load == /\ tick.pc = "idle"
        /\ tick' = [IdleTick EXCEPT !.pc = "load", !.at = now]
        /\ loaded' = row
        /\ UNCHANGED <<now, row, admitted, runs, edits, faults>>

\* run_scheduler_tick: the clock, the history, and every source on its own.
Evaluate == /\ tick.pc = "load"
            /\ tick' = [tick EXCEPT !.pc = "start", !.due = {s \in Source : Eligible(s, loaded[s], now)}]
            /\ UNCHANGED <<now, row, admitted, runs, loaded, edits, faults>>

\* _run_source: a run that cannot be recorded is not executed.
Start(s) == /\ tick.pc = "start" /\ First(s)
            /\ \/ /\ s \in admitted
                  /\ runs' = [runs EXCEPT ![s] = Append(@, [started |-> now, status |-> "RUNNING",
                                                           rule |-> loaded[s]])]
                  /\ tick' = [tick EXCEPT !.pc = "run"]
                  /\ UNCHANGED faults
               \/ /\ \/ s \notin admitted /\ UNCHANGED faults
                     \/ faults < MaxFaults /\ faults' = faults + 1
                  /\ tick' = [tick EXCEPT !.due = @ \ {s}]
                  /\ UNCHANGED runs
            /\ UNCHANGED <<now, row, admitted, loaded, edits>>

\* The source has been worked on; finish_run may fail.
Finish(s) == /\ tick.pc = "run" /\ First(s)
             /\ \/ /\ runs' = [runs EXCEPT ![s] = [@ EXCEPT ![Len(@)].status = "ENDED"]]
                   /\ UNCHANGED faults
                \/ /\ faults < MaxFaults /\ faults' = faults + 1
                   /\ UNCHANGED runs
             /\ tick' = [tick EXCEPT !.pc = "start", !.due = @ \ {s}]
             /\ UNCHANGED <<now, row, admitted, loaded, edits>>

End == /\ tick.pc = "start" /\ tick.due = {}
       /\ tick' = IdleTick
       /\ UNCHANGED <<now, row, admitted, runs, loaded, edits, faults>>

Die == /\ tick.pc # "idle"
       /\ faults < MaxFaults /\ faults' = faults + 1
       /\ tick' = IdleTick
       /\ UNCHANGED <<now, row, admitted, runs, loaded, edits>>

-----------------------------------------------------------------------------
(* Everybody else.                                                         *)

\* The conditional UPDATE when the page showed the current schedule; a page that did
\* not changes nothing.
Update(s) == /\ s \in admitted
             /\ edits < MaxEdits /\ edits' = edits + 1
             /\ \E on \in BOOLEAN, i \in Interval, c \in Calendar \cup {NoCalendar} :
                   row' = [row EXCEPT ![s].sync = on, ![s].interval = i, ![s].calendar = c, ![s].changed = now]
             /\ UNCHANGED <<now, admitted, runs, tick, loaded, faults>>

\* A retirement disables the source and fences it.
Retire(s) == /\ s \in admitted
             /\ admitted' = admitted \ {s}
             /\ row' = [row EXCEPT ![s].enabled = FALSE, ![s].sync = FALSE]
             /\ UNCHANGED <<now, runs, tick, loaded, edits, faults>>

Pass == /\ now < MaxTime
        /\ now' = now + 1
        /\ UNCHANGED <<row, admitted, runs, tick, loaded, edits, faults>>

Next == \/ Load \/ Evaluate \/ End \/ Die \/ Pass
        \/ \E s \in Source : Start(s) \/ Finish(s) \/ Update(s) \/ Retire(s)
Spec == Init /\ [][Next]_vars

-----------------------------------------------------------------------------
(* Properties.                                                             *)

\* A calendar's slot gives one run: between a run and the one before it, and after
\* the schedule was last changed, there is a slot, also after ticks that died,
\* missed slots or a changed schedule.
OneRunPerSlot == \A s \in Source : \A i \in 1..Len(runs[s]) :
    LET r == runs[s][i]
    IN r.rule.calendar # NoCalendar =>
          \E u \in Slots[r.rule.calendar] : /\ r.rule.changed < u
                                            /\ u <= r.started
                                            /\ i > 1 => runs[s][i - 1].started < u

\* Runs by interval keep their distance; missed intervals do not pile up.
IntervalKept == \A s \in Source : \A i \in 2..Len(runs[s]) :
    LET r == runs[s][i]
    IN r.rule.calendar = NoCalendar => r.started >= runs[s][i - 1].started + r.rule.interval

\* Two runs of a source that have not ended are further apart than the threshold, so
\* that a recent run is never overlapped although nobody finishes a dead one.
NoRecentOverlap == \A s \in Source : \A i, j \in Running(s) :
                      i < j => runs[s][j].started > runs[s][i].started + Stale

\* The scheduled history of every source: one run per slot, intervals kept, no
\* recent run overlapped.
CadenceKept == OneRunPerSlot /\ IntervalKept /\ NoRecentOverlap

\* A run whose source was switched off before it started belongs to a tick that had
\* loaded the schedule earlier: the next tick sees the switch.
OffIsSeen == [][ \A s \in Source : Len(runs'[s]) > Len(runs[s]) /\ ~row[s].sync => row[s].changed >= tick.at ]_vars

\* What the tick knows of a source it is still to run.
Due == {s \in tick.due : tick.pc = "run" => ~First(s)}
StillDue(s) ==
    /\ loaded[s].sync
    /\ \A i \in Running(s) : now > runs[s][i].started + Stale
    /\ IF loaded[s].calendar = NoCalendar
       THEN runs[s] # << >> => now >= Latest(s).started + loaded[s].interval
       ELSE \E u \in Slots[loaded[s].calendar] : /\ loaded[s].changed < u
                                                 /\ u <= now
                                                 /\ runs[s] # << >> => Latest(s).started < u

\* The inductive invariant: a source that was found due stays due until the tick has
\* run it, since nobody else writes the scheduled history and time only passes; a row
\* that differs from the tick's copy was changed after the tick began.
IInv == /\ TypeOK
        /\ tick.at <= now
        /\ tick.pc = "run" => \A s \in tick.due : First(s) => runs[s] # << >>
        /\ \A s \in Due : StillDue(s)
        /\ tick.pc # "idle" => \A s \in admitted : row[s] = loaded[s] \/ row[s].changed >= tick.at
        /\ OneRunPerSlot
        /\ IntervalKept
        /\ NoRecentOverlap
=============================================================================
