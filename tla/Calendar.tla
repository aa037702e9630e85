------------------------------ MODULE Calendar ------------------------------
(***************************************************************************)
(* Calendar schedules: next_slot of a source's schedule                    *)
(* (calendar_schedule.py, Moscow time) and next_run of an account's        *)
(* schedule (selectel_schedule.py, any time zone), over the Gregorian      *)
(* calendar.  Time is counted in hours since the first of January of       *)
(* FirstYear, UTC; a wall clock shows the hours since the same midnight of *)
(* its zone.  The variable `after` is the moment a caller asks about: it   *)
(* goes through the horizon in steps that meet every hour of a day.        *)
(***************************************************************************)
EXTENDS Integers, FiniteSets, FiniteSetsExt

CONSTANTS FirstYear, Years,     \* the horizon of the model: Years whole years
          FirstWeekday,         \* of the first of January of FirstYear, Monday is 1
          From, To, Step,       \* bound: the moments asked about, every Step hours
          Rules                 \* the schedules asked about

ASSUME CalendarAssumption == /\ {FirstYear, From, To} \subseteq Nat
                             /\ {Years, Step} \subseteq Nat \ {0}
                             /\ FirstWeekday \in 1..7

VARIABLES rule, after
asked == <<rule, after>>

-----------------------------------------------------------------------------
(* Dates.  Day 0 is the first of January of FirstYear.                     *)

Leap(year) == year % 4 = 0 /\ (year % 100 # 0 \/ year % 400 = 0)
MonthLength(year, month) == CASE month = 2 -> IF Leap(year) THEN 29 ELSE 28
                              [] month \in {4, 6, 9, 11} -> 30
                              [] OTHER -> 31

\* Months are counted from January of FirstYear.
Months == 0..12 * Years - 1
LengthOf == [m \in Months |-> MonthLength(FirstYear + m \div 12, (m % 12) + 1)]
FirstDay[m \in 0..12 * Years] == IF m = 0 THEN 0 ELSE FirstDay[m - 1] + LengthOf[m - 1]
Days == 0..FirstDay[12 * Years] - 1
MonthOf == [d \in Days |-> CHOOSE m \in Months : FirstDay[m] <= d /\ d < FirstDay[m] + LengthOf[m]]
DayOfMonth == [d \in Days |-> d - FirstDay[MonthOf[d]] + 1]
Weekday(d) == ((FirstWeekday - 1 + d) % 7) + 1
Lesser(a, b) == IF a < b THEN a ELSE b

-----------------------------------------------------------------------------
(* next_slot: Moscow has had one offset since 2014.                        *)

Moscow == 3

SlotDay(r, d) == CASE r.mode = "daily" -> TRUE
                   [] r.mode = "weekly" -> Weekday(d) = r.day
                   [] r.mode = "monthly" -> DayOfMonth[d] = Lesser(r.day, LengthOf[MonthOf[d]])

\* Faulty variant: the search gives up after 30 days.
next_slot_short(r, t) ==
    LET local == t + Moscow
        today == local \div 24
        Found == {day \in today..today + 29 : SlotDay(r, day) /\ day * 24 + r.time > local}
    IN IF Found = {} THEN -1 ELSE Min(Found) * 24 + r.time - Moscow

\* The first of 63 days that has a slot later than t; -1 stands for the ValueError.
next_slot(r, t) ==
    LET local == t + Moscow
        today == local \div 24
        Found == {day \in today..today + 62 : SlotDay(r, day) /\ day * 24 + r.time > local}
    IN IF Found = {} THEN -1 ELSE Min(Found) * 24 + r.time - Moscow

-----------------------------------------------------------------------------
(* next_run: a zone whose clocks go forward at 2:00 on the last Sunday of  *)
(* March and back at 3:00 on the last Sunday of October.                   *)

LastSunday(m) == CHOOSE d \in FirstDay[m] + LengthOf[m] - 7..FirstDay[m] + LengthOf[m] - 1 : Weekday(d) = 7
Summer == UNION {{LastSunday(12 * y + 2) * 24 + 1 + h : h \in 1..24 * (LastSunday(12 * y + 9) - LastSunday(12 * y + 2))} :
                    y \in 0..Years - 1}
WallOf(t) == IF t \in Summer THEN t + 1 ELSE t

\* datetime.timestamp(): the first of two moments with the same wall time, and the
\* offset of winter for a wall time that does not exist.
Timestamp(w) == IF WallOf(w - 1) = w THEN w - 1 ELSE w
Exists(w) == WallOf(Timestamp(w)) = w

\* The dates next_run looks at.
Dates(r, today) ==
    CASE r.kind = "dates" -> r.dates
      [] r.kind = "days" ->
            LET elapsed == IF today > r.start THEN today - r.start ELSE 0
                start == r.start + (elapsed \div r.days) * r.days
            IN {start + i * r.days : i \in 0..3}
      [] r.kind = "monthly" ->
            {FirstDay[m] + Lesser(r.day, LengthOf[m]) - 1 : m \in MonthOf[today]..MonthOf[today] + 23}

\* -1 stands for None.
next_run(r, t) ==
    LET Runs == {d \in Dates(r, WallOf(t) \div 24) :
                    Timestamp(d * 24 + r.time) > t /\ Exists(d * 24 + r.time)}
    IN IF r.kind = "off" \/ Runs = {} THEN -1 ELSE Timestamp(Min(Runs) * 24 + r.time)

-----------------------------------------------------------------------------
(* A source's rule has a mode, an account's a kind.                        *)

OfSource == "mode" \in DOMAIN rule

Ask == rule \in Rules /\ after = From
AskLater == /\ after + Step <= To
            /\ after' = after + Step
            /\ UNCHANGED rule

-----------------------------------------------------------------------------
(* The reference: a schedule is the set of all its moments.                *)

SourceMoments(r) ==
    CASE r.mode = "daily" -> {d * 24 + r.time - Moscow : d \in Days}
      [] r.mode = "weekly" -> {d * 24 + r.time - Moscow : d \in {d \in Days : (d - r.day + FirstWeekday) % 7 = 0}}
      [] r.mode = "monthly" ->
            {(Max({d \in Days : MonthOf[d] = m /\ DayOfMonth[d] <= r.day})) * 24 + r.time - Moscow : m \in Months}
AccountDates(r) ==
    CASE r.kind = "dates" -> r.dates
      [] r.kind = "days" -> {d \in Days : d >= r.start /\ (d - r.start) % r.days = 0}
      [] r.kind = "monthly" -> {Max({d \in Days : MonthOf[d] = m /\ DayOfMonth[d] <= r.day}) : m \in Months}
      [] r.kind = "off" -> {}
\* A date counts when its wall time exists, at the first moment that shows it.
AccountMoments(r) == {Min({t \in d * 24 + r.time - 1..d * 24 + r.time : WallOf(t) = d * 24 + r.time}) :
                         d \in {d \in AccountDates(r) :
                                   \E t \in d * 24 + r.time - 1..d * 24 + r.time : WallOf(t) = d * 24 + r.time}}
Moments == [r \in Rules |-> IF "mode" \in DOMAIN r THEN SourceMoments(r) ELSE AccountMoments(r)]

\* next_slot returns the first moment of the schedule strictly after the one asked
\* about, and always finds one: 63 days are enough for every month and every day.
SlotIsFirst == OfSource => next_slot(rule, after) = Min({t \in Moments[rule] : t > after})

\* next_run returns the first moment strictly after the one asked about, through both
\* changes of the clocks, and None only when the schedule has no moment left.
RunIsFirst == ~OfSource => LET Left == {t \in Moments[rule] : t > after}
                           IN next_run(rule, after) = IF Left = {} THEN -1 ELSE Min(Left)

\* Both calendars name the first moment still to come, and None only when there is none.
NextIsFirst == SlotIsFirst /\ RunIsFirst
=============================================================================
