---------------------------- MODULE MCScheduling ----------------------------
(***************************************************************************)
(* A behaviour is one of the scheduler, over three slots of a calendar,    *)
(* with a first source by interval, on or off, and a second one by         *)
(* calendar; or it goes through the moments a caller of next_slot or       *)
(* next_run may ask about, for schedules of a source and of an account     *)
(* over 2023 to 2025 with the leap year in the middle.                     *)
(***************************************************************************)
EXTENDS Scheduling, Calendar

DailySlots == [c \in {"daily"} |-> {1, 3, 5}]

SourceRules == {[mode |-> "daily", time |-> h] : h \in {0, 18}}
               \cup {[mode |-> "weekly", day |-> d, time |-> h] : d \in {1, 7}, h \in {2, 23}}
               \cup {[mode |-> "monthly", day |-> d, time |-> h] : d \in {1, 29, 30, 31}, h \in {0, 23}}
Off == [kind |-> "off"]
AccountRules == {[kind |-> "days", days |-> n, start |-> s, time |-> h] :
                    n \in {1, 2, 61}, s \in {0, 420}, h \in {0, 2}}
                \cup {[kind |-> "monthly", day |-> d, time |-> h] : d \in {26, 31}, h \in {2, 23}}
                \cup {[kind |-> "dates", dates |-> {340, 341, 454, 664}, time |-> h] : h \in {2, 23}}
AllRules == SourceRules \cup AccountRules \cup {Off}

SomeRow == CHOOSE r \in Schedule : r.enabled /\ r.changed = 0
MCInit == /\ Init
          /\ \/ rule = Off /\ after = To /\ row[2].sync /\ {s \in Source : row[s].calendar = "daily"} = {2}
             \/ Ask /\ row = [s \in Source |-> SomeRow]
MCNext == \/ rule = Off /\ after = To /\ Next /\ UNCHANGED asked
          \/ AskLater /\ UNCHANGED vars
MCSpec == MCInit /\ [][MCNext]_<<vars, asked>>
=============================================================================
