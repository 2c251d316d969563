------------------------------ MODULE Calendar ------------------------------
(***************************************************************************)
(* next_run_after (core/scheduler.py): the first run of a schedule after   *)
(* an instant, daily at a time on some weekdays, or at an interval.        *)
(* Scheduler leaves open how far away that is.                             *)
(*                                                                         *)
(* An instant is a number of slots since a Monday began.                   *)
(***************************************************************************)
EXTENDS Integers, FiniteSetsExt

CONSTANTS
    SlotsPerDay,
    Times,        \* at_time, as a slot of the day
    DaySets,      \* what `days` can be; the empty set is every day
    Lengths,      \* interval_minutes, in slots
    Instants      \* those that runs are planned from

ASSUME CalendarAssumption ==
    /\ SlotsPerDay \in Nat \ {0}
    /\ Times \subseteq 0 .. SlotsPerDay - 1
    /\ DaySets \subseteq SUBSET (0 .. 6)
    /\ Lengths \subseteq Nat \ {0}
    /\ Instants \subseteq Nat

\* What validates: each kind has its own field.
Daily == [at : Times, days : DaySets]
Interval == [length : Lengths]
Timing == Daily \cup Interval

DayOf(instant) == instant \div SlotsPerDay

Weekday(day) == day % 7

Allowed(days) == IF days = {} THEN 0 .. 6 ELSE days

\* The next day from `day` on that is allowed.
AllowedFrom(day, days) == Min({d \in day .. day + 6 : Weekday(d) \in Allowed(days)})

NextRunAfter(t, after) ==
    LET today == DayOf(after) * SlotsPerDay + t.at
        first == DayOf(after) + IF today <= after THEN 1 ELSE 0
    IN  IF t \in Interval THEN after + t.length
        ELSE AllowedFrom(first, t.days) * SlotsPerDay + t.at

-----------------------------------------------------------------------------
\* The schedule is meant to run at this instant (models.py: "days uses Python's
\* weekday numbering, 0 = Monday ... 6 = Sunday; empty means every day").
Occurs(t, instant) ==
    /\ instant % SlotsPerDay = t.at
    /\ t.days = {} \/ Weekday(DayOf(instant)) \in t.days

\* `next` is the schedule's very first occurrence after an instant.
Nearest(t, after, next) ==
    /\ next > after
    /\ IF t \in Interval
         THEN next = after + t.length
         ELSE /\ Occurs(t, next)
              /\ \A instant \in after + 1 .. next - 1 : ~Occurs(t, instant)

\* Whatever instant a run is planned from, it is the schedule's very first
\* occurrence after it: none is passed over, none is run twice, and the plan is not
\* in the past of its making (next_run_after: "the first time this schedule should
\* fire strictly after").
PlansNearest ==
    \A t \in Timing, after \in Instants : Nearest(t, after, NextRunAfter(t, after))
=============================================================================
