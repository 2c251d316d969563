---------------------------- MODULE MCScheduler -----------------------------
(***************************************************************************)
(* Scheduler on a small instance: two schedules of one profile, the second *)
(* of which closes its browser again; and Calendar from every instant of   *)
(* two weeks.                                                              *)
(***************************************************************************)
EXTENDS SchedulerProperties

CONSTANTS s1, s2, p1

MCProfileOf == [s \in Schedule |-> p1]
MCRunFor == [s \in Schedule |-> IF s = s2 THEN 1 ELSE 0]

\* Every instant of two weeks.
MCInstants == 0 .. 14 * SlotsPerDay - 1

\* TLC computes every next run before it explores the scheduler.
ASSUME CalendarAgrees == PlansNearest
=============================================================================
