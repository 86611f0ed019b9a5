--------------------------- MODULE MCCronScheduler ---------------------------
(***************************************************************************)
(* The scheduler for the model checker: two sessions, a one-shot that is   *)
(* in the file or is created, and a recurring task that fires twice.       *)
(***************************************************************************)
EXTENDS CronScheduler

MCDue == [t \in Tasks |-> IF t = "r" THEN 2 ELSE 1]
MCExpires == [t \in Recurring |-> 3]
MCNoOverlap == ~overlapped
==============================================================================
