--------------------------- MODULE MCSchedulerLock ---------------------------
(***************************************************************************)
(* The scheduler lock for the model checker: three sessions, and a second  *)
(* process that resumes one of them.                                       *)
(***************************************************************************)
EXTENDS SchedulerLock

MCProcs == 1..4
MCSessionOf == <<1, 2, 3, 1>>
==============================================================================
