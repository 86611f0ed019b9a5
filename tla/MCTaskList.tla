----------------------------- MODULE MCTaskList -----------------------------
(* Instances of TaskList for TLC: which operations the sessions call.      *)
EXTENDS TaskList

Symmetry == Permutations(Procs)

BoardMenu == {"create", "claim", "update", "reset", "autoclear", "block"}

(* Every update goes through the steps that a block or a claim takes too.  *)
ReturnMenu == Operations \ {"update"}
UnassignMenu == {"claim", "update", "unassign"}
=============================================================================
