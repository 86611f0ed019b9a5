---------------------------- MODULE MCQueryLoop ----------------------------
(***************************************************************************)
(* The query loop for the model checker.                                   *)
(***************************************************************************)
EXTENDS QueryLoop

MCTurnLimits == {0, 2}
MCWidths == {1}
==============================================================================
