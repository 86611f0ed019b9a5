---------------------------- MODULE MCToolBatches -----------------------------
(***************************************************************************)
(* The batch runner for the model checker.                                 *)
(***************************************************************************)
EXTENDS ToolBatches, TLC
================================================================================
