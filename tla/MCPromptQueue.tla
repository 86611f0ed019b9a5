---------------------------- MODULE MCPromptQueue -----------------------------
(***************************************************************************)
(* Commands for the model checker.                                         *)
(***************************************************************************)
EXTENDS PromptQueue, TLC

Mixed == [hi |-> "prompt", help |-> "slash", done |-> "note", sub |-> "subnote",
          post |-> "mail"]

MixedNames == DOMAIN Mixed
================================================================================
