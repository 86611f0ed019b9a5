---------------------------- MODULE MCToolExecutor -----------------------------
(***************************************************************************)
(* Kinds of tool call for the model checker.                               *)
(***************************************************************************)
EXTENDS ToolExecutor

Kind(known, safe, bash, cancel, io) ==
    [known |-> known, safe |-> safe, bash |-> bash, cancel |-> cancel, io |-> io]

Note   == Kind(TRUE, TRUE, FALSE, FALSE, FALSE)   \* a safe tool that does none
Look   == Kind(TRUE, TRUE, TRUE, FALSE, TRUE)     \* a read-only Bash command
Edit   == Kind(TRUE, FALSE, FALSE, FALSE, TRUE)   \* an unsafe tool
Sleep  == Kind(TRUE, FALSE, FALSE, TRUE, TRUE)    \* it may be interrupted
Ghost  == Kind(FALSE, TRUE, FALSE, FALSE, FALSE)  \* no tool has this name

MainCalls == {Note, Look, Edit, Sleep, Ghost}
================================================================================
