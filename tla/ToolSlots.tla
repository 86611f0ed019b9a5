------------------------------- MODULE ToolSlots -------------------------------
(***************************************************************************)
(* What a tool runner promises to the query loop, whatever its machinery:  *)
(* tool calls are started in the order the model emitted them, and a call  *)
(* that is not concurrency safe has the runner for itself.  The streaming  *)
(* executor (ToolExecutor) and the batch runner (ToolBatches) implement    *)
(* this specification.                                                     *)
(***************************************************************************)
EXTENDS Naturals

CONSTANT MaxTools           \* the most tool_use blocks of one assistant turn

Tool == 1 .. MaxTools

VARIABLES
    running,                \* the calls that execute: [id : Tool, safe : BOOLEAN]
    started                 \* the ids of the calls that were ever started

vars == <<running, started>>

Init == running = {} /\ started = {}

(***************************************************************************)
(* A call may be started when every earlier start has a smaller position   *)
(* and it is compatible with the calls that execute.                       *)
(***************************************************************************)
MayStart(t, safe) ==
    /\ \A u \in started : u < t
    /\ \A r \in running : r.safe /\ safe

Start(t, safe) ==
    /\ MayStart(t, safe)
    /\ started' = started \cup {t}
    /\ running' = running \cup {[id |-> t, safe |-> safe]}

\* A call whose turn comes after a cancellation is answered without running.
Cancel(t) ==
    /\ \E safe \in BOOLEAN : MayStart(t, safe)
    /\ started' = started \cup {t}
    /\ UNCHANGED running

Finish(r) ==
    /\ running' = running \ {r}
    /\ UNCHANGED started

Next ==
    \/ \E t \in Tool, safe \in BOOLEAN : Start(t, safe)
    \/ \E t \in Tool : Cancel(t)
    \/ \E r \in running : Finish(r)

Spec == Init /\ [][Next]_vars
================================================================================
