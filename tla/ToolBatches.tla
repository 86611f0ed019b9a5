------------------------------ MODULE ToolBatches -------------------------------
(***************************************************************************)
(* services/tools/toolOrchestration.ts: runTools, which runs the tool      *)
(* calls of a complete assistant message in batches, with the generator    *)
(* combinator all of utils/generators.ts.  It is used when the streaming   *)
(* executor is not.                                                        *)
(*                                                                         *)
(* runToolUse is a generator that yields some updates and ends; it never   *)
(* throws.  The consumer is suspended at a yield of runTools for as long   *)
(* as query.ts likes.  Left out: the messages, and the ids that the UI     *)
(* shows as in progress.                                                   *)
(***************************************************************************)
EXTENDS Naturals, Sequences, FiniteSets, Selection

CONSTANTS
    MaxTools,       \* the tool_use blocks of the message
    Cap,            \* getMaxToolUseConcurrency()
    MaxUpdates      \* bound: updates that one tool yields

ASSUME BatchesAssumption ==
    MaxTools \in Nat /\ Cap \in Nat \ {0} /\ MaxUpdates \in Nat

Tool == 1 .. MaxTools

VARIABLES
    safe,           \* the tools that are concurrency safe
    first,          \* the first tool of the batch that runs or is next
    loop,           \* where the generators of runTools stand
    phase,          \* of each tool's generator
    updates,        \* how many updates each tool has yielded
    queued,         \* queuedContextModifiers: how many of each tool
    context,        \* the modifiers that were applied, in order
    seen            \* history: the context that each tool was given

vars == <<safe, first, loop, phase, updates, queued, context, seen>>

Phases == {"off",               \* its batch has not begun
           "waiting",           \* all() has not asked it for anything
           "busy",              \* next() is pending
           "value", "change",   \* next() settled: an update, with a modifier
           "paused",            \* nobody asks for the next update
           "over",              \* next() settled: done
           "taken"}             \* and the consumer knows

-----------------------------------------------------------------------------
(* Mutant: an unsafe tool joins the batch before it too. *)
StartsAfterUnsafe == {t \in Tool : t = 1 \/ t - 1 \notin safe}

(* The tools that begin a batch: a safe tool joins the one before it if    *)
(* that is safe.                                                           *)
Starts == {t \in Tool : t = 1 \/ ~(t \in safe /\ t - 1 \in safe)}

Batch == {t \in Tool : first <= t /\ \A u \in Starts : u <= t => u <= first}
Concurrent == first \in safe

In(ps) == {t \in Tool : phase[t] \in ps}
Promises == In({"busy", "value", "change", "paused", "over"})

(* waiting.shift() *)
IsNext(t) == phase[t] = "waiting" /\ \A u \in In({"waiting"}) : t <= u

Init ==
    /\ safe \in SUBSET Tool
    /\ first = 1
    /\ loop = "batch"
    /\ phase = [t \in Tool |-> "off"]
    /\ updates = [t \in Tool |-> 0]
    /\ queued = [t \in Tool |-> 0]
    /\ context = <<>>
    /\ seen = [t \in Tool |-> <<>>]

(* In the context: the modifiers of t, so many in a row. *)
Entry(t, n) == [of |-> t, many |-> n]

Goto(l) == loop' = l
Become(t, p) == phase' = [phase EXCEPT ![t] = p]

-----------------------------------------------------------------------------
(* A batch begins: its tools get the context as it is now.                 *)
BeginBatch ==
    /\ loop = "batch"
    /\ first \in Tool
    /\ phase' = [t \in Tool |-> IF t \in Batch THEN "waiting" ELSE phase[t]]
    /\ seen' = [t \in Tool |-> IF t \in Batch THEN context ELSE seen[t]]
    /\ Goto("start")
    /\ UNCHANGED <<safe, first, updates, queued, context>>

Room == Cardinality(Promises) < Cap

(* all() starts generators up to the cap, ... *)
StartOne(t) ==
    /\ loop = "start"
    /\ Room
    /\ IsNext(t)
    /\ Become(t, "busy")
    /\ UNCHANGED <<safe, first, loop, updates, queued, context, seen>>

StartedAll ==
    /\ loop = "start"
    /\ ~Room \/ In({"waiting"}) = {}
    /\ Goto("race")
    /\ UNCHANGED <<safe, first, phase, updates, queued, context, seen>>

(* A tool yields an update, or its generator ends. *)
Update(t) ==
    /\ loop # "start"
    /\ phase[t] = "busy"
    /\ updates[t] < MaxUpdates
    /\ updates' = [updates EXCEPT ![t] = @ + 1]
    /\ \E p \in {"value", "change"} : Become(t, p)
    /\ UNCHANGED <<safe, first, loop, queued, context, seen>>

End(t) ==
    /\ loop # "start"
    /\ phase[t] = "busy"
    /\ Become(t, "over")
    /\ UNCHANGED <<safe, first, loop, updates, queued, context, seen>>

(* Mutant: modifies the context at once. *)
TakeAtOnce(t) ==
    /\ loop = "race"
    /\ phase[t] \in {"value", "change"}
    /\ context' = IF phase[t] = "change" THEN Append(context, Entry(t, 1)) ELSE context
    /\ Become(t, IF Concurrent THEN "busy" ELSE "paused")
    /\ Goto("suspended")
    /\ UNCHANGED <<safe, first, updates, queued, seen>>

(* ... and takes what is ready first.  A concurrent tool is asked for its  *)
(* next update before runTools yields this one, a serial one after; the    *)
(* modifier of a concurrent one has to wait.                               *)
Take(t) ==
    /\ loop = "race"
    /\ phase[t] \in {"value", "change"}
    /\ \/ /\ Concurrent
          /\ queued' = [queued EXCEPT ![t] = IF phase[t] = "change" THEN @ + 1 ELSE @]
          /\ Become(t, "busy")
          /\ UNCHANGED context
       \/ /\ ~Concurrent
          /\ context' = IF phase[t] = "change" THEN Append(context, Entry(t, 1)) ELSE context
          /\ Become(t, "paused")
          /\ UNCHANGED queued
    /\ Goto("suspended")
    /\ UNCHANGED <<safe, first, updates, seen>>

(* Mutant: does not start the next generator when one finishes. *)
TakeEndOnly(t) ==
    /\ loop = "race"
    /\ phase[t] = "over"
    /\ phase' = [phase EXCEPT ![t] = "taken"]
    /\ UNCHANGED <<safe, first, loop, updates, queued, context, seen>>

TakeEnd(t) ==
    /\ loop = "race"
    /\ phase[t] = "over"
    /\ phase' = [u \in Tool |-> IF u = t THEN "taken"
                               ELSE IF IsNext(u) THEN "busy" ELSE phase[u]]
    /\ UNCHANGED <<safe, first, loop, updates, queued, context, seen>>

Resume ==
    /\ loop = "suspended"
    /\ phase' = [t \in Tool |-> IF phase[t] = "paused" THEN "busy" ELSE phase[t]]
    /\ Goto("race")
    /\ UNCHANGED <<safe, first, updates, queued, context, seen>>

Modified ==
    Selected([t \in Tool |-> Entry(t, queued[t])], {t \in Batch : queued[t] > 0})

(* Nothing is left to race: the queued modifiers are applied in the order  *)
(* of the blocks.                                                          *)
EndBatch ==
    /\ loop = "race"
    /\ Promises = {}
    /\ context' = IF Concurrent THEN context \o Modified ELSE context
    /\ \E b \in Starts \cup {MaxTools + 1} :
          b > first /\ (\A u \in Starts : u > first => b <= u) /\ first' = b
    /\ Goto("batch")
    /\ UNCHANGED <<safe, phase, updates, queued, seen>>

ToolStep(t) == StartOne(t) \/ Update(t) \/ End(t) \/ Take(t) \/ TakeEnd(t)
Next == BeginBatch \/ StartedAll \/ Resume \/ EndBatch \/ \E t \in Tool : ToolStep(t)

Spec == Init /\ [][Next]_vars

(* Tools end, and query.ts asks for the next update. *)
FairSpec == Spec /\ WF_vars(Next)

-----------------------------------------------------------------------------
(* Properties.                                                             *)

Entries == [of : Tool, many : 1 .. MaxUpdates]

(* The runner and its tools are well formed. *)
TypeOK ==
    /\ safe \subseteq Tool
    /\ first \in 1 .. MaxTools + 1
    /\ loop \in {"batch", "start", "race", "suspended"}
    /\ phase \in [Tool -> Phases]
    /\ updates \in [Tool -> 0 .. MaxUpdates]
    /\ queued \in [Tool -> 0 .. MaxUpdates]
    /\ context \in Seq(Entries)
    /\ seen \in [Tool -> Seq(Entries)]

(* No more than the cap run at once (getMaxToolUseConcurrency). *)
AtMostCap == Cardinality(In({"busy", "value", "change", "paused"})) <= Cap

(* Modifiers are applied in the order of the blocks, whatever the order in *)
(* which concurrent tools report them; so a tool is given those of the     *)
(* batches before its own and of no later tool (runTools).                 *)
ContextInBlockOrder ==
    /\ \A i, j \in DOMAIN context : i < j => context[i].of <= context[j].of
    /\ \A t \in Tool : \A i \in DOMAIN seen[t] :
          /\ seen[t][i].of < t
          /\ t \in safe => \E u \in Tool \ safe : seen[t][i].of <= u /\ u < t

(* runTools returns, after every tool has. *)
AllToolsEnd == <>(first > MaxTools /\ \A t \in Tool : phase[t] = "taken")

(* The batch runner implements the promise of a tool runner. *)
Slots == INSTANCE ToolSlots WITH
    running <- {[id |-> t, safe |-> t \in safe] :
                   t \in In({"busy", "value", "change", "paused"})},
    started <- Tool \ In({"off", "waiting"})

ImplementsSlots == Slots!Spec
================================================================================
