------------------------------ MODULE QueryLoop ------------------------------
(***************************************************************************)
(* One user turn: queryLoop of query.ts.  It compacts the history when     *)
(* that is due, calls the model, keeps what the model streams, runs the    *)
(* tools the answer asks for and calls again, until an answer asks for     *)
(* none.  On the way it retries: with the next model, with the fallback of *)
(* the stream, after an answer that was cut short, after a request that    *)
(* was too large, after a hook that wants more work.  The user may abort   *)
(* at any moment.                                                          *)
(*                                                                         *)
(* The consumer of the generator is shown messages, and takes some back    *)
(* (tombstones).  What it was shown is the history of the next user turn.  *)
(*                                                                         *)
(* The tools run as the build runs them, all after the stream (runTools,   *)
(* see ToolBatches): buildQueryConfig turns the streaming executor off.    *)
(* The model and its client, the hooks, the compaction and the tools are   *)
(* external: each answers in any way it can.  Left out: texts without a    *)
(* consequence, attachments between two calls (the queued commands are in  *)
(* PromptQueue), summaries for the mobile client, the token budget of      *)
(* development builds.                                                     *)
(***************************************************************************)
EXTENDS Naturals, Sequences, FiniteSets, SequencesExt, Selection

CONSTANTS
    Models,         \* models in the chain
    RecoveryLimit,  \* MAX_OUTPUT_TOKENS_RECOVERY_LIMIT
    FailureLimit,   \* MAX_CONSECUTIVE_AUTOCOMPACT_FAILURES
    TurnLimits,     \* values of maxTurns to look at, 0 for none
    Widths,         \* how many tools one message may ask for
    MaxCalls,       \* bound: the answer of the last call asks for nothing
    MaxRequests,    \* bound: messages that ask for tools
    MaxTrouble      \* bound: compactions, fallbacks and answers that failed

ASSUME QueryAssumption ==
    /\ Models \in Nat \ {0}
    /\ RecoveryLimit \in Nat
    /\ FailureLimit \in Nat \ {0}
    /\ TurnLimits \subseteq Nat
    /\ Widths \subseteq Nat \ {0}
    /\ {MaxCalls, MaxRequests, MaxTrouble} \subseteq Nat

VARIABLES
    pc,             \* where the loop is
    maxTurns,       \* parameter of the turn
    foreground,     \* whether the turn is one that compacts on overflow
    primary,        \* useRoutePrimary: each round begins with the first model
    messages,       \* state.messages: what the next call starts from
    request,        \* messagesForQuery
    assistant,      \* assistantMessages of this call
    results,        \* toolResults of this call
    blocks,         \* toolUseBlocks of this call
    turnCount,
    recoveries,     \* maxOutputTokensRecoveryCount
    attempted,      \* hasAttemptedReactiveCompact
    failures,       \* tracking.consecutiveFailures
    model,          \* currentModelChainIndex
    fallback,       \* streamingFallbackOccured
    ended,          \* the client has nothing more to stream
    blocking,       \* a stop hook wants more work
    stopping,       \* a tool's hook wants no more
    aborted,        \* the signal
    shown,          \* what the consumer was shown and has not taken back
    asked,          \* messages that asked for tools so far
    calls,          \* calls so far
    trouble,        \* compactions, fallbacks and failed answers so far
    abortedAt,      \* history: where the loop was when the user aborted
    modelThen,      \* history: and with which model
    late,           \* history: calls begun after that
    doomed,         \* history: compactions that failed since the last success
    row             \* history: how the latest calls failed, and how many in a row

params == <<maxTurns, foreground, primary>>
stream == <<assistant, blocks, fallback, ended>>
local == <<request, results, blocking, stopping>>
state == <<messages, turnCount, recoveries, attempted, failures>>
signal == <<aborted, abortedAt, modelThen>>
bounds == <<asked, calls, trouble>>
history == <<late, doomed, row>>
vars == <<pc, params, stream, local, state, model, signal, shown, bounds, history>>

\* Messages.  A tool use is named by its message's number and its place in it;
\* messages without one need no number.
Message(n, kind, width) == [kind |-> kind, n |-> n, width |-> width]
Result(use) == [kind |-> "result", use |-> use]
Boundary == [kind |-> "boundary"]
Error == Message(0, "error", 0)

\* The tool uses of a message in the order of its blocks.
Uses(m) == IF m.kind = "answer" THEN [k \in 1..m.width |-> <<m.n, k>>] ELSE <<>>
UsesOf(s) == UNION {Range(Uses(s[i])) : i \in DOMAIN s}
IsResultOf(m, use) == m.kind = "result" /\ m.use = use
AnsweredIn(s, use) == \E i \in DOMAIN s : IsResultOf(s[i], use)

\* Failures come as messages too: cut short by the token limit or by the network
\* ("partial", not an error of the API), too large, anything else.
ApiErrors == {"truncated", "overflow", "error"}
Withheld == {"truncated", "partial"}
LastIs(kinds) == assistant # <<>> /\ Last(assistant).kind \in kinds

Init ==
    /\ pc = "begin"
    /\ maxTurns \in TurnLimits
    /\ foreground \in BOOLEAN
    /\ primary \in BOOLEAN
    /\ messages = <<>> /\ request = <<>>
    /\ assistant = <<>> /\ results = <<>> /\ blocks = <<>>
    /\ turnCount = 1 /\ recoveries = 0 /\ attempted = FALSE
    /\ failures = 0 /\ model = 1
    /\ fallback = FALSE /\ ended = FALSE
    /\ blocking = FALSE /\ stopping = FALSE
    /\ aborted = FALSE /\ abortedAt = "nowhere" /\ modelThen = 1
    /\ shown = <<>>
    /\ asked = 0 /\ calls = 0 /\ trouble = 0
    /\ late = 0 /\ doomed = 0
    /\ row = [kind |-> "none", length |-> 0]

Show(s) == shown' = shown \o s

\* The generator returns; s is the last that the consumer is shown.
Return(s) ==
    /\ pc' = "returned"
    /\ Show(s)
    /\ UNCHANGED <<params, stream, local, state, model, signal, bounds, history>>

Abort ==
    /\ pc # "returned" /\ ~aborted
    /\ aborted' = TRUE
    /\ abortedAt' = pc /\ modelThen' = model
    /\ UNCHANGED <<pc, params, stream, local, state, model, shown, bounds, history>>

Trouble ==
    /\ trouble < MaxTrouble
    /\ trouble' = trouble + 1

-----------------------------------------------------------------------------
(* The top of the loop: compaction, and the call *)

\* autoCompactIfNeeded tries unless its breaker has tripped.
\* Mutant: off by one.
MayCompactOnceMore == failures <= FailureLimit

MayCompact == failures < FailureLimit

\* A request goes to the model.
Send ==
    /\ calls' = calls + 1
    /\ late' = IF aborted THEN late + 1 ELSE late

Call(msgs) ==
    /\ pc' = "stream"
    /\ request' = msgs
    /\ assistant' = <<>> /\ results' = <<>> /\ blocks' = <<>>
    /\ fallback' = FALSE /\ ended' = FALSE
    /\ blocking' = FALSE /\ stopping' = FALSE
    /\ model' = IF primary THEN 1 ELSE model
    /\ Send
    /\ UNCHANGED <<params, messages, turnCount, recoveries, attempted, signal, asked,
                   row>>

Compacted ==
    /\ pc = "begin" /\ MayCompact /\ Trouble
    /\ Show(<<Boundary>>)
    /\ failures' = 0 /\ doomed' = 0
    /\ Call(<<Boundary>>)

\* A failure is threaded through the tracking of the loop.
CompactionFailed ==
    /\ pc = "begin" /\ MayCompact /\ Trouble
    /\ failures' = failures + 1 /\ doomed' = doomed + 1
    /\ Call(messages)
    /\ UNCHANGED shown

NotCompacted ==
    /\ pc = "begin"
    /\ Call(messages)
    /\ UNCHANGED <<failures, doomed, shown, trouble>>

\* A request that was not compacted may be over the hard limit.
Blocked ==
    /\ pc = "begin"
    /\ Return(<<Error>>)

-----------------------------------------------------------------------------
(* The stream *)

\* The client answers in any of these ways; at the bounds, with a plain one.
Kinds == IF calls < MaxCalls /\ trouble < MaxTrouble
         THEN {"answer", "partial", "truncated", "overflow", "error"}
         ELSE {"answer", "error"}
AnswerWidths == {0} \cup IF calls < MaxCalls /\ asked < MaxRequests THEN Widths ELSE {}

\* After the client fell back, what the stream gave before is taken back and
\* forgotten.
Kept == IF fallback THEN <<>> ELSE assistant

\* Mutant: the blocks of the abandoned stream stay.
KeptAllBlocks == blocks

KeptBlocks == IF fallback THEN <<>> ELSE blocks
NotRetracted ==
    IF fallback THEN Selected(shown, {i \in DOMAIN shown : shown[i] \notin Range(assistant)})
                ELSE shown

\* A cut by the network is salvaged only when nothing else was streamed.  An
\* error or a message of the fallback is the last one, and so is a text: what it
\* comes before does not depend on it.
Receive(kind, width) ==
    LET m == Message(IF width = 0 THEN 0 ELSE asked + 1, kind, width)
    IN  /\ pc = "stream" /\ ~ended
        /\ kind # "answer" => width = 0
        /\ kind = "partial" => assistant = <<>> /\ ~fallback
        /\ shown' = NotRetracted \o (IF kind \in Withheld THEN <<>> ELSE <<m>>)
        /\ assistant' = Append(Kept, m)
        /\ blocks' = KeptBlocks \o Uses(m)
        /\ ended' = (width = 0 \/ fallback)
        /\ asked' = IF width = 0 THEN asked ELSE asked + 1
        /\ trouble' = IF kind \in {"answer", "error"} THEN trouble ELSE trouble + 1
        /\ UNCHANGED <<pc, params, fallback, local, state, model, signal, calls,
                       history>>

\* The client asks again without streaming.
FallBack ==
    /\ pc = "stream" /\ ~ended /\ ~fallback /\ Trouble
    /\ fallback' = TRUE
    /\ UNCHANGED <<pc, params, assistant, blocks, ended, local, state, model, signal,
                   shown, asked, calls, history>>

\* yieldMissingToolResultBlocks: an answer for each use of the messages.  In what
\* order makes no difference here.
\* Mutant: uses stay without an answer.
NoneMissing == <<>>

Missing ==
    LET uses == SetToSeq(UsesOf(assistant))
    IN  [i \in DOMAIN uses |-> Result(uses[i])]

\* FallbackTriggeredError: the request goes to the next model, and nobody looks
\* at the signal.
NextModel ==
    /\ pc = "stream" /\ ~ended /\ Trouble
    /\ model < Models
    /\ model' = model + 1
    /\ Show(Missing)
    /\ assistant' = <<>> /\ blocks' = <<>>
    /\ fallback' = FALSE
    /\ Send
    /\ UNCHANGED <<pc, params, ended, local, state, signal, asked, doomed, row>>

\* Anything else that callModel throws, and that error when no model is left.
ModelError ==
    /\ pc = "stream" /\ ~ended
    /\ Return(Missing \o <<Error>>)

\* An image that cannot be sent: thrown before anything is streamed.
ImageError ==
    /\ pc = "stream" /\ ~ended
    /\ assistant = <<>> /\ ~fallback
    /\ Return(<<Error>>)

CutShort == LastIs(Withheld)

\* A stream that was aborted ends without a word.
StreamEnds ==
    /\ pc = "stream"
    /\ aborted \/ (assistant # <<>> /\ (fallback => ended))
    /\ pc' = "sampled"
    /\ row' = LET kind == IF blocks # <<>> THEN "none"
                          ELSE IF CutShort THEN "cut"
                          ELSE IF LastIs({"overflow"}) THEN "overflow" ELSE "none"
              IN  [kind |-> kind,
                   length |-> IF row.kind = kind THEN row.length + 1 ELSE 1]
    /\ UNCHANGED <<params, stream, local, state, model, signal, shown, bounds, late,
                   doomed>>

-----------------------------------------------------------------------------
(* After the stream *)

\* Mutant: the signal is not looked at after the stream.
IgnoresAbort == FALSE

SeesAbort == aborted

AbortedStreaming ==
    /\ pc = "sampled" /\ SeesAbort
    /\ Return(Missing)

UseTools ==
    /\ pc = "sampled" /\ ~SeesAbort
    /\ blocks # <<>>
    /\ pc' = "tools"
    /\ UNCHANGED <<params, stream, local, state, model, signal, shown, bounds, history>>

NoTools == pc = "sampled" /\ ~SeesAbort /\ blocks = <<>>

\* Mutant: off by one.
MayContinueOnceMore == recoveries <= RecoveryLimit

MayContinue == recoveries < RecoveryLimit

\* Mutant: compaction after compaction.
MayReactAgain == LastIs({"overflow"}) /\ foreground

MayReact == LastIs({"overflow"}) /\ ~attempted /\ foreground

\* The next iteration starts from these messages.
Again(msgs) ==
    /\ pc' = "begin"
    /\ messages' = msgs
    /\ UNCHANGED <<params, stream, local, model, signal, shown, bounds, late>>

\* The answer that was cut short stays withheld, and is continued.
Continue ==
    /\ NoTools /\ CutShort /\ MayContinue
    /\ recoveries' = recoveries + 1
    /\ attempted' = FALSE
    /\ Again(request \o assistant)
    /\ UNCHANGED <<turnCount, failures, doomed, row>>

\* Reactive compaction.  Its messages are not shown.
React ==
    /\ NoTools /\ MayReact /\ MayCompact
    /\ recoveries' = 0
    /\ attempted' = TRUE
    /\ failures' = 0 /\ doomed' = 0
    /\ Again(<<Boundary>>)
    /\ UNCHANGED <<turnCount, row>>

\* It may decline, or fail: then the error is shown a second time.
Declined ==
    /\ NoTools /\ MayReact
    /\ Return(<<Last(assistant)>>)

\* Mutant: what was withheld stays so.
StaysWithheld == <<>>

Surfaced == IF CutShort THEN <<Last(assistant)>> ELSE <<>>
NoRetry == NoTools /\ ~(CutShort /\ MayContinue) /\ ~MayReact

\* Stop hooks are skipped for an error: they would start it all again.
Failed ==
    /\ NoRetry /\ LastIs(ApiErrors)
    /\ Return(Surfaced)

Settle ==
    /\ NoRetry /\ ~LastIs(ApiErrors)
    /\ Show(Surfaced)
    /\ pc' = "stop"
    /\ UNCHANGED <<params, stream, local, state, model, signal, bounds, history>>

-----------------------------------------------------------------------------
(* handleStopHooks: after each hook that answers the signal is looked at *)

HookBlocks ==
    /\ pc = "stop" /\ ~aborted
    /\ calls < MaxCalls
    /\ blocking' = TRUE
    /\ UNCHANGED <<pc, params, stream, request, results, stopping, state, model, signal,
                   shown, bounds, history>>

\* A hook forbids to go on, answers after the abort, or all of them are content.
HooksEnd ==
    /\ pc = "stop"
    /\ Return(<<>>)

Heed ==
    /\ pc = "stop" /\ blocking
    /\ recoveries' = 0
    /\ attempted' = FALSE
    /\ row' = [kind |-> "none", length |-> 0]
    /\ Again(request \o assistant)
    /\ UNCHANGED <<turnCount, failures, doomed>>

-----------------------------------------------------------------------------
(* The tools *)

\* runTools answers each block once, the safe ones in any order; a hook of the
\* tool may want the turn to stop.
RunTool(i) ==
    /\ pc = "tools"
    /\ ~ AnsweredIn(results, blocks[i])
    /\ results' = Append(results, Result(blocks[i]))
    /\ Show(<<Result(blocks[i])>>)
    /\ \E stop \in BOOLEAN : stopping' = (stopping \/ stop)
    /\ UNCHANGED <<pc, params, stream, request, blocking, state, model, signal, bounds,
                   history>>

ToolsDone == pc = "tools" /\ \A i \in DOMAIN blocks : AnsweredIn(results, blocks[i])
LastTurn == maxTurns # 0 /\ turnCount + 1 > maxTurns
MustStop == aborted \/ stopping \/ LastTurn

StopAfterTools ==
    /\ ToolsDone /\ MustStop
    /\ Return(<<>>)

NextTurn ==
    /\ ToolsDone /\ ~MustStop
    /\ turnCount' = turnCount + 1
    /\ recoveries' = 0
    /\ attempted' = FALSE
    /\ Again(request \o assistant \o results)
    /\ UNCHANGED <<failures, doomed, row>>

-----------------------------------------------------------------------------
Done == pc = "returned" /\ UNCHANGED vars

Next ==
    \/ Abort
    \/ Compacted
    \/ CompactionFailed
    \/ NotCompacted
    \/ Blocked
    \/ \E kind \in Kinds, width \in AnswerWidths : Receive(kind, width)
    \/ FallBack
    \/ NextModel
    \/ ModelError
    \/ ImageError
    \/ StreamEnds
    \/ AbortedStreaming
    \/ UseTools
    \/ Continue
    \/ React
    \/ Declined
    \/ Failed
    \/ Settle
    \/ HookBlocks
    \/ HooksEnd
    \/ Heed
    \/ \E i \in DOMAIN blocks : RunTool(i)
    \/ StopAfterTools
    \/ NextTurn
    \/ Done

Spec == Init /\ [][Next]_vars

-----------------------------------------------------------------------------
(* Properties *)

\* Every tool use has exactly one result, and every result has its use before it.
Paired(s) ==
    /\ \A i \in DOMAIN s : \A k \in DOMAIN Uses(s[i]) :
           \E j \in DOMAIN s : \A l \in DOMAIN s : IsResultOf(s[l], Uses(s[i])[k]) <=> l = j
    /\ \A j \in DOMAIN s : s[j].kind = "result" =>
           \E i \in 1..(j - 1) : s[j].use \in Range(Uses(s[i]))

\* What goes to the model pairs up, whatever was retried, taken back or
\* forgotten before: the API refuses anything else.
RequestPaired == pc = "stream" => Paired(request)

\* So does what the consumer has when the turn is over, however it ended: it is
\* where the next turn starts.
ShownPaired == pc = "returned" => Paired(shown)

\* No retry goes on for ever: a request that is too large is tried twice, an
\* answer that is cut short RecoveryLimit times more, if nothing else happens
\* in between.
RetriesBounded ==
    /\ row.kind = "overflow" => row.length <= 2
    /\ row.kind = "cut" => row.length <= RecoveryLimit + 1

\* A turn does not go on compacting in vain: the count of failures survives
\* every way the loop is continued.
BreakerHolds == doomed <= FailureLimit

\* After the user aborted no round of the loop calls the model, but for the one
\* call of an abort between the last look at the signal and the call: while stop
\* hooks ran, or at the top of the loop.  A call that fails still goes on to the
\* models that are left, once to each.
AbortStops ==
    late <= (IF abortedAt \in {"begin", "stop"} THEN Models
             ELSE IF abortedAt = "stream" THEN Models - modelThen ELSE 0)

\* A failure is never hidden: when a turn ends without an abort and without
\* tools, the last that was shown is the last message of the model, or an error.
FailureShown ==
    pc = "returned" /\ ~aborted /\ blocks = <<>>
        => shown # <<>> /\ Last(shown) \in {Error} \cup Range(assistant)
==============================================================================
