----------------------------- MODULE ToolExecutor ------------------------------
(***************************************************************************)
(* services/tools/StreamingToolExecutor.ts: the object that runs the tool  *)
(* calls of one assistant message while the message is still streaming.    *)
(*                                                                         *)
(* JavaScript runs one callback at a time, so one action is the code       *)
(* between two awaits (or two yields).  What interleaves is the order of   *)
(* the callbacks: the scans of the queue (every call of processQueue       *)
(* awaits after each tool it starts), the updates of the running tools,    *)
(* the consumer in query.ts, and the user's aborts.  Callbacks that stand  *)
(* for I/O or for the user (macrotasks) only run when no promise           *)
(* continuation (microtask) is pending: see Quiet.                         *)
(***************************************************************************)
EXTENDS Naturals, Sequences

CONSTANTS
    MaxTools,               \* the most tool_use blocks of one message
    Calls                   \* the kinds of tool call the model may emit

(***************************************************************************)
(* known: the name resolves to a tool; safe: isConcurrencySafe; bash: the  *)
(* tool is Bash, whose errors cancel its siblings; cancel: the tool's      *)
(* interruptBehavior is 'cancel'; io: its outcome needs I/O or the user    *)
(* (otherwise promise continuations alone produce it).                     *)
(***************************************************************************)
Call == [known : BOOLEAN, safe : BOOLEAN, bash : BOOLEAN,
         cancel : BOOLEAN, io : BOOLEAN]

ASSUME MaxToolsAssumption == MaxTools \in Nat
\* addTool gives an unknown tool isConcurrencySafe = true.
ASSUME CallsAssumption ==
    /\ Calls \subseteq Call
    /\ \A c \in Calls : ~c.known => c.safe

Tool == 1 .. MaxTools

VARIABLES
    call,          \* the calls of the message, in the order of its blocks
    added,         \* how many of them addTool has received
    status,        \* TrackedTool.status, "absent" before addTool
    run,           \* where the tool's runToolUse generator stands
    messages,      \* the tool_results collected for the tool, in order
    progress,      \* does pendingProgress hold a message?
    context,       \* the tools whose context modifiers were applied, in order
    inProgress,    \* the ids in the UI's set of tool uses in progress
    hasErrored,    \* a Bash tool failed
    aborted,       \* reason of the turn's abort signal, or "none"
    discarded,     \* discard() was called
    resume,        \* tools after which a void processQueue() scan goes on
    wake,          \* completed tools whose promise.finally has not run
    mode,          \* what query.ts does with the executor
    pc, at,        \* where the consumer stands, and at which tool
    racing,        \* the tools whose promises the consumer races
    woken          \* progressAvailableResolve was called during that race

queueVars == <<status, run, messages, inProgress, wake>>
signalVars == <<hasErrored, aborted, discarded>>
consumerVars == <<mode, pc, at, racing>>
vars == <<call, added, status, run, messages, progress, context, inProgress,
          hasErrored, aborted, discarded, resume, wake, mode, pc, at, racing,
          woken>>

Status == {"absent", "queued", "executing", "completed", "yielded"}
Run == {"off", "running", "cancelled", "reported"}
Reason == {"sibling_error", "user_interrupted", "streaming_fallback"}
Outcome == {"ok", "error"} \cup Reason

Init ==
    /\ call \in [Tool -> Calls]
    /\ added = 0
    /\ status = [t \in Tool |-> "absent"]
    /\ run = [t \in Tool |-> "off"]
    /\ messages = [t \in Tool |-> <<>>]
    /\ progress = [t \in Tool |-> FALSE]
    /\ context = <<>>
    /\ inProgress = {}
    /\ hasErrored = FALSE
    /\ aborted = "none"
    /\ discarded = FALSE
    /\ resume = {}
    /\ wake = {}
    /\ mode = "streaming"
    /\ pc = "idle"
    /\ at = 1
    /\ racing = {}
    /\ woken = FALSE

--------------------------------------------------------------------------------
(* The helpers of the class. *)

Executing(st) == {t \in Tool : st[t] = "executing"}

\* Mutant: the tool's own safety is forgotten.
CanExecuteForgetsSelf(st, t) == \A u \in Executing(st) : call[u].safe

\* Nothing executes, or the tool and everything that executes are safe.
CanExecute(st, t) == \A u \in Executing(st) : call[u].safe /\ call[t].safe

(***************************************************************************)
(* The tool the for loop of processQueue reaches and starts when it goes   *)
(* on from a position: the scan passes over a safe tool that cannot start  *)
(* and ends at an unsafe one.  At most one tool, none if the scan ends.    *)
(***************************************************************************)
Startable(st, from) ==
    {t \in from .. MaxTools :
        /\ st[t] = "queued"
        /\ CanExecute(st, t)
        /\ \A u \in from .. (t - 1) :
              st[u] = "queued" => call[u].safe /\ ~CanExecute(st, u)}

\* Mutant: the sibling error is not looked at.
AbortReasonNoSibling(t) ==
    CASE discarded -> "streaming_fallback"
      [] ~discarded /\ aborted # "none" -> "user_interrupted"
      [] OTHER -> "none"

AbortReason(t) ==
    CASE discarded -> "streaming_fallback"
      [] ~discarded /\ hasErrored -> "sibling_error"
      [] ~discarded /\ ~hasErrored /\ aborted = "user" -> "user_interrupted"
      [] ~discarded /\ ~hasErrored /\ aborted = "interrupt" /\ call[t].cancel
            -> "user_interrupted"
      [] OTHER -> "none"

\* setHasInterruptibleToolInProgress gets this value at every status change.
HasInterruptibleTool ==
    /\ Executing(status) # {}
    /\ \A t \in Executing(status) : call[t].cancel

Unfinished == \E t \in 1 .. added : status[t] # "yielded"

\* The tool has reported an error itself (thisToolErrored).
ThisToolErrored(t) == \E i \in DOMAIN messages[t] : messages[t][i] = "error"

WaitOver == woken \/ \E t \in racing : status[t] # "executing"

(***************************************************************************)
(* No promise continuation is pending, so the event loop may take the next *)
(* macrotask.  A consumer that is suspended at a yield is in the hands of  *)
(* its own consumer, which may await I/O.                                  *)
(***************************************************************************)
Quiet ==
    /\ resume = {} /\ wake = {}
    /\ pc \in {"idle", "suspended", "wait"}
    /\ pc = "wait" => ~WaitOver
    /\ \A t \in Executing(status) : run[t] = "running" /\ call[t].io

--------------------------------------------------------------------------------
(* Starting and running tools. *)

(***************************************************************************)
(* executeTool up to its first await: an abort that is already visible     *)
(* answers the tool at once, otherwise runToolUse starts.  It starts with  *)
(* an aborted signal when a submit-interrupt meets a tool that blocks.     *)
(***************************************************************************)
Launch(t, st, wk) ==
    /\ inProgress' = inProgress \cup {t}
    /\ \/ /\ AbortReason(t) = "none"
          /\ status' = [st EXCEPT ![t] = "executing"]
          /\ run' = [run EXCEPT ![t] =
                        IF aborted = "none" THEN "running" ELSE "cancelled"]
          /\ wake' = wk
          /\ UNCHANGED messages
       \/ /\ AbortReason(t) # "none"
          /\ status' = [st EXCEPT ![t] = "completed"]
          /\ messages' = [messages EXCEPT ![t] = <<AbortReason(t)>>]
          /\ wake' = wk \cup {t}
          /\ UNCHANGED run

\* A void processQueue() from a position, up to its await or its end.
Scan(from, st, rs, wk) ==
    \/ \E t \in Startable(st, from) :
          /\ Launch(t, st, wk)
          /\ resume' = rs \cup {t}
    \/ /\ Startable(st, from) = {}
       /\ status' = st /\ resume' = rs /\ wake' = wk
       /\ UNCHANGED <<run, messages, inProgress>>

\* query.ts hands over a block only while the turn is not aborted.
AddTool ==
    /\ mode = "streaming" /\ pc = "idle" /\ aborted = "none"
    /\ added < MaxTools
    /\ added' = added + 1
    /\ \/ /\ call[added'].known
          /\ Scan(1, [status EXCEPT ![added'] = "queued"], resume, wake)
       \/ /\ ~call[added'].known
          /\ status' = [status EXCEPT ![added'] = "completed"]
          /\ messages' = [messages EXCEPT ![added'] = <<"error">>]
          /\ UNCHANGED <<run, inProgress, resume, wake>>
    /\ UNCHANGED <<call, progress, context, signalVars, consumerVars, woken>>

\* The await of executeTool(c) inside a void processQueue() returns.
ResumeScan(c) ==
    /\ c \in resume
    /\ Scan(c + 1, status, resume \ {c}, wake)
    /\ UNCHANGED <<call, added, progress, context, signalVars, consumerVars, woken>>

\* promise.finally of a completed tool calls processQueue again.
WakeScan(t) ==
    /\ t \in wake
    /\ Scan(1, status, resume, wake \ {t})
    /\ UNCHANGED <<call, added, progress, context, signalVars, consumerVars, woken>>

(***************************************************************************)
(* The end of executeTool: results become visible, and the modifiers of an *)
(* unsafe tool that delivered its result are applied to the shared context.*)
(***************************************************************************)
Complete(t, results) ==
    /\ status' = [status EXCEPT ![t] = "completed"]
    /\ run' = [run EXCEPT ![t] = "off"]
    /\ messages' = [messages EXCEPT ![t] = results]
    /\ wake' = wake \cup {t}
    /\ context' = IF ~call[t].safe /\ \E i \in DOMAIN results : results[i] = "ok"
                  THEN Append(context, t) ELSE context
    /\ UNCHANGED <<progress, hasErrored, woken>>

\* The check at the top of the for await loop: the update is dropped.
IsCut(t) == AbortReason(t) # "none" /\ ~ThisToolErrored(t)

CutShort(t) == IsCut(t) /\ Complete(t, Append(messages[t], AbortReason(t)))

\* The tool's I/O has something to say only once the event loop gets there.
MayReport(t) ==
    \/ run[t] = "running" /\ (call[t].io => Quiet)
    \/ run[t] = "cancelled"

\* The generator delivers the tool_result.
Deliver(t, outcome) ==
    /\ MayReport(t)
    /\ run[t] = "cancelled" => outcome = "error"
    /\ \/ CutShort(t)
       \/ /\ ~IsCut(t)
          /\ messages' = [messages EXCEPT ![t] = Append(@, outcome)]
          /\ run' = [run EXCEPT ![t] = "reported"]
          /\ hasErrored' = (hasErrored \/ (outcome = "error" /\ call[t].bash))
          /\ UNCHANGED <<status, progress, context, wake, woken>>
    /\ UNCHANGED <<call, added, inProgress, aborted, discarded, resume, consumerVars>>

Progress(t) ==
    /\ MayReport(t) /\ run[t] = "running"
    /\ \/ CutShort(t)
       \/ /\ ~IsCut(t)
          /\ progress' = [progress EXCEPT ![t] = TRUE]
          /\ woken' = (woken \/ pc = "wait")
          /\ UNCHANGED <<status, run, messages, context, wake, hasErrored>>
    /\ UNCHANGED <<call, added, inProgress, aborted, discarded, resume, consumerVars>>

\* A message after the tool_result (a hook's attachment) meets the same check.
LateUpdate(t) ==
    /\ run[t] = "reported"
    /\ CutShort(t)
    /\ UNCHANGED <<call, added, inProgress, aborted, discarded, resume, consumerVars>>

Finish(t) ==
    /\ run[t] = "reported"
    /\ Complete(t, messages[t])
    /\ UNCHANGED <<call, added, inProgress, aborted, discarded, resume, consumerVars>>

--------------------------------------------------------------------------------
(* Aborts. *)

SetAborted(reason) ==
    /\ aborted = "none" /\ aborted' = reason
    /\ UNCHANGED <<call, added, queueVars, progress, context, hasErrored,
                   discarded, resume, consumerVars, woken>>

\* ESC.
UserAbort == Quiet /\ SetAborted("user")

\* A submitted prompt interrupts a turn whose executing tools all allow it.
SubmitInterrupt == Quiet /\ HasInterruptibleTool /\ SetAborted("interrupt")

\* The headless runner aborts whenever a 'now' command is queued.
NowCommandInterrupt == Quiet /\ SetAborted("interrupt")

\* A rejected permission dialog aborts the tool, and from there the turn.
RejectPermission(t) ==
    /\ Quiet /\ run[t] = "running" /\ ~discarded
    /\ SetAborted("user")

--------------------------------------------------------------------------------
(* The consumer. *)

\* query.ts polls after every message of the stream.
Poll ==
    /\ mode = "streaming" /\ pc = "idle" /\ aborted = "none"
    /\ pc' = "collect" /\ at' = 1
    /\ UNCHANGED <<call, added, queueVars, progress, context, signalVars, resume,
                   mode, racing, woken>>

(***************************************************************************)
(* The next tool for which getCompletedResults yields: it passes over the  *)
(* others and ends at an unsafe tool that executes.                        *)
(***************************************************************************)
HasOutput(t) == progress[t] \/ status[t] = "completed"

Collectable ==
    {t \in at .. added :
        /\ HasOutput(t)
        /\ \A u \in at .. (t - 1) :
              ~HasOutput(u) /\ (status[u] = "executing" => call[u].safe)}

\* It hands over the pending progress, or else the results.
HandOver(t) ==
    /\ pc = "collect" /\ t \in Collectable
    /\ \/ /\ progress[t]
          /\ progress' = [progress EXCEPT ![t] = FALSE]
          /\ UNCHANGED status
       \/ /\ ~progress[t]
          /\ status' = [status EXCEPT ![t] = "yielded"]
          /\ UNCHANGED progress
    /\ pc' = "suspended" /\ at' = t
    /\ UNCHANGED <<call, added, run, messages, context, inProgress, signalVars,
                   resume, wake, mode, racing, woken>>

\* next() is called again: the generator goes on where it yielded.
GoOn ==
    /\ pc = "suspended"
    /\ pc' = "collect"
    /\ inProgress' = IF status[at] = "yielded" THEN inProgress \ {at} ELSE inProgress
    /\ UNCHANGED <<call, added, status, run, messages, progress, context,
                   signalVars, resume, wake, mode, at, racing, woken>>

\* The while of getRemainingResults: scan again or end.
LoopTop ==
    \/ /\ Unfinished
       /\ pc' = "scan" /\ at' = 1 /\ mode' = "draining"
    \/ /\ ~Unfinished
       /\ pc' = "idle" /\ mode' = "finished" /\ UNCHANGED at

\* Mutant: it waits even if nothing executes.
MustWaitForNobody == \A t \in Tool : ~HasOutput(t)

\* Something executes, nothing is completed and no progress is pending.
MustWait ==
    /\ Executing(status) # {}
    /\ \A t \in Tool : ~HasOutput(t)

EndCollect ==
    /\ pc = "collect" /\ Collectable = {}
    /\ \/ /\ mode = "streaming"
          /\ pc' = "idle"
          /\ UNCHANGED <<mode, at, racing, woken>>
       \/ /\ mode = "draining" /\ MustWait
          /\ pc' = "wait" /\ racing' = Executing(status) /\ woken' = FALSE
          /\ UNCHANGED <<mode, at>>
       \/ /\ mode = "draining" /\ ~MustWait
          /\ LoopTop
          /\ UNCHANGED <<racing, woken>>
    /\ UNCHANGED <<call, added, queueVars, progress, context, signalVars, resume>>

EndWait ==
    /\ pc = "wait" /\ WaitOver
    /\ LoopTop
    /\ racing' = {}
    /\ UNCHANGED <<call, added, queueVars, progress, context, signalVars, resume, woken>>

\* The stream has ended: query.ts calls getRemainingResults.
BeginDrain ==
    /\ mode = "streaming" /\ pc = "idle"
    /\ LoopTop
    /\ UNCHANGED <<call, added, queueVars, progress, context, signalVars, resume,
                   racing, woken>>

\* await this.processQueue() in getRemainingResults, one started tool at a time.
DrainScan ==
    /\ pc = "scan"
    /\ \/ \E t \in Startable(status, at) :
             Launch(t, status, wake) /\ at' = t + 1 /\ UNCHANGED pc
       \/ /\ Startable(status, at) = {}
          /\ pc' = "collect" /\ at' = 1
          /\ UNCHANGED queueVars
    /\ UNCHANGED <<call, added, progress, context, signalVars, resume, mode,
                   racing, woken>>

\* A streaming fallback: query.ts drops the executor and makes another one.
Discard ==
    /\ mode = "streaming" /\ pc = "idle"
    /\ discarded' = TRUE /\ mode' = "dropped"
    /\ UNCHANGED <<call, added, queueVars, progress, context, hasErrored, aborted,
                   resume, pc, at, racing, woken>>

--------------------------------------------------------------------------------
ToolStep(t) ==
    \/ \E outcome \in {"ok", "error"} : Deliver(t, outcome)
    \/ Progress(t)
    \/ LateUpdate(t)
    \/ Finish(t)

Queue == AddTool \/ \E t \in Tool : ResumeScan(t) \/ WakeScan(t)

Consume ==
    \/ \E t \in Tool : HandOver(t)
    \/ GoOn \/ EndCollect \/ EndWait \/ DrainScan

Abort ==
    \/ UserAbort \/ SubmitInterrupt \/ NowCommandInterrupt
    \/ \E t \in Tool : RejectPermission(t)

Next ==
    \/ Queue
    \/ \E t \in Tool : ToolStep(t)
    \/ Consume
    \/ Abort
    \/ Poll \/ BeginDrain \/ Discard

Spec == Init /\ [][Next]_vars

(***************************************************************************)
(* Fairness: the engine runs pending continuations, the consumer keeps     *)
(* iterating, and the I/O of a tool is eventually over and then served at  *)
(* some macrotask (strong fairness: other macrotasks may come first).      *)
(***************************************************************************)
Fairness ==
    /\ \A t \in Tool : WF_vars(ResumeScan(t)) /\ WF_vars(WakeScan(t))
    /\ WF_vars(Consume)
    /\ \A t \in Tool :
          /\ SF_vars(\E outcome \in {"ok", "error"} : Deliver(t, outcome))
          /\ WF_vars(Finish(t))

FairSpec == Spec /\ Fairness

--------------------------------------------------------------------------------
(* Properties. *)

TypeOK ==
    /\ call \in [Tool -> Calls]
    /\ added \in 0 .. MaxTools
    /\ status \in [Tool -> Status]
    /\ run \in [Tool -> Run]
    /\ messages \in [Tool -> Seq(Outcome)]
    /\ progress \in [Tool -> BOOLEAN]
    /\ context \in Seq(Tool)
    /\ inProgress \subseteq Tool
    /\ hasErrored \in BOOLEAN
    /\ aborted \in {"none", "user", "interrupt"}
    /\ discarded \in BOOLEAN
    /\ resume \subseteq Tool
    /\ wake \subseteq Tool
    /\ mode \in {"streaming", "draining", "finished", "dropped"}
    /\ pc \in {"idle", "scan", "collect", "suspended", "wait"}
    /\ at \in 1 .. MaxTools + 1
    /\ racing \subseteq Tool
    /\ woken \in BOOLEAN

\* executeTool was called for the tool.
Started(t) == call[t].known /\ status[t] \in {"executing", "completed", "yielded"}

(***************************************************************************)
(* StreamingToolExecutor.ts:37-38: safe tools run in parallel with safe    *)
(* tools only, any other tool runs alone, however the scans of the queue   *)
(* that several callbacks leave pending interleave.                        *)
(***************************************************************************)
Exclusive ==
    \A t, u \in Executing(status) : t # u => call[t].safe /\ call[u].safe

(***************************************************************************)
(* Line 154, "we need to maintain order": no scan ever overtakes a queued  *)
(* tool, so the tools are started in the order of their blocks.            *)
(***************************************************************************)
StartOrder ==
    \A t, u \in Tool : u < t /\ Started(t) /\ call[u].known => Started(u)

(***************************************************************************)
(* Lines 412-416: the context modifiers of the unsafe tools are applied in *)
(* the order of the blocks, although completion applies them.              *)
(***************************************************************************)
ContextOrder ==
    \A i, j \in DOMAIN context : i < j => context[i] < context[j]

(***************************************************************************)
(* Lines 345-348: a tool that reported an error is the one tool its own    *)
(* sibling_error, or a later abort, does not answer a second time.         *)
(***************************************************************************)
ErrorAnsweredOnce == \A t \in Tool : ThisToolErrored(t) => Len(messages[t]) = 1

(***************************************************************************)
(* Lines 68 and 289-306: once the executor is discarded, a Bash tool has   *)
(* failed or the user has aborted the turn, nothing starts any more and no *)
(* running tool succeeds: whatever it still reports is replaced.           *)
(***************************************************************************)
NothingSucceedsAfterCancel ==
    [][discarded \/ hasErrored \/ aborted = "user" =>
          \A t \in Tool :
              /\ run[t] = "off" => run'[t] = "off"
              /\ Len(messages'[t]) > Len(messages[t]) =>
                    messages'[t][Len(messages'[t])] \in Reason \cup {"error"}]_vars

(***************************************************************************)
(* Lines 471-472 and 492-493: getRemainingResults waits for the remaining  *)
(* tools, yields their results and returns.  (A call of no known tool is   *)
(* completed at once; behind an unsafe tool that does I/O it makes the     *)
(* loop of lines 485-512 spin, and nothing is promised.)                   *)
(***************************************************************************)
DrainEnds ==
    mode = "draining" /\ (\A t \in Tool : call[t].known) ~> mode = "finished"

(***************************************************************************)
(* The executor implements the promise of a tool runner.                   *)
(***************************************************************************)
Slots == INSTANCE ToolSlots WITH
    running <- {[id |-> t, safe |-> call[t].safe] : t \in Executing(status)},
    started <- {t \in Tool : Started(t)}

ImplementsSlots == Slots!Spec
================================================================================
