-------------------------- MODULE ToolExecutorProofs ---------------------------
(***************************************************************************)
(* Proofs about ToolExecutor for any number of tool calls of any kinds.    *)
(***************************************************************************)
EXTENDS ToolExecutor, TLAPS

StartedIn(st, t) == call[t].known /\ st[t] \in {"executing", "completed", "yielded"}

(***************************************************************************)
(* The inductive invariant.  OrderInv speaks of a status function because  *)
(* a scan that follows addTool works on the status with the new tool in it.*)
(* Its second part is stronger than Exclusive: while a tool executes,      *)
(* whatever was started after it was compatible with it, completed or not. *)
(***************************************************************************)
OrderInv(st) ==
    /\ \A t, u \in Tool : u < t /\ StartedIn(st, t) /\ call[u].known => StartedIn(st, u)
    /\ \A t, u \in Tool : u < t /\ st[u] = "executing" /\ StartedIn(st, t)
          => call[u].safe /\ call[t].safe
    /\ \A t \in Tool : st[t] \in {"queued", "executing"} => call[t].known

\* A position from which a scan may go on.
ScanFrom(st, from) == from = 1 \/ (from - 1 \in Tool /\ StartedIn(st, from - 1))

ScanInv ==
    /\ \A t \in Tool : status[t] = "absent" <=> t > added
    /\ \A t \in resume : ScanFrom(status, t + 1)
    /\ pc = "scan" => ScanFrom(status, at)

\* A generator is under way exactly for the tools that execute.
RunInv == \A t \in Tool : status[t] = "executing" <=> run[t] # "off"

IInv == TypeOK /\ OrderInv(status) /\ ScanInv /\ RunInv

--------------------------------------------------------------------------------
(* What a scan does to the order. *)

\* The tool a scan starts comes after every tool that was started, and all
\* the known tools before it were started.
LEMMA StartableIsNext ==
  ASSUME NEW st \in [Tool -> Status], NEW n \in 0 .. MaxTools,
         call \in [Tool -> Calls],
         OrderInv(st), \A u \in Tool : st[u] = "absent" <=> u > n,
         NEW from \in 1 .. MaxTools + 1, ScanFrom(st, from),
         NEW t \in Startable(st, from)
  PROVE  /\ t \in Tool /\ st[t] = "queued" /\ call[t].known
         /\ \A u \in Tool : u < t /\ call[u].known => StartedIn(st, u)
         /\ \A u \in Tool : StartedIn(st, u) => u < t
         /\ \A u \in Tool : st[u] = "executing" => call[u].safe /\ call[t].safe
<1> USE MaxToolsAssumption
<1>1. t \in Tool /\ t >= from /\ st[t] = "queued" /\ call[t].known
  BY DEF Startable, Tool, OrderInv
<1>2. \A u \in Tool : st[u] = "executing" => call[u].safe /\ call[t].safe
  BY <1>1 DEF Startable, CanExecute, Executing
<1>3. ASSUME NEW u \in Tool, u < t, call[u].known
      PROVE  StartedIn(st, u)
  <2>1. CASE u < from
    <3>1. from - 1 \in Tool /\ StartedIn(st, from - 1) /\ u <= from - 1
      BY <2>1 DEF ScanFrom, Tool
    <3> QED
      BY <3>1, <1>3 DEF OrderInv, Tool
  <2>2. CASE u >= from
    <3>1. st[u] # "absent"
      BY <1>1, <1>3 DEF Tool
    <3>2. st[u] # "queued"
      <4>1. SUFFICES ASSUME st[u] = "queued" PROVE FALSE
        OBVIOUS
      <4>2. u \in from .. (t - 1)
        BY <2>2, <1>3, <1>1 DEF Tool
      <4>3. call[u].safe /\ ~CanExecute(st, u)
        BY <4>1, <4>2 DEF Startable
      <4> QED
        BY <4>3, <1>2 DEF CanExecute, Executing
    <3> QED
      BY <3>1, <3>2, <1>3 DEF StartedIn, Status
  <2> QED
    BY <2>1, <2>2, <1>1 DEF Tool
<1>4. ASSUME NEW u \in Tool, StartedIn(st, u)
      PROVE  u < t
  <2>1. u # t
    BY <1>1, <1>4 DEF StartedIn
  <2>2. ~(t < u)
    BY <1>1, <1>4 DEF OrderInv, StartedIn
  <2> QED
    BY <2>1, <2>2, <1>1 DEF Tool
<1> QED
  BY <1>1, <1>2, <1>3, <1>4

\* Starting the tool, or answering it at once, keeps the order and every
\* position a scan waits at; the scan itself may go on behind the tool.
LEMMA LaunchKeepsOrder ==
  ASSUME NEW st \in [Tool -> Status], NEW n \in 0 .. MaxTools,
         call \in [Tool -> Calls],
         OrderInv(st), \A u \in Tool : st[u] = "absent" <=> u > n,
         NEW from \in 1 .. MaxTools + 1, ScanFrom(st, from),
         NEW t \in Startable(st, from),
         NEW s \in {"executing", "completed"}
  PROVE  LET new == [st EXCEPT ![t] = s]
         IN  /\ new \in [Tool -> Status]
             /\ OrderInv(new)
             /\ \A u \in Tool : new[u] = "absent" <=> u > n
             /\ t + 1 \in 1 .. MaxTools + 1 /\ ScanFrom(new, t + 1)
             /\ \A f \in 1 .. MaxTools + 1 : ScanFrom(st, f) => ScanFrom(new, f)
<1> USE MaxToolsAssumption
<1> DEFINE new == [st EXCEPT ![t] = s]
<1>1. /\ t \in Tool /\ st[t] = "queued" /\ call[t].known
      /\ \A u \in Tool : u < t /\ call[u].known => StartedIn(st, u)
      /\ \A u \in Tool : StartedIn(st, u) => u < t
      /\ \A u \in Tool : st[u] = "executing" => call[u].safe /\ call[t].safe
  BY StartableIsNext
<1>2. new \in [Tool -> Status] /\ new[t] = s /\ \A u \in Tool \ {t} : new[u] = st[u]
  BY <1>1 DEF Status
<1> HIDE DEF new
<1>3. StartedIn(new, t) /\ \A u \in Tool : StartedIn(st, u) => StartedIn(new, u)
  BY <1>1, <1>2 DEF StartedIn
<1>4. \A u \in Tool : StartedIn(new, u) => u = t \/ StartedIn(st, u)
  BY <1>1, <1>2 DEF StartedIn
<1>5. ASSUME NEW x \in Tool, NEW u \in Tool, u < x, StartedIn(new, x), call[u].known
      PROVE  StartedIn(new, u)
  BY <1>1, <1>3, <1>4, <1>5 DEF OrderInv
<1>6. ASSUME NEW x \in Tool, NEW u \in Tool, u < x, new[u] = "executing", StartedIn(new, x)
      PROVE  call[u].safe /\ call[x].safe
  <2>1. CASE x = t
    BY <1>1, <1>2, <1>6, <2>1 DEF Tool
  <2>2. CASE x # t
    <3>1. StartedIn(st, x) /\ x < t
      BY <1>1, <1>4, <1>6, <2>2
    <3>2. u # t
      BY <3>1, <1>1, <1>6 DEF Tool
    <3> QED
      BY <3>1, <3>2, <1>2, <1>6 DEF OrderInv
  <2> QED
    BY <2>1, <2>2
<1>7. \A u \in Tool : new[u] \in {"queued", "executing"} => call[u].known
  BY <1>1, <1>2 DEF OrderInv
<1>8. OrderInv(new)
  BY <1>5, <1>6, <1>7 DEF OrderInv
<1>9. \A u \in Tool : new[u] = "absent" <=> u > n
  BY <1>1, <1>2
<1>10. t + 1 \in 1 .. MaxTools + 1 /\ ScanFrom(new, t + 1)
  BY <1>1, <1>3 DEF ScanFrom, Tool
<1>11. \A f \in 1 .. MaxTools + 1 : ScanFrom(st, f) => ScanFrom(new, f)
  BY <1>3 DEF ScanFrom
<1> QED
  BY <1>2, <1>8, <1>9, <1>10, <1>11 DEF new

\* A started tool moves on: it completes or its results are yielded.
LEMMA AdvanceKeepsOrder ==
  ASSUME NEW st \in [Tool -> Status], NEW n \in 0 .. MaxTools,
         OrderInv(st), \A u \in Tool : st[u] = "absent" <=> u > n,
         NEW t \in Tool, st[t] \in {"executing", "completed"},
         NEW s \in {"completed", "yielded"}
  PROVE  LET new == [st EXCEPT ![t] = s]
         IN  /\ new \in [Tool -> Status]
             /\ OrderInv(new)
             /\ \A u \in Tool : new[u] = "absent" <=> u > n
             /\ \A f \in 1 .. MaxTools + 1 : ScanFrom(st, f) => ScanFrom(new, f)
<1> DEFINE new == [st EXCEPT ![t] = s]
<1>1. new \in [Tool -> Status] /\ new[t] = s /\ \A u \in Tool \ {t} : new[u] = st[u]
  BY DEF Status
<1> HIDE DEF new
<1>2. \A u \in Tool : StartedIn(st, u) <=> StartedIn(new, u)
  BY <1>1 DEF StartedIn
<1>3. \A u \in Tool : new[u] \in {"queued", "executing"} => st[u] = new[u]
  BY <1>1
<1>4. OrderInv(new)
  BY <1>2, <1>3 DEF OrderInv
<1>5. \A u \in Tool : new[u] = "absent" <=> u > n
  BY <1>1
<1>6. \A f \in 1 .. MaxTools + 1 : ScanFrom(st, f) => ScanFrom(new, f)
  BY <1>2 DEF ScanFrom
<1> QED
  BY <1>1, <1>4, <1>5, <1>6 DEF new

\* addTool appends a tool: queued if it is known, else completed.
LEMMA AddKeepsOrder ==
  ASSUME NEW st \in [Tool -> Status], NEW n \in 0 .. MaxTools, n + 1 \in Tool,
         OrderInv(st), \A u \in Tool : st[u] = "absent" <=> u > n,
         NEW s \in {"queued", "completed"}, s = "queued" <=> call[n + 1].known
  PROVE  LET new == [st EXCEPT ![n + 1] = s]
         IN  /\ new \in [Tool -> Status]
             /\ OrderInv(new)
             /\ \A u \in Tool : new[u] = "absent" <=> u > n + 1
             /\ \A f \in 1 .. MaxTools + 1 : ScanFrom(st, f) => ScanFrom(new, f)
<1> DEFINE new == [st EXCEPT ![n + 1] = s]
<1>1. /\ new \in [Tool -> Status] /\ new[n + 1] = s
      /\ \A u \in Tool \ {n + 1} : new[u] = st[u]
  BY DEF Status
<1> HIDE DEF new
<1>2. st[n + 1] = "absent"
  BY DEF Tool
<1>3. \A u \in Tool : StartedIn(st, u) <=> StartedIn(new, u)
  BY <1>1, <1>2 DEF StartedIn
<1>4. \A u \in Tool : new[u] = "executing" => st[u] = "executing"
  BY <1>1
<1>5. \A u \in Tool : new[u] \in {"queued", "executing"} => call[u].known
  BY <1>1 DEF OrderInv
<1>6. OrderInv(new)
  BY <1>3, <1>4, <1>5 DEF OrderInv
<1>7. \A u \in Tool : new[u] = "absent" <=> u > n + 1
  BY <1>1, <1>2 DEF Tool
<1>8. \A f \in 1 .. MaxTools + 1 : ScanFrom(st, f) => ScanFrom(new, f)
  BY <1>3 DEF ScanFrom
<1> QED
  BY <1>1, <1>6, <1>7, <1>8 DEF new

--------------------------------------------------------------------------------
(* Type correctness. *)

LEMMA ReasonTyped ==
  ASSUME NEW t \in Tool
  PROVE  AbortReason(t) \in Reason \cup {"none"}
BY DEF AbortReason, Reason

LEMMA LaunchTyped ==
  ASSUME TypeOK, NEW st \in [Tool -> Status], NEW t \in Tool,
         NEW wk \in SUBSET Tool, Launch(t, st, wk)
  PROVE  /\ status' \in [Tool -> Status] /\ run' \in [Tool -> Run]
         /\ messages' \in [Tool -> Seq(Outcome)]
         /\ inProgress' \subseteq Tool /\ wake' \subseteq Tool
<1>1. AbortReason(t) # "none" => <<AbortReason(t)>> \in Seq(Outcome)
  BY ReasonTyped DEF Outcome
<1>2. status' \in [Tool -> Status] /\ run' \in [Tool -> Run]
  BY DEF Launch, TypeOK, Status, Run
<1>3. messages' \in [Tool -> Seq(Outcome)]
  BY <1>1 DEF Launch, TypeOK
<1>4. inProgress' \subseteq Tool /\ wake' \subseteq Tool
  BY DEF Launch, TypeOK
<1> QED
  BY <1>2, <1>3, <1>4

LEMMA ScanTyped ==
  ASSUME TypeOK, NEW st \in [Tool -> Status], NEW from \in 1 .. MaxTools + 1,
         NEW rs \in SUBSET Tool, NEW wk \in SUBSET Tool, Scan(from, st, rs, wk)
  PROVE  /\ status' \in [Tool -> Status] /\ run' \in [Tool -> Run]
         /\ messages' \in [Tool -> Seq(Outcome)]
         /\ inProgress' \subseteq Tool /\ wake' \subseteq Tool /\ resume' \subseteq Tool
<1> USE MaxToolsAssumption
<1>1. Startable(st, from) \subseteq Tool
  BY DEF Startable, Tool
<1>2. CASE \E t \in Startable(st, from) : Launch(t, st, wk) /\ resume' = rs \cup {t}
  BY <1>1, <1>2, LaunchTyped
<1>3. CASE /\ status' = st /\ resume' = rs /\ wake' = wk
           /\ UNCHANGED <<run, messages, inProgress>>
  BY <1>3 DEF TypeOK
<1> QED
  BY <1>2, <1>3 DEF Scan

LEMMA CompleteTyped ==
  ASSUME TypeOK, NEW t \in Tool, NEW results \in Seq(Outcome), Complete(t, results)
  PROVE  /\ status' \in [Tool -> Status] /\ run' \in [Tool -> Run]
         /\ messages' \in [Tool -> Seq(Outcome)]
         /\ wake' \subseteq Tool /\ context' \in Seq(Tool)
         /\ progress' \in [Tool -> BOOLEAN] /\ hasErrored' \in BOOLEAN
         /\ woken' \in BOOLEAN
<1>1. context' \in Seq(Tool)
  BY DEF Complete, TypeOK
<1> QED
  BY <1>1 DEF Complete, TypeOK, Status, Run

LEMMA CutTyped ==
  ASSUME TypeOK, NEW t \in Tool, CutShort(t)
  PROVE  /\ Append(messages[t], AbortReason(t)) \in Seq(Outcome)
         /\ Complete(t, Append(messages[t], AbortReason(t)))
<1>1. AbortReason(t) \in Outcome
  BY ReasonTyped DEF CutShort, IsCut, Outcome
<1>2. messages[t] \in Seq(Outcome)
  BY DEF TypeOK
<1> QED
  BY <1>1, <1>2 DEF CutShort

\* The part of TypeOK a tool's step may change, from CompleteTyped.
LEMMA ToolStepTyped ==
  ASSUME TypeOK, NEW t \in Tool, ToolStep(t)
  PROVE  TypeOK'
<1>1. ASSUME CutShort(t)
      PROVE  /\ status' \in [Tool -> Status] /\ run' \in [Tool -> Run]
             /\ messages' \in [Tool -> Seq(Outcome)]
             /\ wake' \subseteq Tool /\ context' \in Seq(Tool)
             /\ progress' \in [Tool -> BOOLEAN] /\ hasErrored' \in BOOLEAN
             /\ woken' \in BOOLEAN
  BY <1>1, CutTyped, CompleteTyped
<1>2. ASSUME NEW outcome \in {"ok", "error"}, Deliver(t, outcome)
      PROVE  TypeOK'
  <2>1. CASE CutShort(t)
    BY <1>1, <1>2, <2>1 DEF Deliver, TypeOK, consumerVars
  <2>2. CASE ~CutShort(t)
    <3>1. Append(messages[t], outcome) \in Seq(Outcome)
      <4>1. messages[t] \in Seq(Outcome) /\ outcome \in Outcome
        BY DEF TypeOK, Outcome
      <4> QED
        BY <4>1
    <3>2. messages' \in [Tool -> Seq(Outcome)]
      BY <1>2, <2>2, <3>1 DEF Deliver, TypeOK
    <3>3. call[t].bash \in BOOLEAN
      BY CallsAssumption DEF TypeOK, Call
    <3> QED
      BY <1>2, <2>2, <3>2, <3>3 DEF Deliver, TypeOK, Run, consumerVars
  <2> QED
    BY <2>1, <2>2
<1>3. ASSUME Progress(t)
      PROVE  TypeOK'
  <2>1. CASE CutShort(t)
    BY <1>1, <1>3, <2>1 DEF Progress, TypeOK, consumerVars
  <2>2. CASE ~CutShort(t)
    BY <1>3, <2>2 DEF Progress, TypeOK, consumerVars
  <2> QED
    BY <2>1, <2>2
<1>4. ASSUME LateUpdate(t)
      PROVE  TypeOK'
  BY <1>1, <1>4 DEF LateUpdate, TypeOK, consumerVars
<1>5. ASSUME Finish(t)
      PROVE  TypeOK'
  <2>1. messages[t] \in Seq(Outcome)
    BY DEF TypeOK
  <2> QED
    BY <1>5, <2>1, CompleteTyped DEF Finish, TypeOK, consumerVars
<1> QED
  BY <1>2, <1>3, <1>4, <1>5 DEF ToolStep

LEMMA QueueTyped ==
  ASSUME TypeOK, Queue
  PROVE  TypeOK'
<1> USE MaxToolsAssumption
<1>0. 1 \in 1 .. MaxTools + 1 /\ resume \in SUBSET Tool /\ wake \in SUBSET Tool
  BY DEF TypeOK
<1>1. ASSUME AddTool
      PROVE  TypeOK'
  <2>1. added' \in 0 .. MaxTools /\ added' \in Tool
    BY <1>1 DEF AddTool, TypeOK, Tool
  <2>2. CASE Scan(1, [status EXCEPT ![added'] = "queued"], resume, wake)
    <3>1. [status EXCEPT ![added'] = "queued"] \in [Tool -> Status]
      BY <2>1 DEF TypeOK, Status
    <3>2. /\ status' \in [Tool -> Status] /\ run' \in [Tool -> Run]
          /\ messages' \in [Tool -> Seq(Outcome)]
          /\ inProgress' \subseteq Tool /\ wake' \subseteq Tool /\ resume' \subseteq Tool
      BY <1>0, <2>2, <3>1, ScanTyped
    <3> QED
      BY <1>1, <2>1, <3>2 DEF AddTool, TypeOK, signalVars, consumerVars
  <2>3. CASE /\ status' = [status EXCEPT ![added'] = "completed"]
             /\ messages' = [messages EXCEPT ![added'] = <<"error">>]
             /\ UNCHANGED <<run, inProgress, resume, wake>>
    <3>1. <<"error">> \in Seq(Outcome)
      BY DEF Outcome
    <3>2. messages' \in [Tool -> Seq(Outcome)]
      BY <2>3, <3>1 DEF TypeOK
    <3> QED
      BY <1>1, <2>1, <2>3, <3>2 DEF AddTool, TypeOK, Status, signalVars, consumerVars
  <2> QED
    BY <1>1, <2>2, <2>3 DEF AddTool
<1>2. ASSUME NEW t \in Tool, ResumeScan(t)
      PROVE  TypeOK'
  <2>1. t + 1 \in 1 .. MaxTools + 1 /\ resume \ {t} \in SUBSET Tool
    BY DEF Tool, TypeOK
  <2>2. /\ status' \in [Tool -> Status] /\ run' \in [Tool -> Run]
        /\ messages' \in [Tool -> Seq(Outcome)]
        /\ inProgress' \subseteq Tool /\ wake' \subseteq Tool /\ resume' \subseteq Tool
    <3>1. Scan(t + 1, status, resume \ {t}, wake) /\ status \in [Tool -> Status]
      BY <1>2 DEF ResumeScan, TypeOK
    <3> QED
      BY <1>0, <2>1, <3>1, ScanTyped
  <2> QED
    BY <1>2, <2>2 DEF ResumeScan, TypeOK, signalVars, consumerVars
<1>3. ASSUME NEW t \in Tool, WakeScan(t)
      PROVE  TypeOK'
  <2>1. wake \ {t} \in SUBSET Tool
    BY DEF TypeOK
  <2>2. /\ status' \in [Tool -> Status] /\ run' \in [Tool -> Run]
        /\ messages' \in [Tool -> Seq(Outcome)]
        /\ inProgress' \subseteq Tool /\ wake' \subseteq Tool /\ resume' \subseteq Tool
    <3>1. Scan(1, status, resume, wake \ {t}) /\ status \in [Tool -> Status]
      BY <1>3 DEF WakeScan, TypeOK
    <3> QED
      BY <1>0, <2>1, <3>1, ScanTyped
  <2> QED
    BY <1>3, <2>2 DEF WakeScan, TypeOK, signalVars, consumerVars
<1> QED
  BY <1>1, <1>2, <1>3 DEF Queue

LEMMA ConsumerTyped ==
  ASSUME TypeOK, Consume \/ Poll \/ BeginDrain \/ Discard
  PROVE  TypeOK'
<1> USE MaxToolsAssumption
<1>1. ASSUME NEW t \in Tool, HandOver(t)
      PROVE  TypeOK'
  <2>1. t \in 1 .. MaxTools + 1
    BY DEF Tool
  <2> QED
    BY <1>1, <2>1 DEF HandOver, TypeOK, Status, signalVars
<1>2. CASE GoOn
  BY <1>2 DEF GoOn, TypeOK, signalVars
<1>3. CASE EndCollect
  <2>1. Executing(status) \subseteq Tool
    BY DEF Executing
  <2>2. /\ mode' \in {"streaming", "draining", "finished", "dropped"}
        /\ pc' \in {"idle", "scan", "collect", "suspended", "wait"}
        /\ at' \in 1 .. MaxTools + 1 /\ racing' \subseteq Tool /\ woken' \in BOOLEAN
    <3>1. CASE mode = "streaming"
      BY <1>3, <2>1, <3>1 DEF EndCollect, TypeOK
    <3>2. CASE mode = "draining" /\ MustWait
      BY <1>3, <2>1, <3>2 DEF EndCollect, TypeOK
    <3>3. CASE mode = "draining" /\ ~MustWait
      <4>1. LoopTop /\ UNCHANGED <<racing, woken>>
        BY <1>3, <3>3 DEF EndCollect
      <4> QED
        BY <4>1 DEF LoopTop, TypeOK
    <3> QED
      BY <1>3, <3>1, <3>2, <3>3 DEF EndCollect
  <2> QED
    BY <1>3, <2>2 DEF EndCollect, TypeOK, queueVars, signalVars
<1>4. CASE EndWait
  BY <1>4 DEF EndWait, LoopTop, TypeOK, queueVars, signalVars
<1>5. CASE DrainScan
  <2>1. CASE \E t \in Startable(status, at) :
                Launch(t, status, wake) /\ at' = t + 1 /\ UNCHANGED pc
    <3>1. PICK t \in Startable(status, at) :
                Launch(t, status, wake) /\ at' = t + 1 /\ UNCHANGED pc
      BY <2>1
    <3>2. t \in Tool /\ t + 1 \in 1 .. MaxTools + 1
      BY <3>1 DEF Startable, TypeOK, Tool
    <3>3. /\ status' \in [Tool -> Status] /\ run' \in [Tool -> Run]
          /\ messages' \in [Tool -> Seq(Outcome)]
          /\ inProgress' \subseteq Tool /\ wake' \subseteq Tool
      <4>1. status \in [Tool -> Status] /\ wake \in SUBSET Tool
        BY DEF TypeOK
      <4> QED
        BY <3>1, <3>2, <4>1, LaunchTyped
    <3> QED
      BY <1>5, <3>1, <3>2, <3>3 DEF DrainScan, TypeOK, signalVars
  <2>2. CASE pc' = "collect" /\ at' = 1 /\ UNCHANGED queueVars
    BY <1>5, <2>2 DEF DrainScan, TypeOK, queueVars, signalVars
  <2> QED
    BY <1>5, <2>1, <2>2 DEF DrainScan
<1>6. CASE Poll
  BY <1>6 DEF Poll, TypeOK, queueVars, signalVars
<1>7. CASE BeginDrain
  BY <1>7 DEF BeginDrain, LoopTop, TypeOK, queueVars, signalVars
<1>8. CASE Discard
  BY <1>8 DEF Discard, TypeOK, queueVars
<1> QED
  BY <1>1, <1>2, <1>3, <1>4, <1>5, <1>6, <1>7, <1>8 DEF Consume

LEMMA AbortTyped ==
  ASSUME TypeOK, Abort
  PROVE  TypeOK'
<1>1. PICK reason \in {"user", "interrupt"} : SetAborted(reason)
  BY DEF Abort, UserAbort, SubmitInterrupt, NowCommandInterrupt, RejectPermission
<1> QED
  BY <1>1 DEF SetAborted, TypeOK, queueVars, consumerVars

LEMMA TypeInit == Init => TypeOK
<1>1. <<>> \in Seq(Outcome) /\ <<>> \in Seq(Tool) /\ 1 \in 1 .. MaxTools + 1
  BY MaxToolsAssumption
<1> SUFFICES ASSUME Init PROVE TypeOK
  OBVIOUS
<1>2. /\ status \in [Tool -> Status] /\ run \in [Tool -> Run]
      /\ messages \in [Tool -> Seq(Outcome)] /\ progress \in [Tool -> BOOLEAN]
  BY <1>1 DEF Init, Status, Run
<1>3. /\ call \in [Tool -> Calls] /\ added \in 0 .. MaxTools
      /\ context \in Seq(Tool) /\ at \in 1 .. MaxTools + 1
  BY <1>1, MaxToolsAssumption DEF Init
<1>4. /\ inProgress \subseteq Tool /\ resume \subseteq Tool
      /\ wake \subseteq Tool /\ racing \subseteq Tool
  BY DEF Init
<1>5. /\ hasErrored \in BOOLEAN /\ discarded \in BOOLEAN /\ woken \in BOOLEAN
      /\ aborted \in {"none", "user", "interrupt"}
      /\ mode \in {"streaming", "draining", "finished", "dropped"}
      /\ pc \in {"idle", "scan", "collect", "suspended", "wait"}
  BY DEF Init
<1> QED
  BY <1>2, <1>3, <1>4, <1>5 DEF TypeOK

LEMMA TypeNext == TypeOK /\ [Next]_vars => TypeOK'
<1> SUFFICES ASSUME TypeOK, [Next]_vars PROVE TypeOK'
  OBVIOUS
<1>1. CASE UNCHANGED vars
  BY <1>1 DEF TypeOK, vars
<1>2. CASE Next
  BY <1>2, QueueTyped, ToolStepTyped, ConsumerTyped, AbortTyped DEF Next
<1> QED
  BY <1>1, <1>2

(***************************************************************************)
(* Every variable keeps its type, whatever the message and the aborts.     *)
(***************************************************************************)
THEOREM TypeCorrect == Spec => []TypeOK
BY TypeInit, TypeNext, PTL DEF Spec

--------------------------------------------------------------------------------
(* The order of the tools. *)

\* What a step has to establish about the next status function.
Kept(st, n) ==
    /\ status' \in [Tool -> Status]
    /\ OrderInv(status')
    /\ \A u \in Tool : status'[u] = "absent" <=> u > n
    /\ \A f \in 1 .. MaxTools + 1 : ScanFrom(st, f) => ScanFrom(status', f)

LEMMA LaunchKeeps ==
  ASSUME NEW st \in [Tool -> Status], NEW n \in 0 .. MaxTools,
         call \in [Tool -> Calls],
         OrderInv(st), \A u \in Tool : st[u] = "absent" <=> u > n,
         NEW from \in 1 .. MaxTools + 1, ScanFrom(st, from),
         NEW t \in Startable(st, from), NEW wk, Launch(t, st, wk)
  PROVE  Kept(st, n) /\ t \in Tool /\ ScanFrom(status', t + 1)
<1>1. PICK s \in {"executing", "completed"} : status' = [st EXCEPT ![t] = s]
  BY DEF Launch
<1>2. t \in Tool
  BY DEF Startable, Tool
<1> QED
  BY <1>1, <1>2, LaunchKeepsOrder DEF Kept

LEMMA ScanKeeps ==
  ASSUME NEW st \in [Tool -> Status], NEW n \in 0 .. MaxTools,
         call \in [Tool -> Calls],
         OrderInv(st), \A u \in Tool : st[u] = "absent" <=> u > n,
         NEW from \in 1 .. MaxTools + 1, ScanFrom(st, from),
         NEW rs \in SUBSET Tool, \A t \in rs : ScanFrom(st, t + 1),
         NEW wk, Scan(from, st, rs, wk)
  PROVE  Kept(st, n) /\ \A t \in resume' : ScanFrom(status', t + 1)
<1>1. \A t \in Tool : t + 1 \in 1 .. MaxTools + 1
  BY MaxToolsAssumption DEF Tool
<1>2. ASSUME NEW t \in Startable(st, from), Launch(t, st, wk), resume' = rs \cup {t}
      PROVE  Kept(st, n) /\ \A u \in resume' : ScanFrom(status', u + 1)
  <2>1. Kept(st, n) /\ t \in Tool /\ ScanFrom(status', t + 1)
    BY <1>2, LaunchKeeps
  <2> QED
    BY <1>1, <1>2, <2>1 DEF Kept
<1>3. CASE status' = st /\ resume' = rs
  BY <1>3 DEF Kept
<1> QED
  BY <1>2, <1>3 DEF Scan

\* Back from the next status function to the primed invariant.
LEMMA KeptIsInvariant ==
  ASSUME call' = call, Kept(status, added'),
         \A t \in resume' : ScanFrom(status', t + 1),
         pc' = "scan" => ScanFrom(status', at')
  PROVE  OrderInv(status)' /\ ScanInv'
BY DEF Kept, OrderInv, ScanInv, ScanFrom, StartedIn

\* A step that starts nothing: at most one tool completes or is yielded.
LEMMA AdvanceKeeps ==
  ASSUME IInv, call' = call, added' = added, resume' = resume,
         \/ status' = status
         \/ \E t \in Tool, s \in {"completed", "yielded"} :
               /\ status[t] \in {"executing", "completed"}
               /\ status' = [status EXCEPT ![t] = s],
         pc' = "scan" => at' = 1 \/ (pc = "scan" /\ at' = at)
  PROVE  OrderInv(status)' /\ ScanInv'
<1> USE MaxToolsAssumption
<1>1. /\ status \in [Tool -> Status] /\ added \in 0 .. MaxTools
      /\ at \in 1 .. MaxTools + 1 /\ resume \subseteq Tool
      /\ OrderInv(status) /\ \A u \in Tool : status[u] = "absent" <=> u > added
      /\ \A t \in resume : t + 1 \in 1 .. MaxTools + 1 /\ ScanFrom(status, t + 1)
      /\ pc = "scan" => ScanFrom(status, at)
  BY DEF IInv, TypeOK, ScanInv, Tool
<1>2. Kept(status, added)
  <2>1. CASE status' = status
    BY <1>1, <2>1 DEF Kept
  <2>2. CASE \E t \in Tool, s \in {"completed", "yielded"} :
               /\ status[t] \in {"executing", "completed"}
               /\ status' = [status EXCEPT ![t] = s]
    <3>1. PICK t \in Tool, s \in {"completed", "yielded"} :
               /\ status[t] \in {"executing", "completed"}
               /\ status' = [status EXCEPT ![t] = s]
      BY <2>2
    <3> QED
      BY <1>1, <3>1, AdvanceKeepsOrder DEF Kept
  <2> QED
    BY <2>1, <2>2
<1>3. \A t \in resume' : ScanFrom(status', t + 1)
  BY <1>1, <1>2 DEF Kept
<1>4. pc' = "scan" => ScanFrom(status', at')
  <2>1. ScanFrom(status', 1)
    BY DEF ScanFrom
  <2> QED
    BY <1>1, <1>2, <2>1 DEF Kept
<1> QED
  BY <1>2, <1>3, <1>4, KeptIsInvariant

--------------------------------------------------------------------------------
(* One lemma per group of actions; TypeOK' comes from the section above. *)

\* A completing tool was executing, and only its status changes.
LEMMA CompleteKeeps ==
  ASSUME IInv, NEW t \in Tool, run[t] # "off", NEW results, Complete(t, results),
         UNCHANGED <<call, added, resume, pc, at>>
  PROVE  OrderInv(status)' /\ ScanInv' /\ RunInv'
<1>1. status[t] = "executing" /\ status' = [status EXCEPT ![t] = "completed"]
  BY DEF IInv, RunInv, Complete
<1>2. OrderInv(status)' /\ ScanInv'
  BY <1>1, AdvanceKeeps
<1>3. RunInv'
  BY <1>1 DEF IInv, RunInv, Complete, TypeOK
<1> QED
  BY <1>2, <1>3

LEMMA ToolStepKeeps ==
  ASSUME IInv, NEW t \in Tool, ToolStep(t)
  PROVE  OrderInv(status)' /\ ScanInv' /\ RunInv'
<1>1. run[t] # "off"
  BY DEF ToolStep, Deliver, Progress, LateUpdate, Finish, MayReport
<1>2. UNCHANGED <<call, added, resume, pc, at>>
  BY DEF ToolStep, Deliver, Progress, LateUpdate, Finish, consumerVars
<1>3. \/ \E results : Complete(t, results)
      \/ /\ status' = status
         /\ run' = run \/ run' = [run EXCEPT ![t] = "reported"]
  BY DEF ToolStep, Deliver, Progress, LateUpdate, Finish, CutShort
<1>4. CASE \E results : Complete(t, results)
  BY <1>1, <1>2, <1>4, CompleteKeeps
<1>5. CASE /\ status' = status
           /\ run' = run \/ run' = [run EXCEPT ![t] = "reported"]
  <2>1. OrderInv(status)' /\ ScanInv'
    BY <1>2, <1>5, AdvanceKeeps
  <2>2. RunInv'
    BY <1>1, <1>5 DEF IInv, RunInv, TypeOK
  <2> QED
    BY <2>1, <2>2
<1> QED
  BY <1>3, <1>4, <1>5

\* Launch and Scan keep RunInv of the status they start from.
LEMMA LaunchKeepsRun ==
  ASSUME NEW st \in [Tool -> Status], run \in [Tool -> Run],
         \A u \in Tool : st[u] = "executing" <=> run[u] # "off",
         NEW t \in Tool, st[t] = "queued", NEW wk, Launch(t, st, wk)
  PROVE  RunInv'
<1>1. run[t] = "off"
  OBVIOUS
<1> QED
  BY <1>1 DEF Launch, RunInv

LEMMA ScanKeepsRun ==
  ASSUME NEW st \in [Tool -> Status], run \in [Tool -> Run],
         \A u \in Tool : st[u] = "executing" <=> run[u] # "off",
         NEW from \in 1 .. MaxTools + 1, NEW rs, NEW wk, Scan(from, st, rs, wk)
  PROVE  RunInv'
<1>1. \A t \in Startable(st, from) : t \in Tool /\ st[t] = "queued"
  BY MaxToolsAssumption DEF Startable, Tool
<1>2. CASE \E t \in Startable(st, from) : Launch(t, st, wk)
  BY <1>1, <1>2, LaunchKeepsRun
<1>3. CASE status' = st /\ UNCHANGED run
  BY <1>3 DEF RunInv
<1> QED
  BY <1>2, <1>3 DEF Scan

LEMMA QueueKeeps ==
  ASSUME IInv, Queue
  PROVE  OrderInv(status)' /\ ScanInv' /\ RunInv'
<1> USE MaxToolsAssumption
<1>0. /\ status \in [Tool -> Status] /\ added \in 0 .. MaxTools
      /\ run \in [Tool -> Run] /\ resume \in SUBSET Tool
      /\ call \in [Tool -> Calls] /\ at \in 1 .. MaxTools + 1
      /\ OrderInv(status) /\ \A u \in Tool : status[u] = "absent" <=> u > added
      /\ \A t \in resume : t + 1 \in 1 .. MaxTools + 1 /\ ScanFrom(status, t + 1)
      /\ pc = "scan" => ScanFrom(status, at)
      /\ \A u \in Tool : status[u] = "executing" <=> run[u] # "off"
  BY DEF IInv, TypeOK, ScanInv, RunInv, Tool
<1>1. ASSUME AddTool
      PROVE  OrderInv(status)' /\ ScanInv' /\ RunInv'
  <2>1. added' = added + 1 /\ added' \in Tool /\ added' \in 0 .. MaxTools /\ call' = call
    BY <1>0, <1>1 DEF AddTool, Tool
  <2>2. pc' # "scan"
    BY <1>1 DEF AddTool, consumerVars
  <2>3. CASE /\ call[added'].known
             /\ Scan(1, [status EXCEPT ![added'] = "queued"], resume, wake)
    <3> DEFINE st == [status EXCEPT ![added'] = "queued"]
               new == [status EXCEPT ![added + 1] = "queued"]
    <3>0. call[added + 1].known /\ added + 1 \in Tool
      BY <2>1, <2>3
    <3>a. /\ new \in [Tool -> Status] /\ OrderInv(new)
          /\ \A u \in Tool : new[u] = "absent" <=> u > added + 1
          /\ \A f \in 1 .. MaxTools + 1 : ScanFrom(status, f) => ScanFrom(new, f)
      BY <1>0, <3>0, AddKeepsOrder
    <3>1. /\ st \in [Tool -> Status] /\ OrderInv(st)
          /\ \A u \in Tool : st[u] = "absent" <=> u > added'
          /\ \A f \in 1 .. MaxTools + 1 : ScanFrom(status, f) => ScanFrom(st, f)
      BY <2>1, <3>a
    <3>2. \A u \in Tool : st[u] = "executing" <=> run[u] # "off"
      BY <1>0, <2>1 DEF Tool
    <3>3. Scan(1, st, resume, wake) /\ ScanFrom(st, 1) /\ 1 \in 1 .. MaxTools + 1
      BY <2>3 DEF ScanFrom
    <3> HIDE DEF st
    <3>4. RunInv'
      BY <1>0, <3>1, <3>2, <3>3, ScanKeepsRun
    <3>5. Kept(st, added') /\ \A t \in resume' : ScanFrom(status', t + 1)
      BY <1>0, <2>1, <3>1, <3>3, ScanKeeps
    <3>6. Kept(status, added')
      BY <3>1, <3>5 DEF Kept
    <3> QED
      BY <2>1, <2>2, <3>4, <3>5, <3>6, KeptIsInvariant
  <2>4. CASE /\ ~call[added'].known
             /\ status' = [status EXCEPT ![added'] = "completed"]
             /\ UNCHANGED <<run, resume>>
    <3> DEFINE new == [status EXCEPT ![added + 1] = "completed"]
    <3>0. ~call[added + 1].known /\ added + 1 \in Tool /\ status' = new
      BY <2>1, <2>4
    <3>a. /\ new \in [Tool -> Status] /\ OrderInv(new)
          /\ \A u \in Tool : new[u] = "absent" <=> u > added + 1
          /\ \A f \in 1 .. MaxTools + 1 : ScanFrom(status, f) => ScanFrom(new, f)
      BY <1>0, <3>0, AddKeepsOrder
    <3> HIDE DEF new
    <3>1. Kept(status, added')
      BY <2>1, <3>0, <3>a DEF Kept
    <3>2. RunInv'
      BY <1>0, <2>1, <2>4 DEF RunInv
    <3>3. \A t \in resume' : ScanFrom(status', t + 1)
      BY <1>0, <2>4, <3>1 DEF Kept
    <3> QED
      BY <2>1, <2>2, <3>1, <3>2, <3>3, KeptIsInvariant
  <2> QED
    BY <1>1, <2>3, <2>4 DEF AddTool
<1>2. ASSUME NEW from \in 1 .. MaxTools + 1, ScanFrom(status, from),
             NEW rs \in SUBSET resume, NEW wk, Scan(from, status, rs, wk),
             UNCHANGED <<call, added, pc, at>>
      PROVE  OrderInv(status)' /\ ScanInv' /\ RunInv'
  <2>1. RunInv'
    BY <1>0, <1>2, ScanKeepsRun
  <2>2. Kept(status, added) /\ \A t \in resume' : ScanFrom(status', t + 1)
    BY <1>0, <1>2, ScanKeeps
  <2>3. pc' = "scan" => ScanFrom(status', at')
    BY <1>0, <1>2, <2>2 DEF Kept
  <2> QED
    BY <1>2, <2>1, <2>2, <2>3, KeptIsInvariant
<1>3. ASSUME NEW t \in Tool, ResumeScan(t)
      PROVE  OrderInv(status)' /\ ScanInv' /\ RunInv'
  <2>1. /\ t \in resume /\ Scan(t + 1, status, resume \ {t}, wake)
        /\ UNCHANGED <<call, added, pc, at>>
    BY <1>3 DEF ResumeScan, consumerVars
  <2> QED
    BY <1>0, <1>2, <2>1
<1>4. ASSUME NEW t \in Tool, WakeScan(t)
      PROVE  OrderInv(status)' /\ ScanInv' /\ RunInv'
  <2>1. Scan(1, status, resume, wake \ {t}) /\ UNCHANGED <<call, added, pc, at>>
    BY <1>4 DEF WakeScan, consumerVars
  <2>2. 1 \in 1 .. MaxTools + 1 /\ ScanFrom(status, 1)
    BY DEF ScanFrom
  <2> QED
    BY <1>2, <2>1, <2>2
<1> QED
  BY <1>1, <1>3, <1>4 DEF Queue

LEMMA ConsumerKeeps ==
  ASSUME IInv, Consume \/ Poll \/ BeginDrain \/ Discard \/ Abort
  PROVE  OrderInv(status)' /\ ScanInv' /\ RunInv'
<1> USE MaxToolsAssumption
<1>1. ASSUME NEW t \in Tool, HandOver(t)
      PROVE  OrderInv(status)' /\ ScanInv' /\ RunInv'
  <2>1. status' = status \/ status' = [status EXCEPT ![t] = "yielded"]
    BY <1>1 DEF HandOver
  <2>2. status' # status => status[t] = "completed"
    BY <1>1 DEF HandOver, Collectable, HasOutput
  <2>3. pc' # "scan" /\ UNCHANGED <<call, added, resume, run>>
    BY <1>1 DEF HandOver
  <2>4. OrderInv(status)' /\ ScanInv'
    BY <2>1, <2>2, <2>3, AdvanceKeeps
  <2>5. RunInv'
    BY <2>1, <2>2, <2>3 DEF IInv, RunInv, TypeOK
  <2> QED
    BY <2>4, <2>5
<1>2. ASSUME UNCHANGED <<call, added, status, run, resume>>,
             pc' = "scan" => at' = 1 \/ (pc = "scan" /\ at' = at)
      PROVE  OrderInv(status)' /\ ScanInv' /\ RunInv'
  <2>1. OrderInv(status)' /\ ScanInv'
    BY <1>2, AdvanceKeeps
  <2>2. RunInv'
    BY <1>2 DEF IInv, RunInv
  <2> QED
    BY <2>1, <2>2
<1>3. CASE DrainScan
  <2>1. CASE \E t \in Startable(status, at) :
                Launch(t, status, wake) /\ at' = t + 1 /\ UNCHANGED pc
    <3>1. PICK t \in Startable(status, at) :
                Launch(t, status, wake) /\ at' = t + 1 /\ UNCHANGED pc
      BY <2>1
    <3>2. /\ status \in [Tool -> Status] /\ run \in [Tool -> Run]
          /\ added \in 0 .. MaxTools /\ at \in 1 .. MaxTools + 1
          /\ call \in [Tool -> Calls] /\ OrderInv(status) /\ ScanFrom(status, at)
          /\ \A u \in Tool : status[u] = "absent" <=> u > added
          /\ \A u \in resume : u + 1 \in 1 .. MaxTools + 1 /\ ScanFrom(status, u + 1)
          /\ \A u \in Tool : status[u] = "executing" <=> run[u] # "off"
      BY <1>3 DEF IInv, TypeOK, ScanInv, RunInv, DrainScan, Tool
    <3>3. Kept(status, added) /\ t \in Tool /\ ScanFrom(status', t + 1)
      BY <3>1, <3>2, LaunchKeeps
    <3>4. UNCHANGED <<call, added, resume>>
      BY <1>3 DEF DrainScan
    <3>5. \A u \in resume' : ScanFrom(status', u + 1)
      BY <3>2, <3>3, <3>4 DEF Kept
    <3>6. OrderInv(status)' /\ ScanInv'
      BY <3>1, <3>3, <3>4, <3>5, KeptIsInvariant
    <3>7. status[t] = "queued"
      BY <3>1 DEF Startable
    <3>8. RunInv'
      BY <3>1, <3>2, <3>3, <3>7, LaunchKeepsRun
    <3> QED
      BY <3>6, <3>8
  <2>2. CASE pc' = "collect" /\ at' = 1 /\ UNCHANGED queueVars
    BY <1>2, <1>3, <2>2 DEF DrainScan, queueVars
  <2> QED
    BY <1>3, <2>1, <2>2 DEF DrainScan
<1>4. CASE GoOn
  BY <1>2, <1>4 DEF GoOn
<1>5. CASE EndCollect
  BY <1>2, <1>5 DEF EndCollect, LoopTop, queueVars
<1>6. CASE EndWait
  BY <1>2, <1>6 DEF EndWait, LoopTop, queueVars
<1>7. CASE Poll
  BY <1>2, <1>7 DEF Poll, queueVars
<1>8. CASE BeginDrain
  BY <1>2, <1>8 DEF BeginDrain, LoopTop, queueVars
<1>9. CASE Discard
  BY <1>2, <1>9 DEF Discard, queueVars
<1>10. CASE Abort
  <2>1. PICK reason : SetAborted(reason)
    BY <1>10 DEF Abort, UserAbort, SubmitInterrupt, NowCommandInterrupt, RejectPermission
  <2> QED
    BY <1>2, <2>1 DEF SetAborted, queueVars, consumerVars
<1> QED
  BY <1>1, <1>3, <1>4, <1>5, <1>6, <1>7, <1>8, <1>9, <1>10 DEF Consume

LEMMA IInvInit == Init => IInv
<1> SUFFICES ASSUME Init PROVE IInv
  OBVIOUS
<1>1. TypeOK
  BY TypeInit
<1>2. OrderInv(status) /\ ScanInv /\ RunInv
  BY MaxToolsAssumption DEF Init, OrderInv, ScanInv, RunInv, StartedIn, Tool
<1> QED
  BY <1>1, <1>2 DEF IInv

LEMMA IInvNext == IInv /\ [Next]_vars => IInv'
<1> SUFFICES ASSUME IInv, [Next]_vars PROVE IInv'
  OBVIOUS
<1>1. TypeOK'
  BY TypeNext DEF IInv
<1>2. OrderInv(status)' /\ ScanInv' /\ RunInv'
  <2>1. CASE UNCHANGED vars
    BY <2>1 DEF vars, IInv, OrderInv, ScanInv, RunInv, ScanFrom, StartedIn
  <2>2. CASE Next
    BY <2>2, QueueKeeps, ToolStepKeeps, ConsumerKeeps DEF Next
  <2> QED
    BY <2>1, <2>2
<1> QED
  BY <1>1, <1>2 DEF IInv

THEOREM InvariantHolds == Spec => []IInv
BY IInvInit, IInvNext, PTL DEF Spec

(***************************************************************************)
(* StreamingToolExecutor.ts:37-38: an unsafe tool never executes next to   *)
(* another tool, for any number of tools and pending scans.                *)
(***************************************************************************)
THEOREM ExclusiveExecution == Spec => []Exclusive
<1>1. IInv => Exclusive
  <2> SUFFICES ASSUME IInv, NEW t \in Executing(status), NEW u \in Executing(status), t # u
               PROVE  call[t].safe /\ call[u].safe
    BY DEF Exclusive
  <2>1. t \in Tool /\ u \in Tool /\ StartedIn(status, t) /\ StartedIn(status, u)
    BY DEF IInv, OrderInv, Executing, StartedIn
  <2>2. t < u \/ u < t
    BY <2>1 DEF Tool
  <2> QED
    BY <2>1, <2>2 DEF IInv, OrderInv, Executing
<1> QED
  BY <1>1, InvariantHolds, PTL

(***************************************************************************)
(* Line 154: the tools are started in the order of their blocks.           *)
(***************************************************************************)
THEOREM StartsInOrder == Spec => []StartOrder
<1>1. IInv => StartOrder
  BY DEF IInv, OrderInv, StartOrder, Started, StartedIn
<1> QED
  BY <1>1, InvariantHolds, PTL

--------------------------------------------------------------------------------
(* The order of the context modifiers. *)

Ended == {"completed", "yielded"}

\* A step changes the status of few tools, and never revives one.
LEMMA EndedStaysEnded ==
  ASSUME IInv, [Next]_vars, NEW u \in Tool, status[u] \in Ended
  PROVE  status'[u] \in Ended
<1> USE MaxToolsAssumption
<1>0. status \in [Tool -> Status] /\ added \in 0 .. MaxTools
  BY DEF IInv, TypeOK
<1>1. ASSUME NEW st \in [Tool -> Status], st[u] \in Ended, NEW from \in 1 .. MaxTools + 1,
             NEW wk, NEW t \in Startable(st, from), Launch(t, st, wk)
      PROVE  status'[u] \in Ended
  BY <1>1 DEF Startable, Launch, Ended
<1>2. ASSUME NEW st \in [Tool -> Status], st[u] \in Ended, NEW from \in 1 .. MaxTools + 1,
             NEW rs, NEW wk, Scan(from, st, rs, wk)
      PROVE  status'[u] \in Ended
  BY <1>1, <1>2 DEF Scan
<1>3. CASE Queue
  <2>1. CASE AddTool
    <3>1. added' \in Tool /\ added' # u
      BY <1>0, <2>1 DEF AddTool, IInv, ScanInv, Ended, Tool
    <3>2. /\ [status EXCEPT ![added'] = "queued"] \in [Tool -> Status]
          /\ [status EXCEPT ![added'] = "queued"][u] \in Ended
          /\ [status EXCEPT ![added'] = "completed"][u] \in Ended
          /\ 1 \in 1 .. MaxTools + 1
      BY <1>0, <3>1 DEF Status
    <3> QED
      BY <1>2, <2>1, <3>2 DEF AddTool
  <2>2. ASSUME NEW t \in Tool, ResumeScan(t) \/ WakeScan(t)
        PROVE  status'[u] \in Ended
    <3>1. t + 1 \in 1 .. MaxTools + 1 /\ 1 \in 1 .. MaxTools + 1
      BY DEF Tool
    <3> QED
      BY <1>0, <1>2, <2>2, <3>1 DEF ResumeScan, WakeScan
  <2> QED
    BY <1>3, <2>1, <2>2 DEF Queue
<1>4. ASSUME NEW t \in Tool, ToolStep(t)
      PROVE  status'[u] \in Ended
  BY <1>0, <1>4 DEF ToolStep, Deliver, Progress, LateUpdate, Finish, CutShort, Complete, Ended
<1>5. CASE Consume
  <2>1. CASE DrainScan
    <3>1. at \in 1 .. MaxTools + 1
      BY DEF IInv, TypeOK
    <3> QED
      BY <1>0, <1>1, <2>1, <3>1 DEF DrainScan, queueVars
  <2> QED
    BY <1>0, <1>5, <2>1
       DEF Consume, HandOver, GoOn, EndCollect, EndWait, queueVars, Ended
<1>6. CASE Abort \/ Poll \/ BeginDrain \/ Discard \/ UNCHANGED vars
  BY <1>6 DEF Abort, UserAbort, SubmitInterrupt, NowCommandInterrupt,
     RejectPermission, SetAborted, Poll, BeginDrain, Discard, queueVars, vars
<1> QED
  BY <1>3, <1>4, <1>5, <1>6 DEF Next

\* The context holds unsafe tools that have ended, in their order.
ContextInv ==
    /\ \A i \in DOMAIN context :
          /\ StartedIn(status, context[i]) /\ status[context[i]] \in Ended
          /\ ~call[context[i]].safe
    /\ ContextOrder

LEMMA ContextStep ==
  ASSUME IInv, ContextInv, [Next]_vars
  PROVE  ContextInv'
<1>1. context \in Seq(Tool) /\ call' = call
  BY DEF IInv, TypeOK, Next, Queue, AddTool, ResumeScan, WakeScan, ToolStep, Deliver,
     Progress, LateUpdate, Finish, Consume, HandOver, GoOn, EndCollect, EndWait,
     DrainScan, Abort, UserAbort, SubmitInterrupt, NowCommandInterrupt,
     RejectPermission, SetAborted, Poll, BeginDrain, Discard, vars
<1>2. \A i \in DOMAIN context : context[i] \in Tool
  BY <1>1
<1>3. \A i \in DOMAIN context :
         StartedIn(status', context[i]) /\ status'[context[i]] \in Ended
  BY <1>2, EndedStaysEnded DEF ContextInv, StartedIn, Ended
<1>4. CASE context' = context
  BY <1>1, <1>3, <1>4 DEF ContextInv, ContextOrder, StartedIn
<1>5. ASSUME NEW t \in Tool, ToolStep(t), context' # context
      PROVE  ContextInv'
  <2>1. PICK results : Complete(t, results)
    BY <1>5 DEF ToolStep, Deliver, Progress, LateUpdate, Finish, CutShort
  <2>2. run[t] # "off" /\ status[t] = "executing" /\ StartedIn(status, t)
    BY <1>5 DEF ToolStep, Deliver, Progress, LateUpdate, Finish, MayReport, IInv,
       RunInv, OrderInv, StartedIn
  <2>3. context' = Append(context, t) /\ ~call[t].safe
    BY <1>5, <2>1 DEF Complete
  <2>4. status'[t] = "completed"
    BY <2>1 DEF Complete, IInv, TypeOK
  <2>5. ASSUME NEW i \in DOMAIN context
        PROVE  context[i] < t
    <3>1. context[i] # t
      BY <2>2 DEF ContextInv, Ended
    <3>2. ~(t < context[i])
      BY <1>2, <2>2 DEF ContextInv, IInv, OrderInv
    <3> QED
      BY <1>2, <3>1, <3>2 DEF Tool
  <2>6. \A i \in DOMAIN context' :
           i = Len(context) + 1 \/ (i \in DOMAIN context /\ context'[i] = context[i])
    BY <1>1, <2>3
  <2>7. context'[Len(context) + 1] = t
    BY <1>1, <2>3
  <2>8. StartedIn(status', t)
    BY <2>2, <2>4 DEF StartedIn
  <2>9. \A i \in DOMAIN context' :
          /\ StartedIn(status', context'[i]) /\ status'[context'[i]] \in Ended
          /\ ~call[context'[i]].safe
    BY <1>3, <2>3, <2>4, <2>6, <2>7, <2>8 DEF ContextInv, Ended
  <2>10. \A i, j \in DOMAIN context' : i < j => context'[i] < context'[j]
    <3>1. DOMAIN context' = 1 .. Len(context) + 1 /\ DOMAIN context = 1 .. Len(context)
          /\ Len(context) \in Nat
      BY <1>1, <2>3
    <3>2. SUFFICES ASSUME NEW i \in DOMAIN context', NEW j \in DOMAIN context', i < j
                   PROVE  context'[i] < context'[j]
      OBVIOUS
    <3>3. i \in DOMAIN context /\ context'[i] = context[i]
      BY <2>6, <3>1, <3>2
    <3>4. CASE j = Len(context) + 1
      BY <2>5, <2>7, <3>3, <3>4
    <3>5. CASE j \in DOMAIN context /\ context'[j] = context[j]
      BY <3>2, <3>3, <3>5 DEF ContextInv, ContextOrder
    <3> QED
      BY <2>6, <3>4, <3>5
  <2> QED
    BY <1>1, <2>9, <2>10 DEF ContextInv, ContextOrder, StartedIn
<1>6. context' # context => \E t \in Tool : ToolStep(t)
  BY DEF Next, Queue, AddTool, ResumeScan, WakeScan, Consume, HandOver, GoOn,
     EndCollect, EndWait, DrainScan, Abort, UserAbort, SubmitInterrupt,
     NowCommandInterrupt, RejectPermission, SetAborted, Poll, BeginDrain, Discard, vars
<1> QED
  BY <1>4, <1>5, <1>6

(***************************************************************************)
(* Lines 412-416: context modifiers are applied in the order of the blocks.*)
(***************************************************************************)
THEOREM ContextInOrder == Spec => []ContextOrder
<1>1. Init => ContextInv
  BY DEF Init, ContextInv, ContextOrder
<1>2. IInv /\ ContextInv /\ [Next]_vars => ContextInv'
  BY ContextStep
<1>3. ContextInv => ContextOrder
  BY DEF ContextInv
<1> QED
  BY <1>1, <1>2, <1>3, InvariantHolds, PTL DEF Spec

--------------------------------------------------------------------------------
(* A tool that reported an error is not answered again. *)

\* Before its generator reports, a tool has no result; a report is one result.
AnswerInv ==
    \A t \in Tool :
        /\ status[t] \in {"absent", "queued"} => messages[t] = <<>>
        /\ run[t] \in {"running", "cancelled"} => messages[t] = <<>>
        /\ run[t] = "reported" => Len(messages[t]) = 1
        /\ ThisToolErrored(t) => Len(messages[t]) = 1

LEMMA SingleAnswer ==
  ASSUME NEW o \in Outcome
  PROVE  Len(<<o>>) = 1 /\ DOMAIN <<o>> = {1} /\ <<o>>[1] = o
OBVIOUS

\* What Launch does to the results, for every tool.
LEMMA LaunchAnswers ==
  ASSUME NEW st \in [Tool -> Status], NEW t \in Tool, NEW wk, Launch(t, st, wk),
         messages \in [Tool -> Seq(Outcome)], run \in [Tool -> Run], RunInv, AnswerInv,
         st[t] = "queued", messages[t] = <<>>, run[t] = "off",
         \A u \in Tool : st[u] \in {"absent", "queued"} => messages[u] = <<>>
  PROVE  AnswerInv'
<1>1. AbortReason(t) \in Reason \cup {"none"}
  BY ReasonTyped
<1>2. CASE AbortReason(t) = "none"
  <2>1. /\ status' = [st EXCEPT ![t] = "executing"] /\ messages' = messages
        /\ run' \in [Tool -> Run] /\ run'[t] \in {"running", "cancelled"}
        /\ \A u \in Tool \ {t} : run'[u] = run[u]
    BY <1>2 DEF Launch, Run
  <2> QED
    BY <2>1 DEF AnswerInv, ThisToolErrored
<1>3. CASE AbortReason(t) # "none"
  <2>1. /\ status' = [st EXCEPT ![t] = "completed"] /\ run' = run
        /\ messages' = [messages EXCEPT ![t] = <<AbortReason(t)>>]
    BY <1>3 DEF Launch
  <2>2. AbortReason(t) \in Outcome /\ AbortReason(t) # "error"
    BY <1>1, <1>3 DEF Outcome, Reason
  <2>3. ASSUME NEW u \in Tool \ {t}
        PROVE  /\ status'[u] \in {"absent", "queued"} => messages'[u] = <<>>
               /\ run'[u] \in {"running", "cancelled"} => messages'[u] = <<>>
               /\ run'[u] = "reported" => Len(messages'[u]) = 1
               /\ ThisToolErrored(u)' => Len(messages'[u]) = 1
    <3>1. status'[u] = st[u] /\ messages'[u] = messages[u] /\ run'[u] = run[u]
      BY <2>1, <2>3
    <3> QED
      BY <3>1 DEF AnswerInv, ThisToolErrored
  <2>4. status'[t] = "completed" /\ run'[t] = "off" /\ Len(messages'[t]) = 1
    BY <2>1, <2>2
  <2> QED
    BY <2>3, <2>4 DEF AnswerInv
<1> QED
  BY <1>2, <1>3

\* The end of a tool: a synthetic result only if it has reported no error.
LEMMA CompleteAnswers ==
  ASSUME TypeOK, AnswerInv, RunInv, NEW t \in Tool, run[t] # "off",
         NEW results \in Seq(Outcome), Complete(t, results),
         (\E i \in DOMAIN results : results[i] = "error") => Len(results) = 1
  PROVE  AnswerInv'
<1>1. /\ status' = [status EXCEPT ![t] = "completed"] /\ run' = [run EXCEPT ![t] = "off"]
      /\ messages' = [messages EXCEPT ![t] = results]
      /\ status \in [Tool -> Status] /\ run \in [Tool -> Run]
      /\ messages \in [Tool -> Seq(Outcome)]
  BY DEF Complete, TypeOK
<1> QED
  BY <1>1 DEF AnswerInv, ThisToolErrored

LEMMA ToolStepAnswers ==
  ASSUME IInv, AnswerInv, NEW t \in Tool, ToolStep(t)
  PROVE  AnswerInv'
<1>0. TypeOK /\ RunInv /\ messages[t] \in Seq(Outcome) /\ run[t] # "off"
  BY DEF IInv, TypeOK, ToolStep, Deliver, Progress, LateUpdate, Finish, MayReport
<1>1. CASE CutShort(t)
  <2>1. /\ Append(messages[t], AbortReason(t)) \in Seq(Outcome)
        /\ Complete(t, Append(messages[t], AbortReason(t)))
    BY <1>0, <1>1, CutTyped
  <2>2. AbortReason(t) # "error" /\ \A i \in DOMAIN messages[t] : messages[t][i] # "error"
    BY <1>1, ReasonTyped DEF CutShort, IsCut, ThisToolErrored, Reason
  <2>3. \A i \in DOMAIN Append(messages[t], AbortReason(t)) :
           Append(messages[t], AbortReason(t))[i] # "error"
    <3> DEFINE m == messages[t]
               r == AbortReason(t)
    <3>1. m \in Seq(Outcome) /\ r # "error" /\ \A i \in DOMAIN m : m[i] # "error"
      BY <1>0, <2>2
    <3> HIDE DEF m, r
    <3>2. \A i \in DOMAIN Append(m, r) : Append(m, r)[i] # "error"
      BY <3>1
    <3> QED
      BY <3>2 DEF m, r
  <2> QED
    BY <1>0, <2>1, <2>3, CompleteAnswers
<1>2. CASE Finish(t)
  BY <1>0, <1>2, CompleteAnswers DEF Finish, AnswerInv, ThisToolErrored
<1>3. ASSUME NEW outcome \in {"ok", "error"}, Deliver(t, outcome), ~CutShort(t)
      PROVE  AnswerInv'
  <2>1. messages[t] = <<>>
    BY <1>3 DEF Deliver, MayReport, AnswerInv
  <2>2. /\ messages' = [messages EXCEPT ![t] = <<outcome>>]
        /\ run' = [run EXCEPT ![t] = "reported"] /\ status' = status
    BY <1>3, <2>1 DEF Deliver
  <2>3. /\ messages \in [Tool -> Seq(Outcome)] /\ run \in [Tool -> Run]
        /\ status[t] = "executing"
    BY <1>0 DEF TypeOK, RunInv
  <2>4. messages'[t] = <<outcome>> /\ run'[t] = "reported" /\ status'[t] = "executing"
    BY <2>2, <2>3
  <2>5. \A u \in Tool \ {t} : messages'[u] = messages[u] /\ run'[u] = run[u]
    BY <2>2, <2>3
  <2>6. Len(messages'[t]) = 1
    BY <2>4
  <2> QED
    BY <2>2, <2>4, <2>5, <2>6 DEF AnswerInv, ThisToolErrored
<1>4. CASE Progress(t) /\ ~CutShort(t)
  BY <1>4 DEF Progress, AnswerInv, ThisToolErrored
<1>5. CASE LateUpdate(t)
  BY <1>1, <1>5 DEF LateUpdate
<1> QED
  BY <1>1, <1>2, <1>3, <1>4, <1>5 DEF ToolStep

\* A scan answers at most the tool it starts.
LEMMA ScanAnswers ==
  ASSUME NEW st \in [Tool -> Status], NEW from \in 1 .. MaxTools + 1, NEW rs, NEW wk,
         Scan(from, st, rs, wk),
         messages \in [Tool -> Seq(Outcome)], run \in [Tool -> Run], RunInv, AnswerInv,
         \A u \in Tool : st[u] = "executing" => status[u] = "executing",
         \A u \in Tool : st[u] = "queued" => status[u] # "executing",
         \A u \in Tool : st[u] \in {"absent", "queued"} => messages[u] = <<>>
  PROVE  AnswerInv'
<1>1. CASE \E t \in Startable(st, from) : Launch(t, st, wk)
  <2>1. PICK t \in Startable(st, from) : Launch(t, st, wk)
    BY <1>1
  <2>2. t \in Tool /\ st[t] = "queued"
    BY MaxToolsAssumption, <2>1 DEF Startable, Tool
  <2>3. messages[t] = <<>> /\ run[t] = "off"
    BY <2>2 DEF RunInv
  <2> QED
    BY <2>1, <2>2, <2>3, LaunchAnswers
<1>2. CASE status' = st /\ UNCHANGED <<run, messages>>
  BY <1>2 DEF AnswerInv, ThisToolErrored
<1> QED
  BY <1>1, <1>2 DEF Scan

LEMMA QueueAnswers ==
  ASSUME IInv, AnswerInv, Queue
  PROVE  AnswerInv'
<1> USE MaxToolsAssumption
<1>0. /\ status \in [Tool -> Status] /\ run \in [Tool -> Run] /\ RunInv
      /\ messages \in [Tool -> Seq(Outcome)] /\ 1 \in 1 .. MaxTools + 1
      /\ \A u \in Tool : status[u] \in {"absent", "queued"} => messages[u] = <<>>
  BY DEF IInv, TypeOK, AnswerInv
<1>1. CASE AddTool
  <2>1. added' \in Tool /\ status[added'] = "absent"
    BY <1>1 DEF AddTool, IInv, TypeOK, ScanInv, Tool
  <2>2. CASE Scan(1, [status EXCEPT ![added'] = "queued"], resume, wake)
    <3> DEFINE st == [status EXCEPT ![added'] = "queued"]
    <3>1. /\ st \in [Tool -> Status] /\ Scan(1, st, resume, wake)
          /\ \A u \in Tool : st[u] = "executing" => status[u] = "executing"
          /\ \A u \in Tool : st[u] = "queued" => status[u] # "executing"
          /\ \A u \in Tool : st[u] \in {"absent", "queued"} => messages[u] = <<>>
      BY <1>0, <2>1, <2>2 DEF Status
    <3> HIDE DEF st
    <3> QED
      BY <1>0, <3>1, ScanAnswers
  <2>3. CASE /\ status' = [status EXCEPT ![added'] = "completed"]
             /\ messages' = [messages EXCEPT ![added'] = <<"error">>]
             /\ UNCHANGED run
    <3>1. run[added'] = "off"
      BY <1>0, <2>1 DEF RunInv
    <3>2. ASSUME NEW u \in Tool \ {added'}
          PROVE  status'[u] = status[u] /\ messages'[u] = messages[u] /\ run'[u] = run[u]
      BY <1>0, <2>1, <2>3
    <3>3. status'[added'] = "completed" /\ run'[added'] = "off" /\ Len(messages'[added']) = 1
      BY <1>0, <2>1, <2>3, <3>1
    <3> QED
      BY <3>2, <3>3 DEF AnswerInv, ThisToolErrored
  <2> QED
    BY <1>1, <2>2, <2>3 DEF AddTool
<1>2. ASSUME NEW from \in 1 .. MaxTools + 1, NEW rs, NEW wk, Scan(from, status, rs, wk)
      PROVE  AnswerInv'
  BY <1>0, <1>2, ScanAnswers
<1>3. ASSUME NEW t \in Tool, ResumeScan(t) \/ WakeScan(t)
      PROVE  AnswerInv'
  <2>1. t + 1 \in 1 .. MaxTools + 1
    BY DEF Tool
  <2> QED
    BY <1>0, <1>2, <1>3, <2>1 DEF ResumeScan, WakeScan
<1> QED
  BY <1>1, <1>3 DEF Queue

LEMMA ConsumerAnswers ==
  ASSUME IInv, AnswerInv, Consume \/ Poll \/ BeginDrain \/ Discard \/ Abort
  PROVE  AnswerInv'
<1>0. /\ status \in [Tool -> Status] /\ run \in [Tool -> Run] /\ RunInv
      /\ messages \in [Tool -> Seq(Outcome)]
      /\ \A u \in Tool : status[u] \in {"absent", "queued"} => messages[u] = <<>>
  BY DEF IInv, TypeOK, AnswerInv
<1>1. ASSUME UNCHANGED <<status, run, messages>>
      PROVE  AnswerInv'
  BY <1>1 DEF AnswerInv, ThisToolErrored
<1>2. CASE DrainScan
  <2>1. CASE UNCHANGED queueVars
    BY <1>1, <2>1 DEF queueVars
  <2>2. ASSUME NEW t \in Startable(status, at), Launch(t, status, wake)
        PROVE  AnswerInv'
    <3>1. t \in Tool /\ status[t] = "queued"
      BY <2>2 DEF Startable, IInv, TypeOK, Tool
    <3>2. messages[t] = <<>> /\ run[t] = "off"
      BY <1>0, <3>1 DEF RunInv
    <3> QED
      BY <1>0, <2>2, <3>1, <3>2, LaunchAnswers
  <2> QED
    BY <1>2, <2>1, <2>2 DEF DrainScan
<1>3. ASSUME NEW t \in Tool, HandOver(t)
      PROVE  AnswerInv'
  <2>1. /\ UNCHANGED <<run, messages>>
        /\ \A u \in Tool : status'[u] = status[u] \/ status'[u] = "yielded"
    BY <1>0, <1>3 DEF HandOver
  <2> QED
    BY <2>1 DEF AnswerInv, ThisToolErrored
<1>4. CASE GoOn \/ EndCollect \/ EndWait \/ Poll \/ BeginDrain \/ Discard
  BY <1>1, <1>4 DEF GoOn, EndCollect, EndWait, Poll, BeginDrain, Discard, queueVars
<1>5. CASE Abort
  BY <1>1, <1>5 DEF Abort, UserAbort, SubmitInterrupt, NowCommandInterrupt,
     RejectPermission, SetAborted, queueVars
<1> QED
  BY <1>2, <1>3, <1>4, <1>5 DEF Consume

LEMMA AnswersHold == Spec => []AnswerInv
<1>1. Init => AnswerInv
  BY DEF Init, AnswerInv, ThisToolErrored
<1>2. IInv /\ AnswerInv /\ [Next]_vars => AnswerInv'
  <2> SUFFICES ASSUME IInv, AnswerInv, [Next]_vars PROVE AnswerInv'
    OBVIOUS
  <2>1. CASE UNCHANGED vars
    BY <2>1 DEF vars, AnswerInv, ThisToolErrored
  <2>2. CASE Next
    BY <2>2, QueueAnswers, ToolStepAnswers, ConsumerAnswers DEF Next
  <2> QED
    BY <2>1, <2>2
<1> QED
  BY <1>1, <1>2, InvariantHolds, PTL DEF Spec

(***************************************************************************)
(* Lines 345-348: a tool that reported an error keeps that one result,     *)
(* whatever aborts follow.                                                 *)
(***************************************************************************)
THEOREM ErrorsAnsweredOnce == Spec => []ErrorAnsweredOnce
<1>1. AnswerInv => ErrorAnsweredOnce
  BY DEF AnswerInv, ErrorAnsweredOnce
<1> QED
  BY <1>1, AnswersHold, PTL

--------------------------------------------------------------------------------
(* After a cancellation nothing starts and nothing succeeds. *)

Cancelled == discarded \/ hasErrored \/ aborted = "user"

\* A step starts no generator, and whatever answer it adds is no success.
NoSuccess(t) ==
    /\ run[t] = "off" => run'[t] = "off"
    /\ Len(messages'[t]) > Len(messages[t]) =>
          messages'[t][Len(messages'[t])] \in Reason \cup {"error"}

LEMMA CancelledReason ==
  ASSUME Cancelled, hasErrored \in BOOLEAN, NEW t \in Tool
  PROVE  AbortReason(t) \in Reason
BY DEF Cancelled, AbortReason, Reason

LEMMA Unanswered ==
  ASSUME TypeOK, NEW t \in Tool, run'[t] = run[t], messages'[t] = messages[t]
  PROVE  NoSuccess(t)
<1>1. Len(messages[t]) \in Nat
  BY DEF TypeOK
<1> QED
  BY <1>1 DEF NoSuccess

LEMMA LaunchAfterCancel ==
  ASSUME TypeOK, Cancelled, NEW t \in Tool, NEW st, NEW wk, Launch(t, st, wk)
  PROVE  \A u \in Tool : NoSuccess(u)
<1>1. AbortReason(t) \in Reason /\ AbortReason(t) # "none"
  BY CancelledReason DEF TypeOK, Reason
<1>2. run' = run /\ messages' = [messages EXCEPT ![t] = <<AbortReason(t)>>]
  BY <1>1 DEF Launch
<1>3. messages'[t] = <<AbortReason(t)>> /\ \A u \in Tool \ {t} : messages'[u] = messages[u]
  BY <1>2 DEF TypeOK
<1>4. messages'[t][Len(messages'[t])] \in Reason
  BY <1>1, <1>3
<1>5. NoSuccess(t)
  BY <1>2, <1>4 DEF NoSuccess
<1> QED
  BY <1>2, <1>3, <1>5, Unanswered

LEMMA ScanAfterCancel ==
  ASSUME TypeOK, Cancelled, NEW st, NEW from \in 1 .. MaxTools + 1, NEW rs, NEW wk,
         Scan(from, st, rs, wk)
  PROVE  \A u \in Tool : NoSuccess(u)
<1>1. Startable(st, from) \subseteq Tool
  BY MaxToolsAssumption DEF Startable, Tool
<1>2. CASE \E t \in Startable(st, from) : Launch(t, st, wk)
  BY <1>1, <1>2, LaunchAfterCancel
<1>3. CASE UNCHANGED <<run, messages>>
  BY <1>3, Unanswered
<1> QED
  BY <1>2, <1>3 DEF Scan

LEMMA QueueAfterCancel ==
  ASSUME TypeOK, Cancelled, Queue
  PROVE  \A u \in Tool : NoSuccess(u)
<1> USE MaxToolsAssumption
<1>0. 1 \in 1 .. MaxTools + 1 /\ \A t \in Tool : t + 1 \in 1 .. MaxTools + 1
  BY DEF Tool
<1>1. CASE \E from \in 1 .. MaxTools + 1 : \E st, rs, wk : Scan(from, st, rs, wk)
  BY <1>1, ScanAfterCancel
<1>2. CASE /\ AddTool /\ messages' = [messages EXCEPT ![added'] = <<"error">>]
           /\ run' = run
  <2>1. added' \in Tool
    BY <1>2 DEF AddTool, TypeOK, Tool
  <2>2. /\ messages'[added'] = <<"error">>
        /\ \A u \in Tool \ {added'} : messages'[u] = messages[u]
    BY <1>2, <2>1 DEF TypeOK
  <2>3. NoSuccess(added')
    BY <1>2, <2>2 DEF NoSuccess
  <2> QED
    BY <1>2, <2>2, <2>3, Unanswered
<1> QED
  BY <1>0, <1>1, <1>2 DEF Queue, AddTool, ResumeScan, WakeScan

LEMMA ToolStepAfterCancel ==
  ASSUME IInv, AnswerInv, Cancelled, NEW t \in Tool, ToolStep(t)
  PROVE  \A u \in Tool : NoSuccess(u)
<1>0. /\ TypeOK /\ AbortReason(t) \in Reason
      /\ run[t] # "off"
      /\ messages[t] \in Seq(Outcome)
  BY CancelledReason DEF IInv, TypeOK, ToolStep, Deliver, Progress, LateUpdate, Finish,
     MayReport
<1>1. ASSUME NEW results, Complete(t, results)
      PROVE  /\ \A u \in Tool \ {t} : NoSuccess(u)
             /\ run'[t] = "off" /\ messages'[t] = results
  <2>1. /\ run' = [run EXCEPT ![t] = "off"] /\ messages' = [messages EXCEPT ![t] = results]
        /\ run \in [Tool -> Run] /\ messages \in [Tool -> Seq(Outcome)]
    BY <1>0, <1>1 DEF Complete, TypeOK
  <2>2. /\ run'[t] = "off" /\ messages'[t] = results
        /\ \A u \in Tool \ {t} : run'[u] = run[u] /\ messages'[u] = messages[u]
    BY <2>1
  <2> QED
    BY <1>0, <2>2, Unanswered
<1>2. CASE CutShort(t)
  <2>1. Complete(t, Append(messages[t], AbortReason(t)))
    BY <1>2 DEF CutShort
  <2>2. LET m == Append(messages[t], AbortReason(t)) IN m[Len(m)] = AbortReason(t)
    BY <1>0
  <2>3. messages'[t][Len(messages'[t])] = AbortReason(t)
    BY <1>1, <2>1, <2>2
  <2>4. NoSuccess(t)
    BY <1>0, <1>1, <2>1, <2>3 DEF NoSuccess
  <2> QED
    BY <1>1, <2>1, <2>4
<1>3. CASE Finish(t)
  <2>1. Complete(t, messages[t])
    BY <1>3 DEF Finish
  <2>2. Len(messages[t]) \in Nat /\ messages'[t] = messages[t]
    BY <1>0, <1>1, <2>1
  <2>3. NoSuccess(t)
    BY <1>0, <2>2 DEF NoSuccess
  <2> QED
    BY <1>1, <2>1, <2>3
<1>4. CASE run[t] # "reported"
  \* A tool that has yet to report has no error of its own: it is cut short.
  <2>1. messages[t] = <<>>
    BY <1>0, <1>4 DEF AnswerInv, TypeOK, Run
  <2>2. IsCut(t)
    BY <1>0, <2>1 DEF IsCut, ThisToolErrored, Reason
  <2> QED
    BY <1>2, <1>3, <2>2 DEF ToolStep, Deliver, Progress, LateUpdate
<1>5. CASE run[t] = "reported"
  BY <1>2, <1>3, <1>5 DEF ToolStep, Deliver, Progress, LateUpdate, MayReport
<1> QED
  BY <1>4, <1>5

LEMMA ConsumerAfterCancel ==
  ASSUME IInv, Cancelled, Consume \/ Poll \/ BeginDrain \/ Discard \/ Abort
  PROVE  \A u \in Tool : NoSuccess(u)
<1>0. TypeOK
  BY DEF IInv
<1>1. CASE UNCHANGED <<run, messages>>
  BY <1>0, <1>1, Unanswered
<1>2. ASSUME NEW t \in Startable(status, at), Launch(t, status, wake)
      PROVE  \A u \in Tool : NoSuccess(u)
  <2>1. t \in Tool
    BY <1>0, MaxToolsAssumption DEF Startable, TypeOK, Tool
  <2> QED
    BY <1>0, <1>2, <2>1, LaunchAfterCancel
<1>3. CASE Consume
  BY <1>1, <1>2, <1>3 DEF Consume, HandOver, GoOn, EndCollect, EndWait, DrainScan, queueVars
<1>4. CASE Poll \/ BeginDrain \/ Discard
  BY <1>1, <1>4 DEF Poll, BeginDrain, Discard, queueVars
<1>5. CASE Abort
  BY <1>1, <1>5 DEF Abort, UserAbort, SubmitInterrupt, NowCommandInterrupt,
     RejectPermission, SetAborted, queueVars
<1> QED
  BY <1>3, <1>4, <1>5

(***************************************************************************)
(* Lines 68 and 289-306: once the executor is discarded, a Bash tool has   *)
(* failed or the user has aborted the turn, nothing starts and no tool     *)
(* succeeds, whatever scans, updates and results are still under way.      *)
(***************************************************************************)
THEOREM NoSuccessAfterCancel == Spec => NothingSucceedsAfterCancel
<1>1. IInv /\ AnswerInv /\ [Next]_vars =>
        [Cancelled => \A t \in Tool : NoSuccess(t)]_vars
  BY QueueAfterCancel, ToolStepAfterCancel, ConsumerAfterCancel DEF Next, IInv
<1>2. [Cancelled => \A t \in Tool : NoSuccess(t)]_vars <=>
        [discarded \/ hasErrored \/ aborted = "user" =>
          \A t \in Tool :
              /\ run[t] = "off" => run'[t] = "off"
              /\ Len(messages'[t]) > Len(messages[t]) =>
                    messages'[t][Len(messages'[t])] \in Reason \cup {"error"}]_vars
  BY DEF Cancelled, NoSuccess
<1> QED
  BY <1>1, <1>2, InvariantHolds, AnswersHold, PTL DEF Spec, NothingSucceedsAfterCancel

--------------------------------------------------------------------------------
(* The executor implements ToolSlots. *)

RunningIn(st) == {[id |-> t, safe |-> call[t].safe] : t \in Executing(st)}
StartedSet(st) == {t \in Tool : StartedIn(st, t)}

\* A step of ToolSlots, or a stutter, between two status functions.
SlotStep(st) ==
    LET running == RunningIn(st)
        started == StartedSet(st)
    IN  \/ \E t \in Tool :
             /\ \A u \in started : u < t
             /\ \A r \in running : r.safe /\ call[t].safe
             /\ StartedSet(status') = started \cup {t}
             /\ \/ RunningIn(status') = running \cup {[id |-> t, safe |-> call[t].safe]}
                \/ RunningIn(status') = running
        \/ \E r \in running : /\ RunningIn(status') = running \ {r}
                              /\ StartedSet(status') = started
        \/ RunningIn(status') = running /\ StartedSet(status') = started

LEMMA SlotStepIsStep ==
  ASSUME SlotStep(status), call' = call, call \in [Tool -> Calls]
  PROVE  [Slots!Next]_(Slots!vars)
<1> DEFINE running == RunningIn(status)
           started == StartedSet(status)
<1>1. /\ {[id |-> t, safe |-> call[t].safe] : t \in Executing(status)} = running
      /\ {t \in Tool : Started(t)} = started
      /\ {[id |-> t, safe |-> call[t].safe] : t \in Executing(status)}' = RunningIn(status')
      /\ {t \in Tool : Started(t)}' = StartedSet(status')
  BY DEF RunningIn, StartedSet, Started, StartedIn, Executing
<1>2. CASE \E t \in Tool :
             /\ \A u \in started : u < t
             /\ \A r \in running : r.safe /\ call[t].safe
             /\ StartedSet(status') = started \cup {t}
             /\ \/ RunningIn(status') = running \cup {[id |-> t, safe |-> call[t].safe]}
                \/ RunningIn(status') = running
  <2>1. PICK t \in Tool :
             /\ \A u \in started : u < t
             /\ \A r \in running : r.safe /\ call[t].safe
             /\ StartedSet(status') = started \cup {t}
             /\ \/ RunningIn(status') = running \cup {[id |-> t, safe |-> call[t].safe]}
                \/ RunningIn(status') = running
    BY <1>2
  <2>2. t \in Slots!Tool /\ call[t].safe \in BOOLEAN
    BY CallsAssumption DEF Slots!Tool, Tool, Call
  <2>3. Slots!MayStart(t, call[t].safe)
    BY <1>1, <2>1 DEF Slots!MayStart
  <2>4. CASE RunningIn(status') = running \cup {[id |-> t, safe |-> call[t].safe]}
    <3>1. PICK safe \in BOOLEAN : safe = call[t].safe
      BY <2>2
    <3>2. Slots!Start(t, safe)
      BY <1>1, <2>1, <2>3, <2>4, <3>1 DEF Slots!Start
    <3>3. \E x \in Slots!Tool, s \in BOOLEAN : Slots!Start(x, s)
      BY <2>2, <3>1, <3>2, Zenon
    <3> QED
      BY <3>3 DEF Slots!Next
  <2>5. CASE RunningIn(status') = running
    <3>1. Slots!Cancel(t)
      BY <1>1, <2>1, <2>2, <2>3, <2>5 DEF Slots!Cancel
    <3> QED
      BY <2>2, <3>1 DEF Slots!Next
  <2> QED
    BY <2>1, <2>4, <2>5
<1>3. CASE \E r \in running : /\ RunningIn(status') = running \ {r}
                              /\ StartedSet(status') = started
  BY <1>1, <1>3 DEF Slots!Next, Slots!Finish
<1>4. CASE RunningIn(status') = running /\ StartedSet(status') = started
  BY <1>1, <1>4 DEF Slots!vars
<1> QED
  BY <1>2, <1>3, <1>4 DEF SlotStep

LEMMA LaunchIsSlotStep ==
  ASSUME NEW st \in [Tool -> Status], NEW n \in 0 .. MaxTools,
         call \in [Tool -> Calls],
         OrderInv(st), \A u \in Tool : st[u] = "absent" <=> u > n,
         NEW from \in 1 .. MaxTools + 1, ScanFrom(st, from),
         NEW t \in Startable(st, from), NEW wk, Launch(t, st, wk)
  PROVE  SlotStep(st)
<1>1. /\ t \in Tool /\ st[t] = "queued" /\ call[t].known
      /\ \A u \in Tool : StartedIn(st, u) => u < t
      /\ \A u \in Tool : st[u] = "executing" => call[u].safe /\ call[t].safe
  BY StartableIsNext
<1>2. /\ \A u \in StartedSet(st) : u < t
      /\ \A r \in RunningIn(st) : r.safe /\ call[t].safe
  BY <1>1 DEF StartedSet, RunningIn, Executing
<1>3. CASE status' = [st EXCEPT ![t] = "executing"]
  <2>1. Executing(status') = Executing(st) \cup {t}
    BY <1>1, <1>3 DEF Executing
  <2>2. RunningIn(status') = RunningIn(st) \cup {[id |-> t, safe |-> call[t].safe]}
    BY <2>1 DEF RunningIn
  <2>3. StartedSet(status') = StartedSet(st) \cup {t}
    BY <1>1, <1>3 DEF StartedSet, StartedIn
  <2> QED
    BY <1>1, <1>2, <2>2, <2>3 DEF SlotStep
<1>4. CASE status' = [st EXCEPT ![t] = "completed"]
  <2>1. Executing(status') = Executing(st)
    BY <1>1, <1>4 DEF Executing
  <2>2. RunningIn(status') = RunningIn(st)
    BY <2>1 DEF RunningIn
  <2>3. StartedSet(status') = StartedSet(st) \cup {t}
    BY <1>1, <1>4 DEF StartedSet, StartedIn
  <2> QED
    BY <1>1, <1>2, <2>2, <2>3 DEF SlotStep
<1> QED
  BY <1>3, <1>4 DEF Launch

LEMMA ScanIsSlotStep ==
  ASSUME NEW st \in [Tool -> Status], NEW n \in 0 .. MaxTools,
         call \in [Tool -> Calls],
         OrderInv(st), \A u \in Tool : st[u] = "absent" <=> u > n,
         NEW from \in 1 .. MaxTools + 1, ScanFrom(st, from),
         NEW rs, NEW wk, Scan(from, st, rs, wk)
  PROVE  SlotStep(st)
<1>1. CASE status' = st
  BY <1>1 DEF SlotStep
<1>2. ASSUME NEW t \in Startable(st, from), Launch(t, st, wk)
      PROVE  SlotStep(st)
  BY <1>2, LaunchIsSlotStep
<1> QED
  BY <1>1, <1>2 DEF Scan

\* Neither queueing a call nor yielding a result is visible to ToolSlots.
LEMMA InvisibleStep ==
  ASSUME NEW st \in [Tool -> Status],
         Executing(st) = Executing(status), StartedSet(st) = StartedSet(status),
         SlotStep(st)
  PROVE  SlotStep(status)
BY DEF SlotStep, RunningIn

LEMMA QueueIsSlotStep ==
  ASSUME IInv, Queue
  PROVE  SlotStep(status)
<1> USE MaxToolsAssumption
<1>0. /\ status \in [Tool -> Status] /\ added \in 0 .. MaxTools
      /\ call \in [Tool -> Calls] /\ resume \subseteq Tool
      /\ OrderInv(status) /\ \A u \in Tool : status[u] = "absent" <=> u > added
      /\ \A t \in resume : t + 1 \in 1 .. MaxTools + 1 /\ ScanFrom(status, t + 1)
  BY DEF IInv, TypeOK, ScanInv, Tool
<1>1. CASE AddTool
  <2>1. added' = added + 1 /\ added' \in Tool /\ added' \in 0 .. MaxTools
    BY <1>0, <1>1 DEF AddTool, Tool
  <2>2. status[added'] = "absent"
    BY <1>0, <2>1 DEF Tool
  <2>3. CASE /\ call[added'].known
             /\ Scan(1, [status EXCEPT ![added'] = "queued"], resume, wake)
    <3> DEFINE st == [status EXCEPT ![added'] = "queued"]
    <3>1. /\ st \in [Tool -> Status] /\ OrderInv(st)
          /\ \A u \in Tool : st[u] = "absent" <=> u > added'
      BY <1>0, <2>1, <2>3, AddKeepsOrder
    <3>2. Executing(st) = Executing(status) /\ StartedSet(st) = StartedSet(status)
      BY <1>0, <2>1, <2>2 DEF Executing, StartedSet, StartedIn
    <3>3. Scan(1, st, resume, wake) /\ ScanFrom(st, 1) /\ 1 \in 1 .. MaxTools + 1
      BY <2>3 DEF ScanFrom
    <3> HIDE DEF st
    <3>4. SlotStep(st)
      BY <1>0, <2>1, <3>1, <3>3, ScanIsSlotStep
    <3> QED
      BY <3>1, <3>2, <3>4, InvisibleStep
  <2>4. CASE ~call[added'].known /\ status' = [status EXCEPT ![added'] = "completed"]
    <3>1. Executing(status') = Executing(status) /\ StartedSet(status') = StartedSet(status)
      BY <1>0, <2>1, <2>2, <2>4 DEF Executing, StartedSet, StartedIn
    <3> QED
      BY <3>1 DEF SlotStep, RunningIn
  <2> QED
    BY <1>1, <2>3, <2>4 DEF AddTool
<1>2. ASSUME NEW t \in Tool, ResumeScan(t)
      PROVE  SlotStep(status)
  BY <1>0, <1>2, ScanIsSlotStep DEF ResumeScan
<1>3. ASSUME NEW t \in Tool, WakeScan(t)
      PROVE  SlotStep(status)
  <2>1. 1 \in 1 .. MaxTools + 1 /\ ScanFrom(status, 1)
    BY DEF ScanFrom
  <2> QED
    BY <1>0, <1>3, <2>1, ScanIsSlotStep DEF WakeScan
<1> QED
  BY <1>1, <1>2, <1>3 DEF Queue

LEMMA ToolStepIsSlotStep ==
  ASSUME IInv, NEW t \in Tool, ToolStep(t)
  PROVE  SlotStep(status)
<1>1. run[t] # "off" /\ status[t] = "executing" /\ status \in [Tool -> Status]
      /\ StartedIn(status, t)
  BY DEF ToolStep, Deliver, Progress, LateUpdate, Finish, MayReport, IInv, RunInv,
     TypeOK, OrderInv, StartedIn
<1>2. status' = status \/ status' = [status EXCEPT ![t] = "completed"]
  BY DEF ToolStep, Deliver, Progress, LateUpdate, Finish, CutShort, Complete
<1>3. CASE status' = status
  BY <1>3 DEF SlotStep
<1>4. CASE status' = [status EXCEPT ![t] = "completed"]
  <2> DEFINE r == [id |-> t, safe |-> call[t].safe]
  <2>1. Executing(status') = Executing(status) \ {t} /\ t \in Executing(status)
    BY <1>1, <1>4 DEF Executing
  <2>2. RunningIn(status') = RunningIn(status) \ {r} /\ r \in RunningIn(status)
    BY <2>1 DEF RunningIn
  <2>3. StartedSet(status') = StartedSet(status)
    BY <1>1, <1>4 DEF StartedSet, StartedIn
  <2> QED
    BY <2>2, <2>3 DEF SlotStep
<1> QED
  BY <1>2, <1>3, <1>4

LEMMA ConsumerIsSlotStep ==
  ASSUME IInv, Consume \/ Poll \/ BeginDrain \/ Discard \/ Abort
  PROVE  SlotStep(status)
<1>0. /\ status \in [Tool -> Status] /\ added \in 0 .. MaxTools
      /\ call \in [Tool -> Calls] /\ at \in 1 .. MaxTools + 1 /\ OrderInv(status)
      /\ \A u \in Tool : status[u] = "absent" <=> u > added
      /\ pc = "scan" => ScanFrom(status, at)
  BY DEF IInv, TypeOK, ScanInv
<1>1. CASE status' = status
  BY <1>1 DEF SlotStep
<1>2. CASE DrainScan
  <2>1. ASSUME NEW t \in Startable(status, at), Launch(t, status, wake)
        PROVE  SlotStep(status)
    BY <1>0, <1>2, <2>1, LaunchIsSlotStep DEF DrainScan
  <2> QED
    BY <1>1, <1>2, <2>1 DEF DrainScan, queueVars
<1>3. ASSUME NEW t \in Tool, HandOver(t)
      PROVE  SlotStep(status)
  <2>1. CASE status' = [status EXCEPT ![t] = "yielded"] /\ status[t] = "completed"
    <3>1. Executing(status') = Executing(status) /\ StartedSet(status') = StartedSet(status)
      BY <1>0, <2>1 DEF Executing, StartedSet, StartedIn
    <3> QED
      BY <3>1 DEF SlotStep, RunningIn
  <2> QED
    BY <1>1, <1>3, <2>1 DEF HandOver, Collectable, HasOutput
<1> QED
  BY <1>1, <1>2, <1>3 DEF Consume, GoOn, EndCollect, EndWait, Poll, BeginDrain, Discard,
     Abort, UserAbort, SubmitInterrupt, NowCommandInterrupt, RejectPermission,
     SetAborted, queueVars

(***************************************************************************)
(* The executor keeps the promise of ToolSlots: every step of it starts,   *)
(* cancels or finishes a call as ToolSlots allows, or is invisible there.  *)
(***************************************************************************)
THEOREM ExecutorImplementsSlots == Spec => ImplementsSlots
<1>1. Init => Slots!Init
  BY DEF Init, Slots!Init, Executing, Started
<1>2. IInv /\ [Next]_vars => [Slots!Next]_(Slots!vars)
  <2> SUFFICES ASSUME IInv, [Next]_vars PROVE [Slots!Next]_(Slots!vars)
    OBVIOUS
  <2>1. SlotStep(status)
    <3>1. CASE UNCHANGED vars
      BY <3>1 DEF vars, SlotStep
    <3>2. CASE Next
      BY <3>2, QueueIsSlotStep, ToolStepIsSlotStep, ConsumerIsSlotStep DEF Next
    <3> QED
      BY <3>1, <3>2
  <2>2. call' = call /\ call \in [Tool -> Calls]
    BY DEF IInv, TypeOK, Next, Queue, AddTool, ResumeScan, WakeScan, ToolStep, Deliver,
       Progress, LateUpdate, Finish, Consume, HandOver, GoOn, EndCollect, EndWait,
       DrainScan, Abort, UserAbort, SubmitInterrupt, NowCommandInterrupt,
       RejectPermission, SetAborted, Poll, BeginDrain, Discard, vars
  <2> QED
    BY <2>1, <2>2, SlotStepIsStep
<1> QED
  BY <1>1, <1>2, InvariantHolds, PTL DEF Spec, ImplementsSlots, Slots!Spec
================================================================================
