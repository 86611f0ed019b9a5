--------------------------- MODULE QueryLoopProofs ----------------------------
(***************************************************************************)
(* For any number of models, calls, tools and failures of a user turn: the *)
(* limits of its retries, of compactions in vain and of calls after an     *)
(* abort; that uses and results pair up in every request and in what is    *)
(* shown at the end; that no failure is hidden.                            *)
(***************************************************************************)
EXTENDS QueryLoop, FiniteSetTheorems, TLAPS

Places == {"begin", "stream", "sampled", "tools", "stop", "returned"}

Types ==
    /\ pc \in Places
    /\ recoveries \in Nat /\ recoveries <= RecoveryLimit
    /\ attempted \in BOOLEAN
    /\ row \in [kind : {"none", "cut", "overflow"}, length : Nat]
    /\ aborted \in BOOLEAN
    /\ abortedAt \in Places \cup {"nowhere"}
    /\ late \in Nat
    /\ model \in 1..Models /\ modelThen \in 1..Models

\* Before and during a call, the answers cut short in a row are counted; the
\* call's own end is counted when it is continued.
CutsCounted ==
    row.kind = "cut" =>
        /\ pc \in {"begin", "stream"} => row.length <= recoveries
        /\ row.length <= recoveries + 1

\* A second overflow in a row finds that compaction was attempted.
OverflowsCounted ==
    row.kind = "overflow" =>
        /\ pc \in {"begin", "stream"} => row.length <= 1 /\ attempted
        /\ row.length <= (IF attempted THEN 2 ELSE 1)

\* The row tells how the call that just ended did.
RowIsOfCall ==
    /\ pc = "tools" => row.kind = "none"
    /\ pc = "sampled" /\ blocks # <<>> => row.kind = "none"
    /\ pc = "sampled" /\ blocks = <<>> /\ CutShort => row.kind = "cut"
    /\ pc = "sampled" /\ blocks = <<>> /\ LastIs({"overflow"}) => row.kind = "overflow"

RetryInv == Types /\ CutsCounted /\ OverflowsCounted /\ RowIsOfCall

BreakerInv == failures \in Nat /\ failures = doomed /\ failures <= FailureLimit

\* An abort that a later look at the signal will catch has no call after it but
\* those of the models that were left.
AbortInv ==
    /\ ~aborted => late = 0 /\ abortedAt = "nowhere"
    /\ aborted /\ pc \in {"begin", "stop"} => late = 0 /\ abortedAt \in {"begin", "stop"}
    /\ aborted /\ pc = "stream" =>
          \/ abortedAt \in {"begin", "stop"} /\ late <= model
          \/ abortedAt = "stream" /\ late <= model - modelThen
    /\ AbortStops

IInv == RetryInv /\ BreakerInv /\ AbortInv

-----------------------------------------------------------------------------
\* The last message is of one kind.
LEMMA KindsExclude == ~ (CutShort /\ LastIs({"overflow"}))
BY DEF CutShort, LastIs, Withheld

LEMMA InitInv == Init => IInv
<1> SUFFICES ASSUME Init PROVE IInv
  OBVIOUS
<1>1. /\ pc = "begin" /\ recoveries = 0 /\ attempted = FALSE /\ failures = 0 /\ doomed = 0
      /\ aborted = FALSE /\ abortedAt = "nowhere" /\ late = 0
      /\ model = 1 /\ modelThen = 1
      /\ row = [kind |-> "none", length |-> 0]
  BY DEF Init
<1>2. /\ row.kind = "none"
      /\ row \in [kind : {"none", "cut", "overflow"}, length : Nat]
  <2> DEFINE none == [kind |-> "none", length |-> 0]
  <2>1. none.kind = "none" /\ none \in [kind : {"none", "cut", "overflow"}, length : Nat]
    OBVIOUS
  <2> QED BY <1>1, <2>1
<1>3. Types
  <2>1. recoveries \in Nat /\ recoveries <= RecoveryLimit
    BY <1>1, QueryAssumption
  <2>2. pc \in Places /\ abortedAt \in Places \cup {"nowhere"} /\ late \in Nat
    BY <1>1 DEF Places
  <2>3. attempted \in BOOLEAN /\ aborted \in BOOLEAN
    BY <1>1
  <2>4. model \in 1..Models /\ modelThen \in 1..Models
    BY <1>1, QueryAssumption
  <2> QED BY <1>2, <2>1, <2>2, <2>3, <2>4 DEF Types
<1>5. CutsCounted /\ OverflowsCounted /\ RowIsOfCall
  BY <1>1, <1>2 DEF CutsCounted, OverflowsCounted, RowIsOfCall
<1>4. BreakerInv /\ AbortInv
  BY <1>1, QueryAssumption DEF BreakerInv, AbortInv, AbortStops
<1> QED BY <1>3, <1>4, <1>5 DEF IInv, RetryInv

\* Nothing about the limits changes when a turn is over.
LEMMA ReturnKeeps ==
  ASSUME IInv, NEW s, Return(s)
  PROVE  IInv'
<1>1. /\ pc' = "returned"
      /\ UNCHANGED <<recoveries, attempted, failures, aborted, abortedAt, modelThen, model, late, doomed, row>>
  BY DEF Return, state, signal, history
<1>2. RetryInv'
  BY <1>1 DEF IInv, RetryInv, Types, Places, CutsCounted, OverflowsCounted, RowIsOfCall
<1>3. BreakerInv' /\ AbortInv'
  BY <1>1 DEF IInv, BreakerInv, AbortInv, AbortStops
<1> QED BY <1>2, <1>3 DEF IInv

LEMMA Returns ==
  ASSUME IInv, Blocked \/ ModelError \/ ImageError \/ AbortedStreaming \/ Declined
               \/ Failed \/ HooksEnd \/ StopAfterTools
  PROVE  IInv'
BY ReturnKeeps DEF Blocked, ModelError, ImageError, AbortedStreaming, Declined, Failed,
   HooksEnd, StopAfterTools

LEMMA AbortKeeps ==
  ASSUME IInv, Abort
  PROVE  IInv'
<1>1. /\ ~aborted /\ aborted' = TRUE /\ abortedAt' = pc /\ modelThen' = model
      /\ pc # "returned"
      /\ UNCHANGED <<pc, recoveries, attempted, failures, model, late, doomed, row,
                     assistant, blocks>>
  BY DEF Abort, state, history, stream
<1>2. RetryInv'
  BY <1>1 DEF IInv, RetryInv, Types, Places, CutsCounted, OverflowsCounted, RowIsOfCall,
     CutShort, LastIs
<1>3. BreakerInv' /\ AbortInv'
  BY <1>1, QueryAssumption DEF IInv, RetryInv, Types, BreakerInv, AbortInv, AbortStops
<1> QED BY <1>2, <1>3 DEF IInv

\* A call counts when the user has aborted; the other counts stay.
LEMMA CallKeeps ==
  ASSUME IInv, pc = "begin", NEW msgs, Call(msgs), BreakerInv'
  PROVE  IInv'
<1>1. /\ pc' = "stream" /\ late' = (IF aborted THEN late + 1 ELSE late)
      /\ UNCHANGED <<recoveries, attempted, aborted, abortedAt, modelThen, row>>
      /\ model' \in {model, 1}
  BY DEF Call, Send, signal
<1>2. RetryInv'
  BY <1>1, QueryAssumption DEF IInv, RetryInv, Types, Places, CutsCounted,
     OverflowsCounted, RowIsOfCall
<1>3. AbortInv'
  <2>1. /\ late \in Nat /\ model' \in 1..Models /\ aborted \in BOOLEAN
        /\ Models \in Nat \ {0}
    BY <1>1, QueryAssumption DEF IInv, RetryInv, Types
  <2>2. CASE ~aborted
    BY <1>1, <2>1, <2>2 DEF IInv, AbortInv, AbortStops
  <2>3. CASE aborted
    <3>1. late' = 1 /\ abortedAt' \in {"begin", "stop"}
      BY <1>1, <2>3 DEF IInv, AbortInv
    <3> QED BY <1>1, <2>1, <2>3, <3>1 DEF AbortInv, AbortStops
  <2> QED BY <2>2, <2>3
<1> QED BY <1>2, <1>3 DEF IInv

LEMMA TopKeeps ==
  ASSUME IInv, Compacted \/ CompactionFailed \/ NotCompacted
  PROVE  IInv'
<1>1. pc = "begin" /\ \E msgs : Call(msgs)
  BY DEF Compacted, CompactionFailed, NotCompacted
<1>2. BreakerInv'
  <2>1. CASE Compacted
    BY <2>1, QueryAssumption DEF Compacted, BreakerInv
  <2>2. CASE CompactionFailed
    BY <2>2, QueryAssumption DEF CompactionFailed, MayCompact, IInv, BreakerInv
  <2>3. CASE NotCompacted
    BY <2>3 DEF NotCompacted, IInv, BreakerInv
  <2> QED BY <2>1, <2>2, <2>3
<1> QED BY <1>1, <1>2, CallKeeps

\* Within the stream only messages change.
LEMMA StreamKeeps ==
  ASSUME IInv, pc = "stream",
         UNCHANGED <<pc, recoveries, attempted, failures, aborted, abortedAt, modelThen, model, late, doomed,
                     row>>
  PROVE  IInv'
<1>1. RetryInv'
  BY DEF IInv, RetryInv, Types, CutsCounted, OverflowsCounted, RowIsOfCall
<1>2. BreakerInv' /\ AbortInv'
  BY DEF IInv, BreakerInv, AbortInv, AbortStops
<1> QED BY <1>1, <1>2 DEF IInv

LEMMA Streaming ==
  ASSUME IInv,
         (\E kind \in Kinds, width \in AnswerWidths : Receive(kind, width))
         \/ FallBack
  PROVE  IInv'
BY StreamKeeps DEF Receive, FallBack, state, signal, history

\* The next model is called, aborted or not.
LEMMA NextModelKeeps ==
  ASSUME IInv, NextModel
  PROVE  IInv'
<1>1. /\ pc = "stream" /\ pc' = pc
      /\ model < Models /\ model' = model + 1
      /\ late' = (IF aborted THEN late + 1 ELSE late)
      /\ UNCHANGED <<recoveries, attempted, failures, aborted, abortedAt, modelThen,
                     doomed, row>>
  BY DEF NextModel, Send, state, signal
<1>2. RetryInv'
  BY <1>1, QueryAssumption DEF IInv, RetryInv, Types, CutsCounted, OverflowsCounted,
     RowIsOfCall
<1>3. BreakerInv'
  BY <1>1 DEF IInv, BreakerInv
<1>4. AbortInv'
  BY <1>1, QueryAssumption DEF IInv, RetryInv, Types, AbortInv, AbortStops
<1> QED BY <1>2, <1>3, <1>4 DEF IInv

\* The end of the stream adds its call to the row.
LEMMA StreamEndsKeeps ==
  ASSUME IInv, StreamEnds
  PROVE  IInv'
<1> DEFINE kind == IF blocks # <<>> THEN "none"
                   ELSE IF CutShort THEN "cut"
                   ELSE IF LastIs({"overflow"}) THEN "overflow" ELSE "none"
<1>1. /\ pc = "stream" /\ pc' = "sampled"
      /\ row' = [kind |-> kind, length |-> IF row.kind = kind THEN row.length + 1 ELSE 1]
      /\ UNCHANGED <<recoveries, attempted, failures, aborted, abortedAt, modelThen, model, late, doomed,
                     assistant, blocks>>
  BY DEF StreamEnds, stream, state, signal
<1>2. kind \in {"none", "cut", "overflow"}
  OBVIOUS
<1>3. RowIsOfCall'
  <2>1. CutShort' = CutShort /\ LastIs({"overflow"})' = LastIs({"overflow"})
    BY <1>1 DEF CutShort, LastIs
  <2>2. row'.kind = kind
    BY <1>1
  <2> QED BY <1>1, <2>1, <2>2, KindsExclude DEF RowIsOfCall
<1> HIDE DEF kind
<1>4. row' \in [kind : {"none", "cut", "overflow"}, length : Nat]
  BY <1>1, <1>2 DEF IInv, RetryInv, Types
<1>5. /\ row'.kind = kind
      /\ row'.length = (IF row.kind = kind THEN row.length + 1 ELSE 1)
  BY <1>1
<1>6. Types' /\ CutsCounted' /\ OverflowsCounted'
  BY <1>1, <1>4, <1>5 DEF IInv, RetryInv, Types, Places, CutsCounted, OverflowsCounted
<1>7. BreakerInv' /\ AbortInv'
  BY <1>1 DEF IInv, BreakerInv, AbortInv, AbortStops
<1> QED BY <1>3, <1>6, <1>7 DEF IInv, RetryInv

-----------------------------------------------------------------------------
(* The ways to go on *)

\* A call that is neither cut nor too large leaves the row alone.
LEMMA SettleKeeps ==
  ASSUME IInv, Settle \/ UseTools \/ HookBlocks \/ \E i \in DOMAIN blocks : RunTool(i)
  PROVE  IInv'
<1>1. /\ pc \in {"sampled", "tools", "stop"}
      /\ pc' = "stop" \/ pc' = "tools"
      /\ pc = "sampled" => ~aborted
      /\ pc \in {"tools", "stop"} => pc' = pc
      /\ pc = "sampled" /\ pc' = "tools" => blocks # <<>>
      /\ UNCHANGED <<recoveries, attempted, failures, aborted, abortedAt, modelThen, model, late, doomed, row>>
  BY DEF Settle, NoRetry, NoTools, UseTools, HookBlocks, RunTool, SeesAbort, state, signal,
     history
<1>2. RetryInv'
  BY <1>1 DEF IInv, RetryInv, Types, Places, CutsCounted, OverflowsCounted, RowIsOfCall
<1>3. BreakerInv' /\ AbortInv'
  BY <1>1 DEF IInv, BreakerInv, AbortInv, AbortStops
<1> QED BY <1>2, <1>3 DEF IInv

\* To go on from here with another call.
LEMMA AgainKeeps ==
  ASSUME IInv, NEW msgs, Again(msgs), ~aborted \/ pc = "stop",
         recoveries' \in Nat, recoveries' <= RecoveryLimit, attempted' \in BOOLEAN,
         row' \in [kind : {"none", "cut", "overflow"}, length : Nat],
         row'.kind = "cut" => row'.length <= recoveries',
         row'.kind = "overflow" => row'.length <= 1 /\ attempted',
         BreakerInv'
  PROVE  IInv'
<1>1. pc' = "begin" /\ UNCHANGED <<aborted, abortedAt, modelThen, late, model>>
  BY DEF Again, signal
<1>2. RetryInv'
  BY <1>1 DEF IInv, RetryInv, Types, Places, CutsCounted, OverflowsCounted, RowIsOfCall
<1>3. AbortInv'
  BY <1>1 DEF IInv, AbortInv, AbortStops
<1> QED BY <1>2, <1>3 DEF IInv

LEMMA ContinueKeeps ==
  ASSUME IInv, Continue
  PROVE  IInv'
<1>1. /\ ~aborted /\ row.kind = "cut" /\ row' = row
      /\ recoveries < RecoveryLimit /\ recoveries' = recoveries + 1 /\ attempted' = FALSE
      /\ failures' = failures /\ doomed' = doomed
  BY DEF Continue, NoTools, SeesAbort, MayContinue, IInv, RetryInv, RowIsOfCall
<1>2. row.length <= recoveries'
  BY <1>1 DEF IInv, RetryInv, CutsCounted
<1>3. BreakerInv'
  BY <1>1 DEF IInv, BreakerInv
<1>4. /\ recoveries' \in Nat /\ recoveries' <= RecoveryLimit
      /\ row' \in [kind : {"none", "cut", "overflow"}, length : Nat]
  BY <1>1, QueryAssumption DEF IInv, RetryInv, Types
<1> QED BY <1>1, <1>2, <1>3, <1>4, AgainKeeps DEF Continue

LEMMA ReactKeeps ==
  ASSUME IInv, React
  PROVE  IInv'
<1>1. /\ ~aborted /\ row.kind = "overflow" /\ row' = row /\ ~attempted
      /\ recoveries' = 0 /\ attempted' = TRUE /\ failures' = 0 /\ doomed' = 0
  BY DEF React, NoTools, SeesAbort, MayReact, IInv, RetryInv, RowIsOfCall
<1>2. /\ row'.kind = "overflow" /\ row'.length <= 1
      /\ row' \in [kind : {"none", "cut", "overflow"}, length : Nat]
  BY <1>1 DEF IInv, RetryInv, Types, OverflowsCounted
<1>3. BreakerInv'
  BY <1>1, QueryAssumption DEF BreakerInv
<1>4. 0 <= RecoveryLimit
  BY QueryAssumption
<1> QED BY <1>1, <1>2, <1>3, <1>4, AgainKeeps DEF React

LEMMA HeedKeeps ==
  ASSUME IInv, Heed
  PROVE  IInv'
<1>1. BreakerInv'
  BY DEF Heed, IInv, BreakerInv
<1>2. 0 <= RecoveryLimit
  BY QueryAssumption
<1> QED BY <1>1, <1>2, AgainKeeps DEF Heed

LEMMA NextTurnKeeps ==
  ASSUME IInv, NextTurn
  PROVE  IInv'
<1>1. /\ ~aborted /\ row.kind = "none" /\ row' = row
      /\ recoveries' = 0 /\ attempted' = FALSE
      /\ failures' = failures /\ doomed' = doomed
  BY DEF NextTurn, ToolsDone, MustStop, IInv, RetryInv, RowIsOfCall
<1>2. BreakerInv'
  BY <1>1 DEF IInv, BreakerInv
<1>3. 0 <= RecoveryLimit
  BY QueryAssumption
<1>4. row'.kind = "none" /\ row' \in [kind : {"none", "cut", "overflow"}, length : Nat]
  BY <1>1 DEF IInv, RetryInv, Types
<1>5. Again(request \o assistant \o results)
  BY DEF NextTurn
<1> QED BY <1>1, <1>2, <1>3, <1>4, <1>5, AgainKeeps

LEMMA StepInv == IInv /\ [Next]_vars => IInv'
<1> SUFFICES ASSUME IInv, [Next]_vars PROVE IInv'
  OBVIOUS
<1>1. CASE UNCHANGED vars
  <2>1. UNCHANGED <<pc, recoveries, attempted, failures, aborted, abortedAt, modelThen, model, late, doomed,
                    row, assistant, blocks>>
    BY <1>1 DEF vars, state, signal, history, stream
  <2>2. RetryInv'
    BY <2>1 DEF IInv, RetryInv, Types, CutsCounted, OverflowsCounted, RowIsOfCall,
       CutShort, LastIs
  <2>3. BreakerInv' /\ AbortInv'
    BY <2>1 DEF IInv, BreakerInv, AbortInv, AbortStops
  <2> QED BY <2>2, <2>3 DEF IInv
<1>2. CASE Blocked \/ ModelError \/ ImageError \/ AbortedStreaming \/ Declined
           \/ Failed \/ HooksEnd \/ StopAfterTools
  BY <1>2, Returns
<1>3. CASE Compacted \/ CompactionFailed \/ NotCompacted
  BY <1>3, TopKeeps
<1>4. CASE (\E kind \in Kinds, width \in AnswerWidths : Receive(kind, width))
           \/ FallBack \/ NextModel
  BY <1>4, Streaming, NextModelKeeps
<1>5. CASE Settle \/ UseTools \/ HookBlocks \/ \E i \in DOMAIN blocks : RunTool(i)
  BY <1>5, SettleKeeps
<1>6. CASE Abort \/ StreamEnds
  BY <1>6, AbortKeeps, StreamEndsKeeps
<1>7. CASE Continue \/ React \/ Heed \/ NextTurn
  BY <1>7, ContinueKeeps, ReactKeeps, HeedKeeps, NextTurnKeeps
<1> QED BY <1>1, <1>2, <1>3, <1>4, <1>5, <1>6, <1>7 DEF Next, Done

LEMMA Invariant == Spec => []IInv
BY InitInv, StepInv, PTL DEF Spec

\* A request that is too large is tried twice and an answer that is cut short
\* RecoveryLimit times more (the transitions of queryLoop), whatever happens in
\* the calls before.
THEOREM RetriesAreBounded == Spec => []RetriesBounded
<1>1. IInv => RetriesBounded
  BY QueryAssumption DEF IInv, RetryInv, Types, CutsCounted, OverflowsCounted, RetriesBounded
<1> QED BY <1>1, Invariant, PTL

\* The count of failed compactions survives every way the loop is continued, so
\* its breaker trips (autoCompactIfNeeded).
THEOREM BreakerAlwaysHolds == Spec => []BreakerHolds
<1>1. IInv => BreakerHolds
  BY DEF IInv, BreakerInv, BreakerHolds
<1> QED BY <1>1, Invariant, PTL

\* After an abort no round of the loop calls the model, but for the one call of
\* an abort between the last look at the signal and the call; a call that fails
\* goes on to the models that are left, once to each.
THEOREM AbortAlwaysStops == Spec => []AbortStops
<1>1. IInv => AbortStops
  BY DEF IInv, AbortInv
<1> QED BY <1>1, Invariant, PTL

-----------------------------------------------------------------------------
(* Messages, and which uses of a sequence of them wait for a result.       *)

Use == Nat \X Nat
Ask == [kind : {"answer", "partial", "truncated", "overflow", "error"},
        n : Nat, width : Nat]
ResultMsg == {Result(u) : u \in Use}
Msg == Ask \cup ResultMsg \cup {Boundary}

\* A result comes after its use, and only once.
Coherent(s) ==
    /\ \A j \in DOMAIN s : s[j].kind = "result" =>
           \E i \in DOMAIN s : i < j /\ s[j].use \in Range(Uses(s[i]))
    /\ \A i, j \in DOMAIN s :
           s[i].kind = "result" /\ s[j].kind = "result" /\ s[i].use = s[j].use => i = j

Pending(s) == {u \in UsesOf(s) : ~AnsweredIn(s, u)}

\* Whatever asks for nothing.
Idle(s) == \A i \in DOMAIN s : Range(Uses(s[i])) = {}

LEMMA MessageIs ==
  ASSUME NEW m \in Msg
  PROVE  /\ m.kind = "result" => m.use \in Use /\ Range(Uses(m)) = {}
         /\ m.kind # "answer" => Range(Uses(m)) = {}
         /\ \A u \in Range(Uses(m)) : u \in Use /\ u[1] = m.n /\ m \in Ask
<1>1. CASE m.kind = "answer"
  <2>1. m \in Ask
    BY <1>1 DEF Msg, ResultMsg, Result, Boundary
  <2>2. Uses(m) = [k \in 1..m.width |-> <<m.n, k>>] /\ m.n \in Nat /\ m.width \in Nat
    BY <1>1, <2>1 DEF Uses, Ask
  <2>3. \A u \in Range(Uses(m)) : \E k \in 1..m.width : u = <<m.n, k>>
    BY <2>2 DEF Range
  <2>4. \A u \in Range(Uses(m)) : u \in Use /\ u[1] = m.n
    BY <2>2, <2>3 DEF Use
  <2> QED BY <1>1, <2>1, <2>4
<1>2. CASE m.kind # "answer"
  <2>1. Range(Uses(m)) = {}
    BY <1>2 DEF Uses, Range
  <2>2. m.kind = "result" => m.use \in Use
    BY DEF Msg, Ask, ResultMsg, Result, Boundary
  <2> QED BY <1>2, <2>1, <2>2
<1> QED BY <1>1, <1>2

LEMMA AskIs == ASSUME NEW m \in Ask PROVE m \in Msg /\ m.kind # "result"
BY DEF Ask, Msg

LEMMA ResultIs ==
  ASSUME NEW u \in Use
  PROVE  /\ Result(u) \in Msg /\ Result(u).kind = "result" /\ Result(u).use = u
         /\ Range(Uses(Result(u))) = {}
<1>1. Result(u) \in Msg /\ Result(u).kind = "result" /\ Result(u).use = u
  BY DEF Result, Msg, ResultMsg
<1> QED BY <1>1, MessageIs

LEMMA SpecialIs ==
  /\ Boundary \in Msg /\ Boundary.kind # "result" /\ Range(Uses(Boundary)) = {}
  /\ Error \in Ask /\ Error.kind = "error" /\ Range(Uses(Error)) = {}
<1>1. Boundary \in Msg /\ Boundary.kind # "result" /\ Boundary.kind # "answer"
  BY DEF Boundary, Msg
<1>2. Error \in Ask /\ Error.kind = "error"
  BY DEF Error, Message, Ask
<1> QED BY <1>1, <1>2, MessageIs, AskIs

LEMMA UsesAt ==
  ASSUME NEW s, NEW u
  PROVE  /\ u \in UsesOf(s) <=> \E i \in DOMAIN s : u \in Range(Uses(s[i]))
         /\ AnsweredIn(s, u) <=> \E i \in DOMAIN s : s[i].kind = "result" /\ s[i].use = u
BY DEF UsesOf, AnsweredIn, IsResultOf

LEMMA IdleUses == ASSUME NEW s, Idle(s) PROVE UsesOf(s) = {}
BY UsesAt DEF Idle

\* What is answered was asked.
LEMMA AnsweredAsked ==
  ASSUME NEW s, Coherent(s), NEW u, AnsweredIn(s, u)
  PROVE  u \in UsesOf(s)
BY UsesAt DEF Coherent

\* A coherent sequence with nothing pending is one that the API takes.
LEMMA CoherentPaired ==
  ASSUME NEW s \in Seq(Msg), Coherent(s), Pending(s) = {}
  PROVE  Paired(s)
<1>1. ASSUME NEW i \in DOMAIN s, NEW k \in DOMAIN Uses(s[i])
      PROVE  \E j \in DOMAIN s : \A l \in DOMAIN s : IsResultOf(s[l], Uses(s[i])[k]) <=> l = j
  <2> DEFINE u == Uses(s[i])[k]
  <2>1. u \in Range(Uses(s[i]))
    BY DEF Range
  <2>2. AnsweredIn(s, u)
    BY <2>1, UsesAt DEF Pending
  <2>3. PICK j \in DOMAIN s : s[j].kind = "result" /\ s[j].use = u
    BY <2>2, UsesAt
  <2> HIDE DEF u
  <2>4. \A l \in DOMAIN s : IsResultOf(s[l], u) <=> l = j
    BY <2>3 DEF Coherent, IsResultOf
  <2> QED BY <2>4 DEF u
<1>2. ASSUME NEW j \in DOMAIN s, s[j].kind = "result"
      PROVE  \E i \in 1..(j - 1) : s[j].use \in Range(Uses(s[i]))
  <2>1. PICK i \in DOMAIN s : i < j /\ s[j].use \in Range(Uses(s[i]))
    BY <1>2 DEF Coherent
  <2>2. i \in 1..(j - 1)
    BY <2>1
  <2> QED BY <2>1, <2>2
<1> QED BY <1>1, <1>2 DEF Paired

LEMMA JoinedAt ==
  ASSUME NEW S, NEW s \in Seq(S), NEW r \in Seq(S)
  PROVE  /\ s \o r \in Seq(S)
         /\ \A i \in DOMAIN s : i \in DOMAIN (s \o r) /\ (s \o r)[i] = s[i]
         /\ \A j \in DOMAIN r : Len(s) + j \in DOMAIN (s \o r) /\ (s \o r)[Len(s) + j] = r[j]
         /\ \A i \in DOMAIN (s \o r) : i \in DOMAIN s \/ \E j \in DOMAIN r : i = Len(s) + j
         /\ \A i \in DOMAIN s, j \in DOMAIN r : i < Len(s) + j
<1> DEFINE w == s \o r
<1>1. /\ w \in Seq(S) /\ DOMAIN w = 1 .. Len(s) + Len(r)
      /\ DOMAIN s = 1 .. Len(s) /\ DOMAIN r = 1 .. Len(r)
      /\ Len(s) \in Nat /\ Len(r) \in Nat
  OBVIOUS
<1>2. \A i \in DOMAIN w : w[i] = IF i <= Len(s) THEN s[i] ELSE r[i - Len(s)]
  BY <1>1
<1> HIDE DEF w
<1>3. \A i \in DOMAIN s : i \in DOMAIN w /\ w[i] = s[i]
  BY <1>1, <1>2
<1>4. ASSUME NEW j \in DOMAIN r PROVE Len(s) + j \in DOMAIN w /\ w[Len(s) + j] = r[j]
  <2>1. Len(s) + j \in DOMAIN w /\ ~(Len(s) + j <= Len(s)) /\ (Len(s) + j) - Len(s) = j
    BY <1>1
  <2> QED BY <1>2, <2>1
<1>5. ASSUME NEW i \in DOMAIN w, i \notin DOMAIN s PROVE \E j \in DOMAIN r : i = Len(s) + j
  <2>1. i - Len(s) \in DOMAIN r /\ i = Len(s) + (i - Len(s))
    BY <1>1, <1>5
  <2> QED BY <2>1
<1>6. \A i \in DOMAIN s, j \in DOMAIN r : i < Len(s) + j
  BY <1>1
<1> QED BY <1>1, <1>3, <1>4, <1>5, <1>6 DEF w

LEMMA UsesJoined ==
  ASSUME NEW s \in Seq(Msg), NEW r \in Seq(Msg)
  PROVE  /\ UsesOf(s \o r) = UsesOf(s) \cup UsesOf(r)
         /\ \A u : AnsweredIn(s \o r, u) <=> AnsweredIn(s, u) \/ AnsweredIn(r, u)
<1> DEFINE w == s \o r
<1>1. /\ \A i \in DOMAIN s : i \in DOMAIN w /\ w[i] = s[i]
      /\ \A j \in DOMAIN r : Len(s) + j \in DOMAIN w /\ w[Len(s) + j] = r[j]
      /\ \A i \in DOMAIN w : i \in DOMAIN s \/ \E j \in DOMAIN r : i = Len(s) + j
  BY JoinedAt
<1> HIDE DEF w
<1>2. ASSUME NEW u PROVE u \in UsesOf(w) <=> u \in UsesOf(s) \/ u \in UsesOf(r)
  <2>1. u \in UsesOf(w) => u \in UsesOf(s) \/ u \in UsesOf(r)
    BY <1>1, UsesAt
  <2>2. u \in UsesOf(s) \/ u \in UsesOf(r) => u \in UsesOf(w)
    BY <1>1, UsesAt
  <2> QED BY <2>1, <2>2
<1>3. ASSUME NEW u PROVE AnsweredIn(w, u) <=> AnsweredIn(s, u) \/ AnsweredIn(r, u)
  <2>1. AnsweredIn(w, u) => AnsweredIn(s, u) \/ AnsweredIn(r, u)
    BY <1>1, UsesAt
  <2>2. AnsweredIn(s, u) \/ AnsweredIn(r, u) => AnsweredIn(w, u)
    BY <1>1, UsesAt
  <2> QED BY <2>1, <2>2
<1> QED BY <1>2, <1>3 DEF w

\* New messages, with results of pending uses only and with uses of their own.
LEMMA Joined ==
  ASSUME NEW s \in Seq(Msg), NEW r \in Seq(Msg), Coherent(s),
         UsesOf(r) \cap UsesOf(s) = {},
         \A i, j \in DOMAIN r :
            r[i].kind = "result" /\ r[j].kind = "result" /\ r[i].use = r[j].use => i = j,
         \A u : AnsweredIn(r, u) => u \in Pending(s)
  PROVE  /\ s \o r \in Seq(Msg) /\ Coherent(s \o r)
         /\ Pending(s \o r) = {u \in Pending(s) : ~AnsweredIn(r, u)} \cup UsesOf(r)
<1> DEFINE w == s \o r
<1>1. /\ w \in Seq(Msg)
      /\ \A i \in DOMAIN s : i \in DOMAIN w /\ w[i] = s[i]
      /\ \A j \in DOMAIN r : Len(s) + j \in DOMAIN w /\ w[Len(s) + j] = r[j]
      /\ \A i \in DOMAIN w : i \in DOMAIN s \/ \E j \in DOMAIN r : i = Len(s) + j
      /\ \A i \in DOMAIN s, j \in DOMAIN r : i < Len(s) + j
  BY JoinedAt
<1>2. /\ UsesOf(w) = UsesOf(s) \cup UsesOf(r)
      /\ \A u : AnsweredIn(w, u) <=> AnsweredIn(s, u) \/ AnsweredIn(r, u)
  BY UsesJoined
<1> HIDE DEF w
<1>3. ASSUME NEW j \in DOMAIN w, w[j].kind = "result"
      PROVE  \E i \in DOMAIN w : i < j /\ w[j].use \in Range(Uses(w[i]))
  <2>1. CASE j \in DOMAIN s
    <3>1. PICK i \in DOMAIN s : i < j /\ s[j].use \in Range(Uses(s[i]))
      BY <1>1, <1>3, <2>1 DEF Coherent
    <3> QED BY <1>1, <2>1, <3>1
  <2>2. CASE j \notin DOMAIN s
    <3>1. PICK k \in DOMAIN r : j = Len(s) + k
      BY <1>1, <2>2
    <3>2. w[j] = r[k] /\ AnsweredIn(r, r[k].use)
      BY <1>1, <1>3, <3>1, UsesAt
    <3>3. r[k].use \in UsesOf(s)
      BY <3>2 DEF Pending
    <3>4. PICK i \in DOMAIN s : r[k].use \in Range(Uses(s[i]))
      BY <3>3, UsesAt
    <3> QED BY <1>1, <3>1, <3>2, <3>4
  <2> QED BY <2>1, <2>2
<1>4. ASSUME NEW i \in DOMAIN w, NEW j \in DOMAIN w, w[i].kind = "result",
             w[j].kind = "result", w[i].use = w[j].use
      PROVE  i = j
  <2>1. \A k \in DOMAIN s, l \in DOMAIN r :
           s[k].kind = "result" /\ r[l].kind = "result" => s[k].use # r[l].use
    <3> SUFFICES ASSUME NEW k \in DOMAIN s, NEW l \in DOMAIN r, s[k].kind = "result",
                        r[l].kind = "result"
                 PROVE  s[k].use # r[l].use
      OBVIOUS
    <3>1. AnsweredIn(s, s[k].use) /\ AnsweredIn(r, r[l].use)
      BY UsesAt
    <3> QED BY <3>1 DEF Pending
  <2>2. CASE i \in DOMAIN s /\ j \in DOMAIN s
    BY <1>1, <1>4, <2>2 DEF Coherent
  <2>3. CASE i \notin DOMAIN s /\ j \notin DOMAIN s
    BY <1>1, <1>4, <2>3
  <2>4. CASE i \in DOMAIN s /\ j \notin DOMAIN s
    BY <1>1, <1>4, <2>1, <2>4
  <2>5. CASE i \notin DOMAIN s /\ j \in DOMAIN s
    BY <1>1, <1>4, <2>1, <2>5
  <2> QED BY <2>2, <2>3, <2>4, <2>5
<1>5. Coherent(w)
  BY <1>3, <1>4 DEF Coherent
<1>6. ASSUME NEW u \in UsesOf(r) PROVE ~AnsweredIn(s, u) /\ ~AnsweredIn(r, u)
  BY <1>6, AnsweredAsked DEF Pending
<1>7. Pending(w) = {u \in Pending(s) : ~AnsweredIn(r, u)} \cup UsesOf(r)
  BY <1>2, <1>6 DEF Pending
<1> QED BY <1>1, <1>5, <1>7 DEF w

LEMMA OneIs ==
  ASSUME NEW m \in Msg
  PROVE  /\ <<m>> \in Seq(Msg) /\ DOMAIN <<m>> = {1} /\ <<m>>[1] = m
         /\ UsesOf(<<m>>) = Range(Uses(m))
         /\ \A u : AnsweredIn(<<m>>, u) <=> m.kind = "result" /\ m.use = u
<1> DEFINE s == <<m>>
<1>1. s \in Seq(Msg) /\ DOMAIN s = {1} /\ s[1] = m
  OBVIOUS
<1> HIDE DEF s
<1>2. \A u : /\ u \in UsesOf(s) <=> u \in Range(Uses(m))
             /\ AnsweredIn(s, u) <=> m.kind = "result" /\ m.use = u
  BY <1>1, UsesAt
<1>3. UsesOf(s) = Range(Uses(m))
  BY <1>2
<1> QED BY <1>1, <1>2, <1>3 DEF s

-----------------------------------------------------------------------------
(* Selected, on any finite set of places.                                  *)

LEMMA RankOf ==
  ASSUME NEW I \in SUBSET Nat, IsFiniteSet(I)
  PROVE  /\ \A i \in I : Rank(I, i) \in 1..Cardinality(I)
         /\ \A i, j \in I : i < j => Rank(I, i) < Rank(I, j)
<1>1. ASSUME NEW i \in I
      PROVE  /\ IsFiniteSet({k \in I : k <= i})
             /\ Cardinality({k \in I : k <= i}) \in 1..Cardinality(I)
  <2> DEFINE B == {k \in I : k <= i}
  <2>1. B \in SUBSET I /\ i \in B
    OBVIOUS
  <2> HIDE DEF B
  <2>2. IsFiniteSet(B) /\ Cardinality(B) <= Cardinality(I)
    BY <2>1, FS_Subset
  <2>3. Cardinality(B) \in Nat /\ Cardinality(I) \in Nat /\ Cardinality(B) # 0
    BY <2>1, <2>2, FS_CardinalityType, FS_EmptySet
  <2>4. Cardinality(B) \in 1..Cardinality(I)
    BY <2>2, <2>3
  <2> QED BY <2>2, <2>4 DEF B
<1>2. ASSUME NEW i \in I, NEW j \in I, i < j
      PROVE  Rank(I, i) < Rank(I, j)
  <2> DEFINE A == {k \in I : k <= i}
             B == {k \in I : k <= j}
  <2>1. A \in SUBSET B /\ j \in B /\ j \notin A
    <3>1. i \in Nat /\ j \in Nat /\ \A k \in I : k \in Nat
      OBVIOUS
    <3>2. \A k \in I : k <= i => k <= j
      BY <1>2, <3>1
    <3>3. j <= j /\ ~(j <= i)
      BY <1>2, <3>1
    <3> QED BY <3>2, <3>3
  <2>2. IsFiniteSet(A) /\ IsFiniteSet(B)
    <3>1. IsFiniteSet(A)
      BY <1>1
    <3>2. IsFiniteSet(B)
      BY <1>1
    <3> QED BY <3>1, <3>2
  <2> HIDE DEF A, B
  <2>3. Cardinality(A) <= Cardinality(B) /\ Cardinality(A) # Cardinality(B)
    BY <2>1, <2>2, FS_Subset
  <2>4. Cardinality(A) < Cardinality(B)
    BY <2>2, <2>3, FS_CardinalityType
  <2> QED BY <2>4 DEF A, B, Rank
<1> QED BY <1>1, <1>2 DEF Rank

LEMMA NthOf ==
  ASSUME NEW I \in SUBSET Nat, IsFiniteSet(I)
  PROVE  /\ \A k \in 1..Cardinality(I) : Nth(I, k) \in I /\ Rank(I, Nth(I, k)) = k
         /\ \A i \in I : Rank(I, i) \in 1..Cardinality(I) /\ Nth(I, Rank(I, i)) = i
<1> DEFINE n == Cardinality(I)
           f == [i \in I |-> Rank(I, i)]
<1>0. n \in Nat
  BY FS_CardinalityType
<1>1. f \in [I -> 1..n]
  BY RankOf
<1>2. \A i, j \in I : Rank(I, i) = Rank(I, j) => i = j
  <2> SUFFICES ASSUME NEW i \in I, NEW j \in I, Rank(I, i) = Rank(I, j), i # j PROVE FALSE
    OBVIOUS
  <2>1. Rank(I, i) \in Int /\ (i < j \/ j < i)
    BY <1>0, RankOf
  <2> QED BY <2>1, RankOf
<1>3. f \in Injection(I, 1..n)
  BY <1>1, <1>2 DEF Injection, IsInjective
<1>4. IsFiniteSet(1..n) /\ Cardinality(1..n) = n
  BY <1>0, FS_Interval
<1>5. f \in Surjection(I, 1..n)
  <2> HIDE DEF f
  <2> QED BY <1>3, <1>4, FS_Injection
<1>6. ASSUME NEW k \in 1..n PROVE \E i \in I : Rank(I, i) = k
  BY <1>5, <1>6 DEF Surjection
<1>7. ASSUME NEW k \in 1..n PROVE Nth(I, k) \in I /\ Rank(I, Nth(I, k)) = k
  BY <1>6, <1>7 DEF Nth
<1>8. \A i \in I : Rank(I, i) \in 1..n
  BY RankOf
<1>9. \A i \in I : Nth(I, Rank(I, i)) = i
  BY <1>2, <1>7, <1>8
<1> QED BY <1>7, <1>8, <1>9

\* What is taken back after a fallback leaves a coherent sequence in which
\* nothing is pending.
LEMMA Retracted ==
  ASSUME NEW s \in Seq(Msg), NEW A \in SUBSET Ask, Coherent(s),
         \A u \in Pending(s) : \E m \in A : u \in Range(Uses(m)),
         \A m \in A : \A u \in Range(Uses(m)) : ~AnsweredIn(s, u),
         \A i \in DOMAIN s : \A m \in A :
             Range(Uses(s[i])) \cap Range(Uses(m)) # {} => s[i] = m
  PROVE  LET w == Selected(s, {i \in DOMAIN s : s[i] \notin A})
         IN  /\ w \in Seq(Msg) /\ Coherent(w) /\ Pending(w) = {}
             /\ \A k \in DOMAIN w : \E i \in DOMAIN s : w[k] = s[i]
<1> DEFINE I == {i \in DOMAIN s : s[i] \notin A}
           w == Selected(s, I)
<1>1. DOMAIN s = 1..Len(s) /\ Len(s) \in Nat
  OBVIOUS
<1>2. I \in SUBSET Nat /\ I \in SUBSET (DOMAIN s) /\ IsFiniteSet(I)
  <2>1. IsFiniteSet(1..Len(s))
    BY <1>1, FS_Interval
  <2> QED BY <1>1, <2>1, FS_Subset
<1>3. \A i \in DOMAIN s : i \in I <=> s[i] \notin A
  OBVIOUS
<1> HIDE DEF I
<1>4. Cardinality(I) \in Nat
  BY <1>2, FS_CardinalityType
<1>5. /\ \A k \in 1..Cardinality(I) : Nth(I, k) \in I /\ Rank(I, Nth(I, k)) = k
      /\ \A i \in I : Rank(I, i) \in 1..Cardinality(I) /\ Nth(I, Rank(I, i)) = i
  BY <1>2, NthOf
<1>6. \A k \in 1..Cardinality(I) : s[Nth(I, k)] \in Msg
  <2>1. \A i \in DOMAIN s : s[i] \in Msg
    OBVIOUS
  <2>2. \A k \in 1..Cardinality(I) : Nth(I, k) \in DOMAIN s
    BY <1>2, <1>5
  <2> QED BY <2>1, <2>2
<1>7. /\ w \in Seq(Msg) /\ DOMAIN w = 1..Cardinality(I)
      /\ \A k \in DOMAIN w : w[k] = s[Nth(I, k)]
  BY <1>4, <1>6 DEF Selected
<1> HIDE DEF w
<1>8. ASSUME NEW k \in DOMAIN w, w[k].kind = "result"
      PROVE  \E i \in DOMAIN w : i < k /\ w[k].use \in Range(Uses(w[i]))
  <2>1. Nth(I, k) \in I /\ Nth(I, k) \in DOMAIN s /\ w[k] = s[Nth(I, k)]
    BY <1>2, <1>5, <1>7
  <2>2. PICK i \in DOMAIN s : i < Nth(I, k) /\ w[k].use \in Range(Uses(s[i]))
    BY <1>8, <2>1 DEF Coherent
  <2>3. AnsweredIn(s, w[k].use)
    BY <1>8, <2>1, UsesAt
  <2>4. i \in I
    BY <1>3, <2>2, <2>3
  <2>5. Rank(I, i) \in DOMAIN w /\ Nth(I, Rank(I, i)) = i /\ Rank(I, Nth(I, k)) = k
    BY <1>5, <1>7, <2>4
  <2>6. Rank(I, i) < Rank(I, Nth(I, k))
    BY <1>2, <2>1, <2>2, <2>4, RankOf
  <2>7. w[Rank(I, i)] = s[i]
    BY <1>7, <2>5
  <2> QED BY <2>2, <2>5, <2>6, <2>7
<1>9. ASSUME NEW k \in DOMAIN w, NEW l \in DOMAIN w, w[k].kind = "result",
             w[l].kind = "result", w[k].use = w[l].use
      PROVE  k = l
  <2>1. Nth(I, k) \in DOMAIN s /\ Nth(I, l) \in DOMAIN s
    BY <1>2, <1>5, <1>7
  <2>2. Nth(I, k) = Nth(I, l)
    BY <1>7, <1>9, <2>1 DEF Coherent
  <2> QED BY <1>5, <1>7, <2>2
<1>10. Coherent(w)
  BY <1>8, <1>9 DEF Coherent
<1>11. ASSUME NEW u \in UsesOf(w) PROVE AnsweredIn(w, u)
  <2>1. PICK k \in DOMAIN w : u \in Range(Uses(w[k]))
    BY UsesAt
  <2>2. Nth(I, k) \in I /\ Nth(I, k) \in DOMAIN s /\ u \in Range(Uses(s[Nth(I, k)]))
    BY <1>2, <1>5, <1>7, <2>1
  <2>3. u \in UsesOf(s)
    BY <2>2, UsesAt
  <2>4. u \notin Pending(s)
    <3> SUFFICES ASSUME u \in Pending(s) PROVE FALSE
      OBVIOUS
    <3>1. PICK m \in A : u \in Range(Uses(m))
      OBVIOUS
    <3>2. s[Nth(I, k)] = m
      BY <2>2, <3>1
    <3> QED BY <1>3, <2>2, <3>2
  <2>5. PICK j \in DOMAIN s : s[j].kind = "result" /\ s[j].use = u
    BY <2>3, <2>4, UsesAt DEF Pending
  <2>6. j \in I
    BY <1>3, <2>5, AskIs
  <2>7. Rank(I, j) \in DOMAIN w /\ w[Rank(I, j)] = s[j]
    BY <1>5, <1>7, <2>6
  <2> QED BY <2>5, <2>7, UsesAt
<1>12. Pending(w) = {}
  BY <1>11 DEF Pending
<1>13. \A k \in DOMAIN w : \E i \in DOMAIN s : w[k] = s[i]
  BY <1>2, <1>5, <1>7
<1> QED BY <1>7, <1>10, <1>12, <1>13 DEF w, I

\* Of a finite set, each member once.
LEMMA SequenceOf ==
  ASSUME NEW S, IsFiniteSet(S)
  PROVE  /\ SetToSeq(S) \in Seq(S) /\ IsInjective(SetToSeq(S))
         /\ \A x : x \in S <=> \E i \in DOMAIN SetToSeq(S) : SetToSeq(S)[i] = x
<1> DEFINE n == Cardinality(S)
<1>1. n \in Nat /\ ExistsBijection(1..n, S)
  BY FS_CardinalityType
<1>2. \E f \in [1..n -> S] : IsInjective(f)
  BY <1>1 DEF ExistsBijection, Bijection, Injection
<1>3. SetToSeq(S) \in [1..n -> S] /\ IsInjective(SetToSeq(S))
  BY <1>2 DEF SetToSeq
<1> DEFINE f == SetToSeq(S)
<1> HIDE DEF f
<1>4. f \in Injection(1..n, S)
  BY <1>3 DEF f, Injection
<1>5. IsFiniteSet(1..n) /\ Cardinality(1..n) = Cardinality(S)
  <2> HIDE DEF n
  <2>1. IsFiniteSet(1..n) /\ Cardinality(1..n) = n
    BY <1>1, FS_Interval
  <2> QED BY <2>1 DEF n
<1>6. f \in Surjection(1..n, S)
  <2> HIDE DEF n
  <2> QED BY <1>4, <1>5, FS_Injection
<1>7. f \in Seq(S)
  BY <1>1, <1>3 DEF f
<1>8. DOMAIN f = 1..n /\ \A x \in S : \E i \in 1..n : f[i] = x
  BY <1>6 DEF Surjection
<1>9. \A i \in 1..n : f[i] \in S
  BY <1>3 DEF f
<1> QED BY <1>3, <1>7, <1>8, <1>9 DEF f

\* yieldMissingToolResultBlocks answers each use of the stream once.
LEMMA MissingIs ==
  ASSUME IsFiniteSet(UsesOf(assistant)), UsesOf(assistant) \subseteq Use
  PROVE  /\ Missing \in Seq(Msg) /\ Idle(Missing)
         /\ \A u : AnsweredIn(Missing, u) <=> u \in UsesOf(assistant)
         /\ \A i, j \in DOMAIN Missing :
               Missing[i].kind = "result" /\ Missing[j].kind = "result"
               /\ Missing[i].use = Missing[j].use => i = j
<1> DEFINE uses == SetToSeq(UsesOf(assistant))
<1>1. Missing = [i \in DOMAIN uses |-> Result(uses[i])]
  BY DEF Missing
<1>2. /\ uses \in Seq(UsesOf(assistant)) /\ IsInjective(uses)
      /\ \A x : x \in UsesOf(assistant) <=> \E i \in DOMAIN uses : uses[i] = x
  BY SequenceOf
<1> HIDE DEF uses
<1>3. /\ DOMAIN Missing = DOMAIN uses /\ DOMAIN uses = 1..Len(uses) /\ Len(uses) \in Nat
      /\ \A i \in DOMAIN Missing : Missing[i] = Result(uses[i]) /\ uses[i] \in Use
  BY <1>1, <1>2
<1>4. \A i \in DOMAIN Missing : /\ Missing[i] \in Msg /\ Missing[i].kind = "result"
                                /\ Missing[i].use = uses[i]
                                /\ Range(Uses(Missing[i])) = {}
  BY <1>3, ResultIs
<1>5. Missing = [i \in 1..Len(uses) |-> Missing[i]]
  BY <1>1, <1>3
<1>6. Missing \in Seq(Msg)
  BY <1>3, <1>4, <1>5
<1>7. \A u : AnsweredIn(Missing, u) <=> u \in UsesOf(assistant)
  BY <1>2, <1>3, <1>4, UsesAt
<1>8. ASSUME NEW i \in DOMAIN Missing, NEW j \in DOMAIN Missing,
             Missing[i].use = Missing[j].use
      PROVE  i = j
  BY <1>2, <1>3, <1>4, <1>8 DEF IsInjective
<1> QED BY <1>4, <1>6, <1>7, <1>8 DEF Idle

-----------------------------------------------------------------------------
(* Uses and results, from the stream to the next request.                  *)

Once(s) ==
    \A i, j \in DOMAIN s :
        s[i].kind = "result" /\ s[j].kind = "result" /\ s[i].use = s[j].use => i = j

\* The uses that the consumer was shown and that wait for a result.
Open == IF pc \in {"stream", "sampled", "stop", "tools"}
        THEN {u \in UsesOf(assistant) : ~AnsweredIn(results, u)} ELSE {}

Settled(s) == s \in Seq(Msg) /\ Coherent(s) /\ Pending(s) = {}

Sent == Settled(messages) /\ Settled(request)
Streamed == /\ assistant \in Seq(Ask) /\ blocks \in Seq(Use)
            /\ Range(blocks) = UsesOf(assistant)

\* A use has the number of its message, and the number is new.
Numbered ==
    /\ asked \in Nat
    /\ \A u \in UsesOf(messages) \cup UsesOf(request) \cup UsesOf(assistant)
                \cup UsesOf(shown) : u[1] <= asked
    /\ UsesOf(request) \cap UsesOf(assistant) = {}
    /\ \A i \in DOMAIN shown, j \in DOMAIN assistant :
          Range(Uses(shown[i])) \cap Range(Uses(assistant[j])) # {}
              => shown[i] = assistant[j]

ResultsMatch ==
    /\ results \in Seq(Msg) /\ Idle(results) /\ Once(results)
    /\ \A u : AnsweredIn(results, u) => u \in UsesOf(assistant)
    /\ pc \in {"stream", "sampled", "stop"} => results = <<>>
    /\ pc = "stop" => blocks = <<>>

ShownSoFar == shown \in Seq(Msg) /\ Coherent(shown) /\ Pending(shown) = Open

PInv == Sent /\ Streamed /\ Numbered /\ ResultsMatch /\ ShownSoFar

LEMMA EmptyIs ==
  /\ \A S : <<>> \in Seq(S)
  /\ Settled(<<>>) /\ Idle(<<>>) /\ Once(<<>>) /\ UsesOf(<<>>) = {} /\ Range(<<>>) = {}
  /\ \A u : ~AnsweredIn(<<>>, u)
<1>1. DOMAIN <<>> = {} /\ \A S : <<>> \in Seq(S)
  OBVIOUS
<1>2. /\ \A u : u \notin UsesOf(<<>>) /\ ~AnsweredIn(<<>>, u)
      /\ Range(<<>>) = {}
  BY <1>1, UsesAt DEF Range
<1>3. Coherent(<<>>) /\ Pending(<<>>) = {}
  BY <1>1, <1>2 DEF Coherent, Pending
<1> QED BY <1>1, <1>2, <1>3 DEF Settled, Idle, Once

\* One message that asks for nothing and is no result.
LEMMA PlainIs ==
  ASSUME NEW m \in Msg, m.kind # "result", Range(Uses(m)) = {}
  PROVE  /\ <<m>> \in Seq(Msg) /\ Idle(<<m>>) /\ Once(<<m>>)
         /\ \A u : ~AnsweredIn(<<m>>, u)
<1>1. /\ <<m>> \in Seq(Msg) /\ DOMAIN <<m>> = {1} /\ <<m>>[1] = m
      /\ \A u : AnsweredIn(<<m>>, u) <=> m.kind = "result" /\ m.use = u
  BY OneIs
<1> QED BY <1>1 DEF Idle, Once

LEMMA LastAsk ==
  ASSUME PInv, assistant # <<>>
  PROVE  Last(assistant) \in Ask /\ Last(assistant) \in Range(assistant)
<1>1. assistant \in Seq(Ask) /\ Len(assistant) \in DOMAIN assistant
  BY DEF PInv, Streamed
<1> QED BY <1>1 DEF Last, Range

LEMMA StreamedFinite ==
  ASSUME PInv
  PROVE  IsFiniteSet(UsesOf(assistant)) /\ UsesOf(assistant) \subseteq Use
<1>1. /\ blocks \in Seq(Use) /\ Range(blocks) = UsesOf(assistant)
      /\ DOMAIN blocks = 1..Len(blocks) /\ Len(blocks) \in Nat
  BY DEF PInv, Streamed
<1>2. IsFiniteSet(1..Len(blocks))
  BY <1>1, FS_Interval
<1>3. blocks \in Surjection(1..Len(blocks), Range(blocks))
  BY <1>1 DEF Surjection, Range
<1>4. Range(blocks) \subseteq Use
  BY <1>1 DEF Range
<1> QED BY <1>1, <1>2, <1>3, <1>4, FS_Surjection

LEMMA NoBlocks ==
  ASSUME PInv, blocks = <<>> \/ assistant = <<>>
  PROVE  UsesOf(assistant) = {} /\ Open = {}
<1>1. UsesOf(assistant) = {}
  BY EmptyIs DEF PInv, Streamed
<1> QED BY <1>1 DEF Open

\* The consumer is shown s: perhaps results of open uses, and no new use.
LEMMA ShowMore ==
  ASSUME PInv, NEW s \in Seq(Msg), Idle(s), Once(s), \A u : AnsweredIn(s, u) => u \in Open
  PROVE  /\ shown \o s \in Seq(Msg) /\ Coherent(shown \o s)
         /\ Pending(shown \o s) = {u \in Open : ~AnsweredIn(s, u)}
         /\ UsesOf(shown \o s) = UsesOf(shown)
         /\ \A i \in DOMAIN (shown \o s) :
               \/ Range(Uses((shown \o s)[i])) = {}
               \/ \E k \in DOMAIN shown : (shown \o s)[i] = shown[k]
<1>1. shown \in Seq(Msg) /\ Coherent(shown) /\ Pending(shown) = Open
  BY DEF PInv, ShownSoFar
<1>2. UsesOf(s) = {}
  BY IdleUses
<1>3. /\ shown \o s \in Seq(Msg) /\ Coherent(shown \o s)
      /\ Pending(shown \o s) = {u \in Pending(shown) : ~AnsweredIn(s, u)} \cup UsesOf(s)
  BY <1>1, <1>2, Joined DEF Once
<1>4. UsesOf(shown \o s) = UsesOf(shown) \cup UsesOf(s)
  BY <1>1, UsesJoined
<1>5. \A i \in DOMAIN (shown \o s) : \/ Range(Uses((shown \o s)[i])) = {}
                                     \/ \E k \in DOMAIN shown : (shown \o s)[i] = shown[k]
  <2>1. /\ \A i \in DOMAIN shown : (shown \o s)[i] = shown[i]
        /\ \A j \in DOMAIN s : (shown \o s)[Len(shown) + j] = s[j]
        /\ \A i \in DOMAIN (shown \o s) :
              i \in DOMAIN shown \/ \E j \in DOMAIN s : i = Len(shown) + j
    BY <1>1, JoinedAt
  <2> QED BY <2>1 DEF Idle
<1> QED BY <1>1, <1>2, <1>3, <1>4, <1>5

LEMMA ShowKeeps ==
  ASSUME PInv, NEW s \in Seq(Msg), Idle(s), Once(s), \A u : AnsweredIn(s, u) => u \in Open,
         shown' = shown \o s, UNCHANGED <<messages, request, assistant, blocks, asked>>,
         ResultsMatch', Open' = {u \in Open : ~AnsweredIn(s, u)}
  PROVE  PInv'
<1>1. /\ shown' \in Seq(Msg) /\ Coherent(shown') /\ Pending(shown') = Open'
      /\ UsesOf(shown') = UsesOf(shown)
      /\ \A i \in DOMAIN shown' : \/ Range(Uses(shown'[i])) = {}
                                  \/ \E k \in DOMAIN shown : shown'[i] = shown[k]
  BY ShowMore
<1>2. Numbered'
  <2>1. /\ asked' \in Nat
        /\ \A u \in UsesOf(messages) \cup UsesOf(request) \cup UsesOf(assistant)
                    \cup UsesOf(shown) : u[1] <= asked
        /\ UsesOf(request) \cap UsesOf(assistant) = {}
        /\ \A i \in DOMAIN shown, j \in DOMAIN assistant :
              Range(Uses(shown[i])) \cap Range(Uses(assistant[j])) # {}
                  => shown[i] = assistant[j]
    BY DEF PInv, Numbered
  <2>2. \A i \in DOMAIN shown', j \in DOMAIN assistant :
              Range(Uses(shown'[i])) \cap Range(Uses(assistant[j])) # {}
                  => shown'[i] = assistant[j]
    BY <1>1, <2>1
  <2> QED BY <1>1, <2>1, <2>2 DEF Numbered
<1>3. ShownSoFar'
  BY <1>1 DEF ShownSoFar
<1> QED BY <1>2, <1>3 DEF PInv, Sent, Streamed

\* The generator returns after s answered whatever was open.
LEMMA ReturnPairs ==
  ASSUME PInv, NEW s \in Seq(Msg), Idle(s), Once(s), \A u : AnsweredIn(s, u) <=> u \in Open,
         Return(s)
  PROVE  PInv'
<1>1. /\ pc' = "returned" /\ shown' = shown \o s
      /\ UNCHANGED <<messages, request, assistant, blocks, results, asked>>
  BY DEF Return, Show, local, state, stream, bounds
<1>2. ResultsMatch'
  BY <1>1 DEF PInv, ResultsMatch
<1>3. Open' = {u \in Open : ~AnsweredIn(s, u)}
  BY <1>1 DEF Open
<1> QED BY <1>1, <1>2, <1>3, ShowKeeps

\* Nothing about messages changes.
LEMMA SamePairs ==
  ASSUME PInv, UNCHANGED <<messages, request, assistant, blocks, results, asked, shown>>,
         pc' \in {"stream", "sampled", "stop"} => results = <<>>,
         pc' = "stop" => blocks = <<>>,
         pc' \in {"stream", "sampled", "stop", "tools"}
             <=> pc \in {"stream", "sampled", "stop", "tools"}
  PROVE  PInv'
<1>1. Sent' /\ Streamed' /\ Numbered' /\ ResultsMatch'
  BY DEF PInv, Sent, Streamed, Numbered, ResultsMatch
<1>2. Open' = Open
  BY DEF Open
<1>3. ShownSoFar'
  BY <1>2 DEF PInv, ShownSoFar
<1> QED BY <1>1, <1>3 DEF PInv

LEMMA QuietPairs ==
  ASSUME PInv, Abort \/ FallBack \/ StreamEnds \/ UseTools \/ HookBlocks \/ UNCHANGED vars
  PROVE  PInv'
<1>1. UNCHANGED <<messages, request, assistant, blocks, results, asked, shown>>
  BY DEF Abort, FallBack, StreamEnds, UseTools, HookBlocks, vars, stream, local, state, bounds
<1>2. \/ pc' = pc
      \/ pc = "stream" /\ pc' = "sampled"
      \/ pc = "sampled" /\ pc' = "tools"
  BY DEF Abort, FallBack, StreamEnds, UseTools, HookBlocks, vars
<1> QED BY <1>1, <1>2, SamePairs DEF PInv, ResultsMatch

-----------------------------------------------------------------------------
(* The ways to return *)

LEMMA ErrorPairs ==
  ASSUME PInv, Blocked \/ ImageError
  PROVE  PInv'
<1>1. Return(<<Error>>) /\ (pc = "begin" \/ assistant = <<>>)
  BY DEF Blocked, ImageError
<1>2. Open = {}
  BY <1>1, NoBlocks DEF Open
<1>3. /\ <<Error>> \in Seq(Msg) /\ Idle(<<Error>>) /\ Once(<<Error>>)
      /\ \A u : ~AnsweredIn(<<Error>>, u)
  BY SpecialIs, AskIs, PlainIs
<1> QED BY <1>1, <1>2, <1>3, ReturnPairs

LEMMA MissingPairs ==
  ASSUME PInv, ModelError \/ AbortedStreaming
  PROVE  PInv'
<1>1. pc \in {"stream", "sampled"}
  BY DEF ModelError, AbortedStreaming
<1>2. Open = UsesOf(assistant)
  BY <1>1, EmptyIs DEF PInv, ResultsMatch, Open
<1>3. /\ Missing \in Seq(Msg) /\ Idle(Missing) /\ Once(Missing)
      /\ \A u : AnsweredIn(Missing, u) <=> u \in UsesOf(assistant)
  BY StreamedFinite, MissingIs DEF Once
<1>4. CASE AbortedStreaming
  BY <1>2, <1>3, <1>4, ReturnPairs DEF AbortedStreaming
<1>5. CASE ModelError
  <2>1. /\ <<Error>> \in Seq(Msg) /\ Idle(<<Error>>) /\ \A u : ~AnsweredIn(<<Error>>, u)
    BY SpecialIs, AskIs, PlainIs
  <2> DEFINE s == Missing \o <<Error>>
             e == <<Error>>
  <2> HIDE DEF e
  <2>2. e \in Seq(Msg) /\ Idle(e) /\ DOMAIN e = {1} /\ e[1] = Error
        /\ \A u : ~AnsweredIn(e, u)
    BY <2>1 DEF e
  <2>3. s = Missing \o e
    BY DEF e
  <2>4. /\ s \in Seq(Msg)
        /\ \A i \in DOMAIN Missing : i \in DOMAIN s /\ s[i] = Missing[i]
        /\ \A j \in DOMAIN e : s[Len(Missing) + j] = e[j]
        /\ \A i \in DOMAIN s : i \in DOMAIN Missing \/ \E j \in DOMAIN e : i = Len(Missing) + j
    BY <1>3, <2>2, <2>3, JoinedAt
  <2>5. \A u : AnsweredIn(s, u) <=> u \in UsesOf(assistant)
    BY <1>3, <2>2, <2>3, UsesJoined
  <2> HIDE DEF s
  <2>6. Idle(s)
    BY <1>3, <2>2, <2>4 DEF Idle
  <2>7. \A i \in DOMAIN s : s[i].kind = "result" => i \in DOMAIN Missing
    BY <2>2, <2>4, SpecialIs
  <2>8. Once(s)
    BY <1>3, <2>4, <2>7 DEF Once
  <2>9. Return(s)
    BY <1>5 DEF ModelError, s
  <2> QED BY <1>2, <2>4, <2>5, <2>6, <2>8, <2>9, ReturnPairs
<1> QED BY <1>4, <1>5

\* The last message of a call that asked for nothing.
LEMMA LastPlain ==
  ASSUME PInv, NEW kinds, LastIs(kinds), "answer" \notin kinds
  PROVE  /\ <<Last(assistant)>> \in Seq(Msg) /\ Idle(<<Last(assistant)>>)
         /\ Once(<<Last(assistant)>>) /\ \A u : ~AnsweredIn(<<Last(assistant)>>, u)
<1>1. Last(assistant) \in Ask /\ Last(assistant).kind # "answer"
  BY LastAsk DEF LastIs
<1>2. Last(assistant) \in Msg /\ Last(assistant).kind # "result"
      /\ Range(Uses(Last(assistant))) = {}
  BY <1>1, AskIs, MessageIs
<1> QED BY <1>2, PlainIs

LEMMA SurfacedIs ==
  ASSUME PInv
  PROVE  /\ Surfaced \in Seq(Msg) /\ Idle(Surfaced) /\ Once(Surfaced)
         /\ \A u : ~AnsweredIn(Surfaced, u)
<1>1. CASE CutShort
  BY <1>1, LastPlain DEF CutShort, Withheld, Surfaced
<1>2. CASE ~CutShort
  BY <1>2, EmptyIs DEF Surfaced
<1> QED BY <1>1, <1>2

LEMMA EndPairs ==
  ASSUME PInv, Declined \/ Failed \/ HooksEnd \/ StopAfterTools
  PROVE  PInv'
<1>1. CASE Declined
  <2>1. Open = {} /\ Return(<<Last(assistant)>>) /\ LastIs({"overflow"})
    BY <1>1, NoBlocks DEF Declined, NoTools, MayReact
  <2> QED BY <2>1, LastPlain, ReturnPairs
<1>2. CASE Failed
  <2>1. Open = {} /\ Return(Surfaced)
    BY <1>2, NoBlocks DEF Failed, NoRetry, NoTools
  <2> QED BY <2>1, SurfacedIs, ReturnPairs
<1>3. CASE HooksEnd
  <2>1. Open = {} /\ Return(<<>>)
    BY <1>3, NoBlocks DEF HooksEnd, PInv, ResultsMatch
  <2> QED BY <2>1, EmptyIs, ReturnPairs
<1>4. CASE StopAfterTools
  <2>1. \A u \in Range(blocks) : AnsweredIn(results, u)
    BY <1>4 DEF StopAfterTools, ToolsDone, Range
  <2>2. Open = {} /\ Return(<<>>)
    BY <1>4, <2>1 DEF StopAfterTools, PInv, Streamed, Open
  <2> QED BY <2>2, EmptyIs, ReturnPairs
<1> QED BY <1>1, <1>2, <1>3, <1>4

-----------------------------------------------------------------------------
(* The ways to go on *)

LEMMA SettlePairs ==
  ASSUME PInv, Settle
  PROVE  PInv'
<1>1. /\ blocks = <<>> /\ pc = "sampled" /\ pc' = "stop" /\ shown' = shown \o Surfaced
      /\ UNCHANGED <<messages, request, assistant, blocks, results, asked>>
  BY DEF Settle, NoRetry, NoTools, Show, stream, local, state, bounds
<1>2. Open = {} /\ Open' = {}
  BY <1>1, NoBlocks DEF Open
<1>3. ResultsMatch'
  BY <1>1 DEF PInv, ResultsMatch
<1> QED BY <1>1, <1>2, <1>3, SurfacedIs, ShowKeeps

LEMMA ToolPairs ==
  ASSUME PInv, NEW k \in DOMAIN blocks, RunTool(k)
  PROVE  PInv'
<1> DEFINE u == blocks[k]
           m == Result(u)
<1>1. /\ pc = "tools" /\ pc' = pc /\ ~AnsweredIn(results, u)
      /\ results' = Append(results, m) /\ shown' = shown \o <<m>>
      /\ UNCHANGED <<messages, request, assistant, blocks, asked>>
  BY DEF RunTool, Show, stream, state, bounds
<1>2. u \in Use /\ u \in UsesOf(assistant)
  BY DEF PInv, Streamed, Range
<1> HIDE DEF u
<1>3. m \in Msg /\ m.kind = "result" /\ m.use = u /\ Range(Uses(m)) = {}
  BY <1>2, ResultIs
<1> HIDE DEF m
<1>4. /\ <<m>> \in Seq(Msg) /\ DOMAIN <<m>> = {1} /\ <<m>>[1] = m
      /\ \A v : AnsweredIn(<<m>>, v) <=> v = u
  BY <1>3, OneIs
<1> DEFINE s == <<m>>
<1> HIDE DEF s
<1>5. /\ s \in Seq(Msg) /\ DOMAIN s = {1} /\ s[1] = m /\ Idle(s) /\ Once(s)
      /\ \A v : AnsweredIn(s, v) <=> v = u
  BY <1>3, <1>4 DEF Idle, Once, s
<1>6. u \in Open
  BY <1>1, <1>2 DEF Open
<1>7. results \in Seq(Msg) /\ results' = results \o s
  BY <1>1, <1>3 DEF PInv, ResultsMatch, s
<1>8. /\ results' \in Seq(Msg)
      /\ \A i \in DOMAIN results : results'[i] = results[i]
      /\ \A j \in DOMAIN s : results'[Len(results) + j] = s[j]
      /\ \A i \in DOMAIN results' :
            i \in DOMAIN results \/ \E j \in DOMAIN s : i = Len(results) + j
      /\ \A v : AnsweredIn(results', v) <=> AnsweredIn(results, v) \/ v = u
  BY <1>5, <1>7, JoinedAt, UsesJoined
<1>9. Idle(results')
  BY <1>5, <1>8 DEF PInv, ResultsMatch, Idle
<1>10. Once(results')
  <2>1. \A i \in DOMAIN results : results[i].kind = "result" => results[i].use # u
    BY <1>1, UsesAt
  <2>2. \A i \in DOMAIN results' :
           \/ i \in DOMAIN results /\ results'[i] = results[i]
           \/ i = Len(results) + 1 /\ results'[i] = m
    BY <1>5, <1>8
  <2>3. Once(results)
    BY DEF PInv, ResultsMatch
  <2> QED BY <1>3, <2>1, <2>2, <2>3 DEF Once
<1>11. ResultsMatch'
  BY <1>1, <1>2, <1>8, <1>9, <1>10 DEF PInv, ResultsMatch
<1>12. Open' = {v \in Open : ~AnsweredIn(s, v)}
  BY <1>1, <1>5, <1>8 DEF Open
<1>13. shown' = shown \o s
  BY <1>1 DEF s
<1> QED BY <1>1, <1>5, <1>6, <1>11, <1>12, <1>13, ShowKeeps

LEMMA NextModelPairs ==
  ASSUME PInv, NextModel
  PROVE  PInv'
<1>1. /\ pc = "stream" /\ pc' = pc /\ shown' = shown \o Missing
      /\ assistant' = <<>> /\ blocks' = <<>>
      /\ UNCHANGED <<messages, request, results, asked>>
  BY DEF NextModel, Show, local, state
<1>2. results = <<>> /\ Open = UsesOf(assistant) /\ Open' = {}
  BY <1>1, EmptyIs DEF PInv, ResultsMatch, Open
<1>3. /\ Missing \in Seq(Msg) /\ Idle(Missing) /\ Once(Missing)
      /\ \A u : AnsweredIn(Missing, u) <=> u \in UsesOf(assistant)
  BY StreamedFinite, MissingIs DEF Once
<1>4. /\ shown' \in Seq(Msg) /\ Coherent(shown')
      /\ Pending(shown') = {u \in Open : ~AnsweredIn(Missing, u)}
      /\ UsesOf(shown') = UsesOf(shown)
  BY <1>1, <1>2, <1>3, ShowMore
<1>5. ShownSoFar'
  BY <1>2, <1>3, <1>4 DEF ShownSoFar
<1>6. Streamed' /\ ResultsMatch'
  BY <1>1, <1>2, EmptyIs DEF Streamed, ResultsMatch
<1>7. Numbered'
  <2>1. UsesOf(assistant') = {} /\ DOMAIN assistant' = {}
    BY <1>1, EmptyIs
  <2> QED BY <1>1, <1>4, <2>1 DEF PInv, Numbered
<1> QED BY <1>1, <1>5, <1>6, <1>7 DEF PInv, Sent

LEMMA CallPairs ==
  ASSUME PInv, NEW msgs, Settled(msgs), \A u \in UsesOf(msgs) : u[1] <= asked, Call(msgs),
         shown' \in Seq(Msg), Coherent(shown'), Pending(shown') = {},
         UsesOf(shown') = UsesOf(shown)
  PROVE  PInv'
<1>1. /\ pc' = "stream" /\ request' = msgs
      /\ assistant' = <<>> /\ results' = <<>> /\ blocks' = <<>>
      /\ UNCHANGED <<messages, asked>>
  BY DEF Call
<1>2. UsesOf(assistant') = {} /\ DOMAIN assistant' = {}
  BY <1>1, EmptyIs
<1>3. Open' = {}
  BY <1>2 DEF Open
<1>4. ShownSoFar' /\ Sent'
  BY <1>1, <1>3 DEF ShownSoFar, PInv, Sent
<1>5. Streamed' /\ ResultsMatch'
  BY <1>1, EmptyIs DEF Streamed, ResultsMatch
<1>6. Numbered'
  BY <1>1, <1>2 DEF PInv, Numbered
<1> QED BY <1>4, <1>5, <1>6 DEF PInv

LEMMA BoundaryIs ==
  /\ Settled(<<Boundary>>) /\ UsesOf(<<Boundary>>) = {}
  /\ <<Boundary>> \in Seq(Msg) /\ Idle(<<Boundary>>) /\ Once(<<Boundary>>)
  /\ \A u : ~AnsweredIn(<<Boundary>>, u)
<1>1. /\ <<Boundary>> \in Seq(Msg) /\ Idle(<<Boundary>>) /\ Once(<<Boundary>>)
      /\ \A u : ~AnsweredIn(<<Boundary>>, u)
      /\ DOMAIN <<Boundary>> = {1} /\ <<Boundary>>[1] = Boundary
  BY SpecialIs, PlainIs, OneIs
<1>2. UsesOf(<<Boundary>>) = {}
  BY <1>1, IdleUses
<1>3. Coherent(<<Boundary>>) /\ Pending(<<Boundary>>) = {}
  BY <1>1, <1>2, SpecialIs DEF Coherent, Pending
<1> QED BY <1>1, <1>2, <1>3 DEF Settled

LEMMA TopPairs ==
  ASSUME PInv, Compacted \/ CompactionFailed \/ NotCompacted
  PROVE  PInv'
<1>1. pc = "begin" /\ Open = {}
  BY DEF Compacted, CompactionFailed, NotCompacted, Open
<1>2. /\ Settled(messages) /\ \A u \in UsesOf(messages) : u[1] <= asked
      /\ shown \in Seq(Msg) /\ Coherent(shown) /\ Pending(shown) = {}
  BY <1>1 DEF PInv, Sent, Numbered, ShownSoFar
<1>3. CASE Compacted
  <2>1. shown' = shown \o <<Boundary>> /\ Call(<<Boundary>>)
    BY <1>3 DEF Compacted, Show
  <2> DEFINE b == <<Boundary>>
  <2>2. /\ b \in Seq(Msg) /\ Idle(b) /\ Once(b) /\ \A u : ~AnsweredIn(b, u)
        /\ Settled(b) /\ UsesOf(b) = {}
    BY BoundaryIs
  <2> HIDE DEF b
  <2>3. shown' = shown \o b /\ Call(b)
    BY <2>1 DEF b
  <2>4. /\ shown' \in Seq(Msg) /\ Coherent(shown') /\ Pending(shown') = {}
        /\ UsesOf(shown') = UsesOf(shown)
    BY <1>1, <2>2, <2>3, ShowMore
  <2> QED BY <2>2, <2>3, <2>4, CallPairs
<1>4. CASE CompactionFailed \/ NotCompacted
  <2>1. shown' = shown /\ Call(messages)
    BY <1>4 DEF CompactionFailed, NotCompacted
  <2> QED BY <1>2, <2>1, CallPairs
<1> QED BY <1>3, <1>4

\* The messages of the next call.
LEMMA AgainPairs ==
  ASSUME PInv, NEW msgs, Again(msgs), Open = {}, Settled(msgs),
         \A u \in UsesOf(msgs) : u[1] <= asked
  PROVE  PInv'
<1>1. /\ pc' = "begin" /\ messages' = msgs
      /\ UNCHANGED <<request, assistant, blocks, results, asked, shown>>
  BY DEF Again, stream, local, bounds
<1>2. Open' = Open
  BY <1>1 DEF Open
<1>3. Sent' /\ Streamed' /\ ResultsMatch' /\ ShownSoFar'
  BY <1>1, <1>2 DEF PInv, Sent, Streamed, ResultsMatch, ShownSoFar
<1>4. Numbered'
  BY <1>1 DEF PInv, Numbered
<1> QED BY <1>3, <1>4 DEF PInv

\* What was streamed is no result.
LEMMA AssistantIs ==
  ASSUME NEW s \in Seq(Ask)
  PROVE  s \in Seq(Msg) /\ Once(s) /\ \A u : ~AnsweredIn(s, u)
<1>1. \A i \in DOMAIN s : s[i] \in Msg /\ s[i].kind # "result"
  BY AskIs
<1>2. Ask \subseteq Msg
  BY DEF Msg
<1>3. s \in Seq(Msg)
  BY <1>2
<1> QED BY <1>1, <1>3, UsesAt DEF Once

LEMMA RequestAnswered ==
  ASSUME PInv
  PROVE  LET s == request \o assistant
         IN  /\ s \in Seq(Msg) /\ Coherent(s) /\ Pending(s) = UsesOf(assistant)
             /\ UsesOf(s) = UsesOf(request) \cup UsesOf(assistant)
<1>1. /\ request \in Seq(Msg) /\ Coherent(request) /\ Pending(request) = {}
      /\ UsesOf(request) \cap UsesOf(assistant) = {}
      /\ assistant \in Seq(Msg) /\ Once(assistant) /\ \A u : ~AnsweredIn(assistant, u)
  BY AssistantIs DEF PInv, Sent, Settled, Numbered, Streamed
<1>2. /\ request \o assistant \in Seq(Msg) /\ Coherent(request \o assistant)
      /\ Pending(request \o assistant) =
            {u \in Pending(request) : ~AnsweredIn(assistant, u)} \cup UsesOf(assistant)
  BY <1>1, Joined DEF Once
<1>3. UsesOf(request \o assistant) = UsesOf(request) \cup UsesOf(assistant)
  BY <1>1, UsesJoined
<1> QED BY <1>1, <1>2, <1>3

LEMMA GoOnPairs ==
  ASSUME PInv, Continue \/ React \/ Heed \/ NextTurn
  PROVE  PInv'
<1>1. CASE Continue \/ Heed
  <2>1. blocks = <<>> /\ Again(request \o assistant)
    BY <1>1 DEF Continue, NoTools, Heed, PInv, ResultsMatch
  <2>2. UsesOf(assistant) = {} /\ Open = {}
    BY <2>1, NoBlocks
  <2> DEFINE s == request \o assistant
  <2>3. Settled(s) /\ UsesOf(s) = UsesOf(request) /\ Again(s)
    BY <2>1, <2>2, RequestAnswered DEF Settled
  <2> HIDE DEF s
  <2>4. \A u \in UsesOf(s) : u[1] <= asked
    BY <2>3 DEF PInv, Numbered
  <2> QED BY <2>2, <2>3, <2>4, AgainPairs
<1>2. CASE React
  <2>1. blocks = <<>> /\ Again(<<Boundary>>)
    BY <1>2 DEF React, NoTools
  <2>2. Open = {}
    BY <2>1, NoBlocks
  <2> QED BY <2>1, <2>2, BoundaryIs, AgainPairs
<1>3. CASE NextTurn
  <2> DEFINE s == request \o assistant
  <2>1. /\ s \in Seq(Msg) /\ Coherent(s) /\ Pending(s) = UsesOf(assistant)
        /\ UsesOf(s) = UsesOf(request) \cup UsesOf(assistant)
    BY RequestAnswered
  <2>2. /\ results \in Seq(Msg) /\ Once(results) /\ UsesOf(results) = {}
        /\ \A u : AnsweredIn(results, u) => u \in UsesOf(assistant)
    BY IdleUses DEF PInv, ResultsMatch
  <2>3. \A u \in UsesOf(assistant) : AnsweredIn(results, u)
    BY <1>3 DEF NextTurn, ToolsDone, PInv, Streamed, Range
  <2>4. Open = {}
    BY <2>3 DEF Open
  <2>5. Again(s \o results)
    BY <1>3 DEF NextTurn
  <2> HIDE DEF s
  <2>6. /\ s \o results \in Seq(Msg) /\ Coherent(s \o results)
        /\ Pending(s \o results) =
              {u \in Pending(s) : ~AnsweredIn(results, u)} \cup UsesOf(results)
    BY <2>1, <2>2, Joined DEF Once
  <2>7. UsesOf(s \o results) = UsesOf(s)
    BY <2>1, <2>2, UsesJoined
  <2>8. Settled(s \o results)
    BY <2>1, <2>2, <2>3, <2>6 DEF Settled
  <2>9. \A u \in UsesOf(s \o results) : u[1] <= asked
    BY <2>1, <2>7 DEF PInv, Numbered
  <2> QED BY <2>4, <2>5, <2>8, <2>9, AgainPairs
<1> QED BY <1>1, <1>2, <1>3

-----------------------------------------------------------------------------
(* The stream *)

\* What is left of what was shown when a message comes.
LEMMA KeptIs ==
  ASSUME PInv, pc = "stream"
  PROVE  /\ Kept \in Seq(Ask) /\ KeptBlocks \in Seq(Use)
         /\ Range(KeptBlocks) = UsesOf(Kept)
         /\ Kept = assistant \/ Kept = <<>>
         /\ NotRetracted \in Seq(Msg) /\ Coherent(NotRetracted)
         /\ Pending(NotRetracted) = UsesOf(Kept)
         /\ \A k \in DOMAIN NotRetracted : \E i \in DOMAIN shown : NotRetracted[k] = shown[i]
<1>1. /\ shown \in Seq(Msg) /\ Coherent(shown) /\ Pending(shown) = UsesOf(assistant)
      /\ assistant \in Seq(Ask) /\ blocks \in Seq(Use) /\ Range(blocks) = UsesOf(assistant)
  BY EmptyIs DEF PInv, ResultsMatch, Open, ShownSoFar, Streamed
<1>2. CASE fallback
  <2> DEFINE A == Range(assistant)
  <2>1. A \in SUBSET Ask
    BY <1>1 DEF Range
  <2>2. \A m \in A : \E j \in DOMAIN assistant : m = assistant[j]
    BY DEF Range
  <2>3. \A j \in DOMAIN assistant : assistant[j] \in A
    BY DEF Range
  <2> HIDE DEF A
  <2>4. \A u \in Pending(shown) : \E m \in A : u \in Range(Uses(m))
    BY <1>1, <2>3, UsesAt
  <2>5. \A m \in A : \A u \in Range(Uses(m)) : u \in Pending(shown)
    BY <1>1, <2>2, UsesAt
  <2>6. \A m \in A : \A u \in Range(Uses(m)) : ~AnsweredIn(shown, u)
    BY <2>5 DEF Pending
  <2>7. \A i \in DOMAIN shown : \A m \in A :
           Range(Uses(shown[i])) \cap Range(Uses(m)) # {} => shown[i] = m
    BY <2>2 DEF PInv, Numbered
  <2> DEFINE w == Selected(shown, {i \in DOMAIN shown : shown[i] \notin A})
  <2>8. /\ w \in Seq(Msg) /\ Coherent(w) /\ Pending(w) = {}
        /\ \A k \in DOMAIN w : \E i \in DOMAIN shown : w[k] = shown[i]
    BY <1>1, <2>1, <2>4, <2>6, <2>7, Retracted
  <2>9. NotRetracted = w
    BY <1>2 DEF NotRetracted, A
  <2> HIDE DEF w
  <2>10. Kept = <<>> /\ KeptBlocks = <<>>
    BY <1>2 DEF Kept, KeptBlocks
  <2> QED BY <2>8, <2>9, <2>10, EmptyIs
<1>3. CASE ~fallback
  BY <1>1, <1>3 DEF Kept, KeptBlocks, NotRetracted
<1> QED BY <1>2, <1>3

LEMMA JoinedRange ==
  ASSUME NEW a \in Seq(Use), NEW b \in Seq(Use)
  PROVE  Range(a \o b) = Range(a) \cup Range(b)
<1> DEFINE c == a \o b
<1>1. /\ DOMAIN c = 1 .. Len(a) + Len(b) /\ Len(a) \in Nat /\ Len(b) \in Nat
      /\ DOMAIN a = 1 .. Len(a) /\ DOMAIN b = 1 .. Len(b)
      /\ \A i \in 1 .. Len(a) + Len(b) : c[i] = IF i <= Len(a) THEN a[i] ELSE b[i - Len(a)]
  OBVIOUS
<1> HIDE DEF c
<1>2. ASSUME NEW u \in Range(c) PROVE u \in Range(a) \cup Range(b)
  <2>1. PICK i \in DOMAIN c : c[i] = u
    BY DEF Range
  <2>2. CASE i <= Len(a)
    <3>1. i \in DOMAIN a /\ a[i] = u
      BY <1>1, <2>1, <2>2
    <3> QED BY <3>1 DEF Range
  <2>3. CASE ~(i <= Len(a))
    <3>1. i - Len(a) \in DOMAIN b /\ b[i - Len(a)] = u
      BY <1>1, <2>1, <2>3
    <3> QED BY <3>1 DEF Range
  <2> QED BY <2>2, <2>3
<1>3. ASSUME NEW u \in Range(a) PROVE u \in Range(c)
  <2>1. PICK i \in DOMAIN a : a[i] = u
    BY DEF Range
  <2>2. i \in DOMAIN c /\ c[i] = u
    BY <1>1, <2>1
  <2> QED BY <2>2 DEF Range
<1>4. ASSUME NEW u \in Range(b) PROVE u \in Range(c)
  <2>1. PICK i \in DOMAIN b : b[i] = u
    BY DEF Range
  <2>2. Len(a) + i \in DOMAIN c /\ c[Len(a) + i] = u
    <3>1. Len(a) + i \in 1 .. Len(a) + Len(b) /\ ~(Len(a) + i <= Len(a))
          /\ (Len(a) + i) - Len(a) = i
      BY <1>1, <2>1
    <3> QED BY <1>1, <2>1, <3>1
  <2> QED BY <2>2 DEF Range
<1> QED BY <1>2, <1>3, <1>4 DEF c

LEMMA Received ==
  ASSUME PInv, pc = "stream",
         NEW m \in Ask, NEW t \in Seq(Msg), t = <<>> \/ t = <<m>>,
         t = <<>> => Range(Uses(m)) = {},
         Uses(m) \in Seq(Use),
         asked' \in Nat, asked <= asked',
         \A u \in Range(Uses(m)) : u[1] = asked' /\ asked < asked',
         shown' = NotRetracted \o t,
         assistant' = Append(Kept, m),
         blocks' = KeptBlocks \o Uses(m),
         UNCHANGED <<pc, messages, request, results>>
  PROVE  PInv'
<1> DEFINE B == NotRetracted
           K == Kept
           one == <<m>>
<1>1. /\ K \in Seq(Ask) /\ KeptBlocks \in Seq(Use) /\ Range(KeptBlocks) = UsesOf(K)
      /\ K = assistant \/ K = <<>>
      /\ B \in Seq(Msg) /\ Coherent(B) /\ Pending(B) = UsesOf(K)
      /\ \A k \in DOMAIN B : \E i \in DOMAIN shown : B[k] = shown[i]
  BY KeptIs
<1>2. /\ m \in Msg /\ m.kind # "result" /\ one \in Seq(Msg) /\ DOMAIN one = {1} /\ one[1] = m
      /\ UsesOf(one) = Range(Uses(m)) /\ \A u : ~AnsweredIn(one, u)
  BY AskIs, OneIs
<1>3. K \in Seq(Msg) /\ results = <<>>
  BY <1>1, AssistantIs DEF PInv, ResultsMatch
<1>4. /\ shown' = B \o t /\ assistant' = K \o one /\ (t = <<>> \/ t = one)
      /\ blocks' = KeptBlocks \o Uses(m)
  BY <1>1
<1> HIDE DEF B, K, one
<1>5. UsesOf(t) = Range(Uses(m)) /\ Once(t) /\ \A u : ~AnsweredIn(t, u)
  BY <1>2, <1>4, EmptyIs DEF Once
<1>6. /\ asked \in Nat
      /\ \A u \in UsesOf(messages) \cup UsesOf(request) \cup UsesOf(assistant)
                  \cup UsesOf(shown) : u[1] <= asked
      /\ UsesOf(request) \cap UsesOf(assistant) = {}
      /\ \A i \in DOMAIN shown, j \in DOMAIN assistant :
            Range(Uses(shown[i])) \cap Range(Uses(assistant[j])) # {}
                => shown[i] = assistant[j]
  BY DEF PInv, Numbered
<1>7. UsesOf(B) \subseteq UsesOf(shown) /\ UsesOf(K) \subseteq UsesOf(assistant)
  BY <1>1, UsesAt, EmptyIs
<1>8. \A u \in Range(Uses(m)) : ~(u[1] <= asked)
  BY <1>6
<1>9. /\ UsesOf(assistant') = UsesOf(K) \cup Range(Uses(m))
      /\ UsesOf(shown') = UsesOf(B) \cup Range(Uses(m))
  BY <1>1, <1>2, <1>3, <1>4, <1>5, UsesJoined
<1>10. /\ shown' \in Seq(Msg) /\ Coherent(shown')
       /\ Pending(shown') = UsesOf(assistant')
  <2>1. UsesOf(t) \cap UsesOf(B) = {}
    BY <1>5, <1>6, <1>7, <1>8
  <2>2. /\ B \o t \in Seq(Msg) /\ Coherent(B \o t)
        /\ Pending(B \o t) = {u \in Pending(B) : ~AnsweredIn(t, u)} \cup UsesOf(t)
    BY <1>1, <1>5, <2>1, Joined DEF Once
  <2> QED BY <1>1, <1>4, <1>5, <1>9, <2>2
<1>11. ShownSoFar'
  <2>1. Open' = UsesOf(assistant')
    BY <1>3, EmptyIs DEF Open
  <2> QED BY <1>10, <2>1 DEF ShownSoFar
<1>12. Streamed'
  <2>1. assistant' \in Seq(Ask)
    BY <1>1 DEF K
  <2>2. blocks' \in Seq(Use)
    BY <1>1
  <2>3. Range(blocks') = Range(KeptBlocks) \cup Range(Uses(m))
    <3>1. Range(KeptBlocks \o Uses(m)) = Range(KeptBlocks) \cup Range(Uses(m))
      BY <1>1, JoinedRange
    <3> QED BY <1>4, <3>1
  <2> QED BY <1>1, <1>9, <2>1, <2>2, <2>3 DEF Streamed
<1>13. Numbered'
  <2>1. ASSUME NEW u \in UsesOf(messages') \cup UsesOf(request') \cup UsesOf(assistant')
                         \cup UsesOf(shown')
        PROVE  u[1] <= asked'
    <3>1. CASE u \in Range(Uses(m))
      BY <3>1
    <3>2. CASE u \notin Range(Uses(m))
      <4>1. u \in UsesOf(messages) \cup UsesOf(request) \cup UsesOf(assistant) \cup UsesOf(shown)
        BY <1>7, <1>9, <2>1, <3>2
      <4>2. u \in Use
        <5>1. ASSUME NEW s \in Seq(Msg), NEW v \in UsesOf(s) PROVE v \in Use
          <6>1. PICK i \in DOMAIN s : v \in Range(Uses(s[i]))
            BY UsesAt
          <6>2. s[i] \in Msg
            OBVIOUS
          <6> QED BY <6>1, <6>2, MessageIs
        <5>2. messages \in Seq(Msg) /\ request \in Seq(Msg) /\ shown \in Seq(Msg)
              /\ assistant \in Seq(Msg)
          BY AssistantIs DEF PInv, Sent, Settled, ShownSoFar, Streamed
        <5> QED BY <4>1, <5>1, <5>2
      <4>3. u[1] \in Nat /\ u[1] <= asked
        BY <1>6, <4>1, <4>2 DEF Use
      <4> QED BY <1>6, <4>3
    <3> QED BY <3>1, <3>2
  <2>2. UsesOf(request') \cap UsesOf(assistant') = {}
    BY <1>6, <1>7, <1>8, <1>9
  <2>3. ASSUME NEW i \in DOMAIN shown', NEW j \in DOMAIN assistant', NEW u,
               u \in Range(Uses(shown'[i])), u \in Range(Uses(assistant'[j]))
        PROVE  shown'[i] = assistant'[j]
    <3>1. shown'[i] = m \/ \E k \in DOMAIN shown : shown'[i] = shown[k]
      <4> DEFINE w == shown'
      <4>1. B \in Seq(Msg) /\ t \in Seq(Msg) /\ w = B \o t /\ i \in DOMAIN w
        BY <1>1, <1>4, <2>3
      <4> HIDE DEF w
      <4>a. /\ \A k \in DOMAIN B : (B \o t)[k] = B[k]
            /\ \A k \in DOMAIN t : (B \o t)[Len(B) + k] = t[k]
            /\ \A k \in DOMAIN (B \o t) : k \in DOMAIN B \/ \E n \in DOMAIN t : k = Len(B) + n
        <5>1. B \in Seq(Msg) /\ t \in Seq(Msg)
          BY <4>1
        <5> QED BY ONLY <5>1, JoinedAt
      <4>2. /\ \A k \in DOMAIN B : w[k] = B[k]
            /\ \A k \in DOMAIN t : w[Len(B) + k] = t[k]
            /\ i \in DOMAIN B \/ \E k \in DOMAIN t : i = Len(B) + k
        BY ONLY <4>1, <4>a, Zenon
      <4>3. /\ \A k \in DOMAIN B : shown'[k] = B[k]
            /\ \A k \in DOMAIN t : shown'[Len(B) + k] = t[k]
            /\ i \in DOMAIN B \/ \E k \in DOMAIN t : i = Len(B) + k
        BY <4>2 DEF w
      <4>4. \A k \in DOMAIN t : t[k] = m
        <5>1. <<>> = t => DOMAIN t = {}
          OBVIOUS
        <5>2. DOMAIN one = {1} /\ one[1] = m
          BY <1>2
        <5> QED BY <1>4, <5>1, <5>2
      <4> QED BY <1>1, <4>3, <4>4
    <3>2. assistant'[j] = m \/ \E k \in DOMAIN assistant : assistant'[j] = assistant[k]
      <4> DEFINE w == assistant'
      <4>0. w = K \o one /\ j \in DOMAIN w
        BY <1>4, <2>3
      <4> HIDE DEF w
      <4>a. /\ \A k \in DOMAIN K : (K \o one)[k] = K[k]
            /\ \A k \in DOMAIN one : (K \o one)[Len(K) + k] = one[k]
            /\ \A k \in DOMAIN (K \o one) :
                  k \in DOMAIN K \/ \E n \in DOMAIN one : k = Len(K) + n
        <5>1. K \in Seq(Msg) /\ one \in Seq(Msg)
          BY <1>2, <1>3
        <5> QED BY ONLY <5>1, JoinedAt
      <4>b. /\ \A k \in DOMAIN K : w[k] = K[k]
            /\ \A k \in DOMAIN one : w[Len(K) + k] = one[k]
            /\ j \in DOMAIN K \/ \E k \in DOMAIN one : j = Len(K) + k
        BY ONLY <4>0, <4>a, Zenon
      <4>1. /\ \A k \in DOMAIN K : assistant'[k] = K[k]
            /\ \A k \in DOMAIN one : assistant'[Len(K) + k] = one[k]
            /\ j \in DOMAIN K \/ \E k \in DOMAIN one : j = Len(K) + k
        BY <4>b DEF w
      <4>2. K = <<>> => DOMAIN K = {}
        OBVIOUS
      <4> QED BY <1>1, <1>2, <4>1, <4>2
    <3>3. \A k \in DOMAIN shown : u \in Range(Uses(shown[k])) => u \notin Range(Uses(m))
      BY <1>6, <1>8, UsesAt
    <3>4. \A k \in DOMAIN assistant : u \in Range(Uses(assistant[k])) => u \notin Range(Uses(m))
      BY <1>6, <1>8, UsesAt
    <3> QED BY <1>6, <2>3, <3>1, <3>2, <3>3, <3>4
  <2> QED BY <2>1, <2>2, <2>3 DEF Numbered
<1>14. ResultsMatch'
  BY <1>3, EmptyIs DEF ResultsMatch
<1>15. Sent'
  BY DEF PInv, Sent
<1> QED BY <1>11, <1>12, <1>13, <1>14, <1>15 DEF PInv

LEMMA ReceivePairs ==
  ASSUME PInv, NEW kind \in Kinds, NEW width \in AnswerWidths, Receive(kind, width)
  PROVE  PInv'
<1> DEFINE m == Message(IF width = 0 THEN 0 ELSE asked + 1, kind, width)
           t == IF kind \in Withheld THEN <<>> ELSE <<m>>
<1>1. /\ pc = "stream" /\ (kind # "answer" => width = 0)
      /\ shown' = NotRetracted \o t
      /\ assistant' = Append(Kept, m)
      /\ blocks' = KeptBlocks \o Uses(m)
      /\ asked' = IF width = 0 THEN asked ELSE asked + 1
      /\ UNCHANGED <<pc, messages, request, results>>
  BY DEF Receive, local, state
<1>2. width \in Nat /\ kind \in {"answer", "partial", "truncated", "overflow", "error"}
      /\ asked \in Nat
  BY QueryAssumption DEF AnswerWidths, Kinds, PInv, Numbered
<1>3. m \in Ask /\ m.kind = kind /\ m.width = width
      /\ m.n = (IF width = 0 THEN 0 ELSE asked + 1)
  BY <1>2 DEF Message, Ask
<1> HIDE DEF m
<1>4. Uses(m) = [k \in 1..(IF kind = "answer" THEN width ELSE 0) |-> <<m.n, k>>]
  <2>1. CASE kind = "answer"
    BY <1>3, <2>1 DEF Uses
  <2>2. CASE kind # "answer"
    <3>1. Uses(m) = <<>>
      BY <1>3, <2>2 DEF Uses
    <3>2. [k \in 1..0 |-> <<m.n, k>>] = <<>>
      OBVIOUS
    <3> QED BY <2>2, <3>1, <3>2
  <2> QED BY <2>1, <2>2
<1>5. Uses(m) \in Seq(Use)
  BY <1>2, <1>3, <1>4 DEF Use
<1>6. ASSUME NEW u \in Range(Uses(m)) PROVE width # 0 /\ u[1] = m.n
  BY <1>2, <1>4, <1>6 DEF Range
<1>7. /\ asked' \in Nat /\ asked <= asked'
      /\ \A u \in Range(Uses(m)) : u[1] = asked' /\ asked < asked'
  BY <1>1, <1>2, <1>3, <1>6
<1>8. t \in Seq(Msg) /\ (t = <<>> \/ t = <<m>>)
  BY <1>3, AskIs, OneIs, EmptyIs
<1>9. t = <<>> => Range(Uses(m)) = {}
  <2>1. kind \in Withheld => width = 0
    BY <1>1 DEF Withheld
  <2>2. <<m>> # <<>>
    OBVIOUS
  <2> QED BY <1>6, <2>1, <2>2
<1> HIDE DEF t
<1> QED BY <1>1, <1>3, <1>5, <1>7, <1>8, <1>9, Received

LEMMA PInvInit == Init => PInv
<1> SUFFICES ASSUME Init PROVE PInv
  OBVIOUS
<1>1. /\ pc = "begin" /\ messages = <<>> /\ request = <<>> /\ assistant = <<>>
      /\ results = <<>> /\ blocks = <<>> /\ shown = <<>> /\ asked = 0
  BY DEF Init
<1>2. Sent /\ Streamed /\ ResultsMatch
  BY <1>1, EmptyIs DEF Sent, Streamed, ResultsMatch
<1>3. Numbered
  BY <1>1, EmptyIs DEF Numbered
<1>4. ShownSoFar
  BY <1>1, EmptyIs DEF ShownSoFar, Settled, Open
<1> QED BY <1>2, <1>3, <1>4 DEF PInv

LEMMA PInvStep == PInv /\ [Next]_vars => PInv'
BY ErrorPairs, MissingPairs, EndPairs, QuietPairs, SettlePairs, ToolPairs, NextModelPairs,
   TopPairs, GoOnPairs, ReceivePairs DEF Next, Done

LEMMA Pairing == Spec => []PInv
BY PInvInit, PInvStep, PTL DEF Spec

\* Whatever is retried, taken back or forgotten (queryLoop), every tool use in
\* a request has exactly one result, and every result comes after its use.
THEOREM RequestsArePaired == Spec => []RequestPaired
<1>1. PInv => RequestPaired
  BY CoherentPaired DEF PInv, Sent, Settled, RequestPaired
<1> QED BY <1>1, Pairing, PTL

\* So it is in what the consumer keeps when the turn is over, however it ended.
THEOREM ShownIsPaired == Spec => []ShownPaired
<1>1. PInv => ShownPaired
  <2> SUFFICES ASSUME PInv, pc = "returned" PROVE Paired(shown)
    BY DEF ShownPaired
  <2>1. Open = {}
    BY DEF Open
  <2> QED BY <2>1, CoherentPaired DEF PInv, ShownSoFar
<1> QED BY <1>1, Pairing, PTL

-----------------------------------------------------------------------------
(* What was shown last                                                     *)

LastShown ==
    /\ pc = "tools" => blocks # <<>>
    /\ pc = "sampled" /\ ~aborted => assistant # <<>> /\ (fallback => ended)
    /\ pc \in {"stream", "sampled"} /\ assistant # <<>> /\ ~LastIs(Withheld)
            /\ (fallback => ended)
          => shown # <<>> /\ Last(shown) = Last(assistant)
    /\ pc = "stop" => shown # <<>> /\ Last(shown) \in Range(assistant)

FInv == PInv /\ LastShown /\ FailureShown

LEMMA LastOfJoined ==
  ASSUME NEW s \in Seq(Msg), NEW m \in Msg
  PROVE  s \o <<m>> # <<>> /\ Last(s \o <<m>>) = m
BY DEF Last

LEMMA LastOfAppended ==
  ASSUME NEW s \in Seq(Ask), NEW m \in Ask
  PROVE  Append(s, m) # <<>> /\ Last(Append(s, m)) = m
BY DEF Last

LEMMA NothingJoined == ASSUME NEW s \in Seq(Msg) PROVE s \o <<>> = s
OBVIOUS

\* The generator returns with an error, or after an abort, or after tools.
LEMMA ReturnShows ==
  ASSUME FInv, NEW s \in Seq(Msg), Return(s),
         \/ aborted
         \/ blocks # <<>>
         \/ /\ shown \o s # <<>>
            /\ Last(shown \o s) \in {Error} \cup Range(assistant)
  PROVE  LastShown' /\ FailureShown'
<1>1. /\ pc' = "returned" /\ shown' = shown \o s
      /\ UNCHANGED <<assistant, blocks, aborted>>
  BY DEF Return, Show, stream, signal
<1> QED BY <1>1 DEF LastShown, FailureShown

LEMMA ErrorShows ==
  ASSUME FInv, Blocked \/ ImageError \/ ModelError
  PROVE  LastShown' /\ FailureShown'
<1>0. shown \in Seq(Msg) /\ Error \in Msg
  BY SpecialIs, AskIs DEF FInv, PInv, ShownSoFar
<1>1. CASE Blocked \/ ImageError
  <2>1. Return(<<Error>>) /\ <<Error>> \in Seq(Msg)
    BY <1>0, <1>1 DEF Blocked, ImageError
  <2> QED BY <1>0, <2>1, LastOfJoined, ReturnShows
<1>2. CASE ModelError
  <2>1. Missing \in Seq(Msg)
    BY StreamedFinite, MissingIs DEF FInv
  <2> DEFINE M == Missing
  <2>2. M \in Seq(Msg) /\ Return(M \o <<Error>>)
    BY <1>2, <2>1 DEF ModelError
  <2> HIDE DEF M
  <2>3. M \o <<Error>> \in Seq(Msg) /\ shown \o M \in Seq(Msg)
    BY <1>0, <2>2
  <2>4. shown \o (M \o <<Error>>) = (shown \o M) \o <<Error>>
    BY <1>0, <2>2
  <2>5. shown \o (M \o <<Error>>) # <<>> /\ Last(shown \o (M \o <<Error>>)) = Error
    BY <1>0, <2>3, <2>4, LastOfJoined
  <2> QED BY <2>2, <2>3, <2>5, ReturnShows
<1> QED BY <1>1, <1>2

\* After a call that was not aborted, what was withheld is surfaced.
LEMMA SurfacedShows ==
  ASSUME FInv, NoTools
  PROVE  shown \o Surfaced # <<>> /\ Last(shown \o Surfaced) \in Range(assistant)
<1>1. /\ pc = "sampled" /\ assistant # <<>> /\ (fallback => ended)
      /\ shown \in Seq(Msg)
  BY DEF FInv, LastShown, NoTools, SeesAbort, PInv, ShownSoFar
<1>2. Last(assistant) \in Msg /\ Last(assistant) \in Range(assistant)
  BY <1>1, LastAsk, AskIs DEF FInv
<1>3. CASE CutShort
  <2>1. Surfaced = <<Last(assistant)>>
    BY <1>3 DEF Surfaced
  <2> QED BY <1>1, <1>2, <2>1, LastOfJoined
<1>4. CASE ~CutShort
  <2>1. shown \o Surfaced = shown
    BY <1>1, <1>4, NothingJoined DEF Surfaced
  <2>2. shown # <<>> /\ Last(shown) = Last(assistant)
    BY <1>1, <1>4 DEF FInv, LastShown, CutShort
  <2> QED BY <1>2, <2>1, <2>2
<1> QED BY <1>3, <1>4

LEMMA EndShows ==
  ASSUME FInv, AbortedStreaming \/ Declined \/ Failed \/ HooksEnd \/ StopAfterTools
  PROVE  LastShown' /\ FailureShown'
<1>0. shown \in Seq(Msg) /\ <<>> \in Seq(Msg)
  BY EmptyIs DEF FInv, PInv, ShownSoFar
<1>1. CASE AbortedStreaming
  <2>1. Missing \in Seq(Msg)
    BY StreamedFinite, MissingIs DEF FInv
  <2> QED BY <1>1, <2>1, ReturnShows DEF AbortedStreaming, SeesAbort
<1>2. CASE Declined
  <2>1. assistant # <<>> /\ Return(<<Last(assistant)>>)
    BY <1>2 DEF Declined, MayReact, LastIs
  <2>2. Last(assistant) \in Msg /\ Last(assistant) \in Range(assistant)
    BY <2>1, LastAsk, AskIs DEF FInv
  <2> DEFINE m == Last(assistant)
  <2> HIDE DEF m
  <2>3. m \in Msg /\ m \in Range(assistant) /\ Return(<<m>>) /\ <<m>> \in Seq(Msg)
    BY <2>1, <2>2 DEF m
  <2> QED BY <1>0, <2>3, LastOfJoined, ReturnShows
<1>3. CASE Failed
  <2>1. NoTools /\ Return(Surfaced)
    BY <1>3 DEF Failed, NoRetry
  <2>2. Surfaced \in Seq(Msg)
    BY SurfacedIs DEF FInv
  <2> QED BY <2>1, <2>2, SurfacedShows, ReturnShows
<1>4. CASE HooksEnd
  <2>1. Return(<<>>) /\ shown # <<>> /\ Last(shown) \in Range(assistant)
    BY <1>4 DEF HooksEnd, FInv, LastShown
  <2>2. shown \o <<>> = shown
    BY <1>0, NothingJoined
  <2> QED BY <1>0, <2>1, <2>2, ReturnShows
<1>5. CASE StopAfterTools
  <2>1. Return(<<>>) /\ blocks # <<>>
    BY <1>5 DEF StopAfterTools, ToolsDone, FInv, LastShown
  <2> QED BY <1>0, <2>1, ReturnShows
<1> QED BY <1>1, <1>2, <1>3, <1>4, <1>5

LEMMA ReceiveShows ==
  ASSUME FInv, NEW kind \in Kinds, NEW width \in AnswerWidths, Receive(kind, width)
  PROVE  LastShown' /\ FailureShown'
<1> DEFINE m == Message(IF width = 0 THEN 0 ELSE asked + 1, kind, width)
<1>1. /\ pc = "stream" /\ pc' = "stream"
      /\ shown' = NotRetracted \o (IF kind \in Withheld THEN <<>> ELSE <<m>>)
      /\ assistant' = Append(Kept, m)
  BY DEF Receive
<1>2. m.kind = kind /\ m \in Ask
  <2>1. width \in Nat /\ kind \in {"answer", "partial", "truncated", "overflow", "error"}
        /\ asked \in Nat
    BY QueryAssumption DEF AnswerWidths, Kinds, FInv, PInv, Numbered
  <2> QED BY <2>1 DEF Message, Ask
<1> HIDE DEF m
<1>3. NotRetracted \in Seq(Msg) /\ Kept \in Seq(Ask) /\ m \in Msg
  BY <1>1, <1>2, KeptIs, AskIs DEF FInv
<1>4. assistant' # <<>> /\ Last(assistant') = m
  BY <1>1, <1>2, <1>3, LastOfAppended
<1>5. ~LastIs(Withheld)' => shown' # <<>> /\ Last(shown') = m
  <2> SUFFICES ASSUME ~LastIs(Withheld)' PROVE shown' # <<>> /\ Last(shown') = m
    OBVIOUS
  <2>1. kind \notin Withheld
    BY <1>2, <1>4 DEF LastIs
  <2>2. shown' = NotRetracted \o <<m>>
    BY <1>1, <2>1
  <2> QED BY <1>3, <2>2, LastOfJoined
<1>6. LastShown'
  BY <1>1, <1>4, <1>5 DEF LastShown
<1> QED BY <1>1, <1>6 DEF FailureShown

LEMMA OtherShows ==
  ASSUME FInv,
         \/ Abort \/ Compacted \/ CompactionFailed \/ NotCompacted \/ FallBack \/ NextModel
         \/ StreamEnds \/ UseTools \/ Continue \/ React \/ Settle \/ HookBlocks \/ Heed
         \/ (\E i \in DOMAIN blocks : RunTool(i)) \/ NextTurn \/ UNCHANGED vars
  PROVE  LastShown' /\ FailureShown'
<1>1. CASE Compacted \/ CompactionFailed \/ NotCompacted
  <2>1. pc' = "stream" /\ assistant' = <<>>
    BY <1>1 DEF Compacted, CompactionFailed, NotCompacted, Call
  <2> QED BY <2>1 DEF LastShown, FailureShown
<1>2. CASE Continue \/ React \/ Heed \/ NextTurn
  <2>1. pc' = "begin"
    BY <1>2 DEF Continue, React, Heed, NextTurn, Again
  <2> QED BY <2>1 DEF LastShown, FailureShown
<1>3. CASE NextModel
  <2>1. pc' = "stream" /\ assistant' = <<>>
    BY <1>3 DEF NextModel
  <2> QED BY <2>1 DEF LastShown, FailureShown
<1>4. CASE FallBack
  <2>1. pc' = "stream" /\ fallback' = TRUE /\ ~ended /\ ended' = ended
    BY <1>4 DEF FallBack
  <2> QED BY <2>1 DEF LastShown, FailureShown
<1>5. CASE StreamEnds
  <2>1. /\ pc = "stream" /\ pc' = "sampled"
        /\ aborted \/ (assistant # <<>> /\ (fallback => ended))
        /\ UNCHANGED <<assistant, fallback, ended, aborted, shown, blocks>>
    BY <1>5 DEF StreamEnds, stream, signal
  <2>2. LastIs(Withheld)' <=> LastIs(Withheld)
    BY <2>1 DEF LastIs
  <2> QED BY <2>1, <2>2 DEF FInv, LastShown, FailureShown
<1>6. CASE UseTools \/ \E i \in DOMAIN blocks : RunTool(i)
  <2>1. pc' = "tools" /\ blocks' # <<>>
    BY <1>6 DEF UseTools, RunTool, stream, FInv, LastShown
  <2> QED BY <2>1 DEF LastShown, FailureShown
<1>7. CASE Settle
  <2>1. pc' = "stop" /\ shown' = shown \o Surfaced /\ NoTools /\ assistant' = assistant
    BY <1>7 DEF Settle, NoRetry, Show, stream
  <2> QED BY <2>1, SurfacedShows DEF LastShown, FailureShown
<1>8. CASE HookBlocks \/ Abort \/ UNCHANGED vars
  <2>1. /\ UNCHANGED <<pc, assistant, fallback, ended, shown, blocks>>
        /\ aborted => aborted'
        /\ aborted' = aborted \/ pc # "returned"
    BY <1>8 DEF HookBlocks, Abort, vars, stream, signal
  <2>2. LastIs(Withheld)' <=> LastIs(Withheld)
    BY <2>1 DEF LastIs
  <2> QED BY <2>1, <2>2 DEF FInv, LastShown, FailureShown
<1> QED BY <1>1, <1>2, <1>3, <1>4, <1>5, <1>6, <1>7, <1>8

\* A failure is never hidden: a turn that ends without an abort and without
\* tools shows the last message of the model last, also when it was withheld
\* for a retry that did not come, or an error.
THEOREM FailuresAreShown == Spec => []FailureShown
<1>1. Init => FInv
  <2> SUFFICES ASSUME Init PROVE FInv
    OBVIOUS
  <2>1. pc = "begin"
    BY DEF Init
  <2> QED BY <2>1, PInvInit DEF FInv, LastShown, FailureShown
<1>2. FInv /\ [Next]_vars => FInv'
  <2> SUFFICES ASSUME FInv, [Next]_vars PROVE FInv'
    OBVIOUS
  <2>1. PInv'
    BY PInvStep DEF FInv
  <2>2. LastShown' /\ FailureShown'
    BY ErrorShows, EndShows, ReceiveShows, OtherShows DEF Next, Done
  <2> QED BY <2>1, <2>2 DEF FInv
<1>3. FInv => FailureShown
  BY DEF FInv
<1> QED BY <1>1, <1>2, <1>3, PTL DEF Spec
==============================================================================
