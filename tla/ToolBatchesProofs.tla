--------------------------- MODULE ToolBatchesProofs ---------------------------
(***************************************************************************)
(* For any message and any cap: the promises of all() never outgrow the    *)
(* cap, whichever generator is exchanged for the next one; the runner      *)
(* starts tools as ToolSlots allows; and the modifiers of the context come *)
(* in the order of the blocks.                                             *)
(***************************************************************************)
EXTENDS ToolBatches, FiniteSetTheorems, WellFoundedInduction, TLAPS

(* The inductive invariant counts the generators that are over and not yet *)
(* noticed too: their slot is passed on, not freed.                        *)
PromisesCapped ==
    /\ phase \in [Tool -> Phases]
    /\ Cardinality(Promises) <= Cap

-----------------------------------------------------------------------------
LEMMA ToolsAreFinite == IsFiniteSet(Tool)
  BY BatchesAssumption, FS_Interval DEF Tool

(* Sets of tools have a size, and a part is no larger than the whole.      *)
LEMMA PartIsSmaller ==
    ASSUME NEW S \in SUBSET Tool, NEW T \in SUBSET S
    PROVE  /\ Cardinality(T) \in Nat
           /\ Cardinality(S) \in Nat
           /\ Cardinality(T) <= Cardinality(S)
<1>1. IsFiniteSet(S) /\ IsFiniteSet(T)
  BY ToolsAreFinite, FS_Subset
<1> QED BY <1>1, FS_Subset, FS_CardinalityType

(* One tool more is one slot more, ...                                     *)
LEMMA OneMore ==
    ASSUME NEW S \in SUBSET Tool, NEW T \in SUBSET Tool, NEW u \in Tool,
           T \subseteq S \cup {u}, Cardinality(S) < Cap
    PROVE  Cardinality(T) <= Cap
<1>1. IsFiniteSet(S)
  BY ToolsAreFinite, FS_Subset
<1>2. S \cup {u} \in SUBSET Tool
  OBVIOUS
<1>3. Cardinality(S \cup {u}) = IF u \in S THEN Cardinality(S) ELSE Cardinality(S) + 1
  BY <1>1, FS_AddElement
<1>4. Cardinality(T) <= Cardinality(S \cup {u})
  BY <1>2, PartIsSmaller
<1>5. Cardinality(S) \in Nat /\ Cardinality(T) \in Nat /\ Cardinality(S \cup {u}) \in Nat
  BY <1>2, PartIsSmaller
<1> QED BY <1>3, <1>4, <1>5, BatchesAssumption

(* ... and one for another is none.                                        *)
LEMMA OneForAnother ==
    ASSUME NEW S \in SUBSET Tool, NEW T \in SUBSET Tool, NEW t \in S, NEW u \in Tool,
           T \subseteq (S \ {t}) \cup {u}, Cardinality(S) <= Cap
    PROVE  Cardinality(T) <= Cap
<1>1. IsFiniteSet(S)
  BY ToolsAreFinite, FS_Subset
<1>2. Cardinality(S \ {t}) = Cardinality(S) - 1
  BY <1>1, FS_RemoveElement
<1>3. Cardinality(S \ {t}) < Cap
  BY <1>2, PartIsSmaller, BatchesAssumption
<1> QED BY <1>3, OneMore

(* A step after which no tool holds a slot that did not hold one before.   *)
LEMMA NoNewPromise ==
    ASSUME PromisesCapped, phase' \in [Tool -> Phases], Promises' \subseteq Promises
    PROVE  PromisesCapped'
<1>1. Promises \in SUBSET Tool
  BY DEF Promises, In
<1> QED BY <1>1, PartIsSmaller, BatchesAssumption DEF PromisesCapped

-----------------------------------------------------------------------------
LEMMA PromisesCappedInit == Init => PromisesCapped
<1> SUFFICES ASSUME Init PROVE PromisesCapped
  OBVIOUS
<1>1. Promises = {}
  BY DEF Init, Promises, In
<1>2. Cardinality({}) = 0
  BY FS_EmptySet
<1> QED BY <1>1, <1>2, BatchesAssumption DEF Init, PromisesCapped, Phases

LEMMA PromisesCappedStep == PromisesCapped /\ [Next]_vars => PromisesCapped'
<1> SUFFICES ASSUME PromisesCapped, [Next]_vars PROVE PromisesCapped'
  OBVIOUS
<1>0. phase \in [Tool -> Phases] /\ Promises \in SUBSET Tool
  BY DEF PromisesCapped, Promises, In
<1>1. CASE BeginBatch
  <2>1. phase' = [t \in Tool |-> IF t \in Batch THEN "waiting" ELSE phase[t]]
    BY <1>1 DEF BeginBatch
  <2>2. phase' \in [Tool -> Phases] /\ Promises' \subseteq Promises
    BY <1>0, <2>1 DEF Phases, Promises, In
  <2> QED BY <2>2, NoNewPromise
<1>2. CASE StartedAll \/ EndBatch \/ UNCHANGED vars
  BY <1>0, <1>2, NoNewPromise DEF StartedAll, EndBatch, vars, Promises, In
<1>3. CASE Resume
  <2>1. phase' = [t \in Tool |-> IF phase[t] = "paused" THEN "busy" ELSE phase[t]]
    BY <1>3 DEF Resume
  <2>2. phase' \in [Tool -> Phases] /\ Promises' \subseteq Promises
    BY <1>0, <2>1 DEF Phases, Promises, In
  <2> QED BY <2>2, NoNewPromise
<1>4. ASSUME NEW t \in Tool, Update(t) \/ End(t) \/ Take(t) PROVE PromisesCapped'
  <2>1. phase[t] \in {"busy", "value", "change"}
    BY <1>4 DEF Update, End, Take
  <2>2. PICK p \in {"value", "change", "over", "busy", "paused"} :
           phase' = [phase EXCEPT ![t] = p]
    BY <1>4 DEF Update, End, Take, Become
  <2>3. phase' \in [Tool -> Phases] /\ Promises' \subseteq Promises
    BY <1>0, <2>1, <2>2 DEF Phases, Promises, In
  <2> QED BY <2>3, NoNewPromise
<1>5. ASSUME NEW t \in Tool, StartOne(t) PROVE PromisesCapped'
  <2>1. phase' = [phase EXCEPT ![t] = "busy"] /\ Cardinality(Promises) < Cap
    BY <1>5 DEF StartOne, Become, Room
  <2>2. phase' \in [Tool -> Phases] /\ Promises' \subseteq Promises \cup {t}
    BY <1>0, <2>1 DEF Phases, Promises, In
  <2>3. Promises' \in SUBSET Tool
    BY DEF Promises, In
  <2> QED BY <1>0, <2>1, <2>2, <2>3, OneMore DEF PromisesCapped
<1>6. ASSUME NEW t \in Tool, TakeEnd(t) PROVE PromisesCapped'
  <2>1. /\ t \in Promises /\ phase[t] = "over"
        /\ phase' = [u \in Tool |-> IF u = t THEN "taken"
                                   ELSE IF IsNext(u) THEN "busy" ELSE phase[u]]
    BY <1>6 DEF TakeEnd, Promises, In
  <2>2. phase' \in [Tool -> Phases]
    BY <1>0, <2>1 DEF Phases
  <2>3. Promises' \in SUBSET Tool
    BY DEF Promises, In
  <2>4. CASE \E u \in Tool : IsNext(u)
    <3>1. PICK u \in Tool : IsNext(u)
      BY <2>4
    <3>2. \A v \in Tool : IsNext(v) => v = u
      BY <3>1, BatchesAssumption DEF IsNext, In, Tool
    <3>3. Promises' \subseteq (Promises \ {t}) \cup {u}
      BY <1>0, <2>1, <3>2 DEF Promises, In
    <3> QED BY <1>0, <2>1, <2>2, <2>3, <3>3, OneForAnother DEF PromisesCapped
  <2>5. CASE ~\E u \in Tool : IsNext(u)
    <3>1. Promises' \subseteq Promises
      BY <1>0, <2>1, <2>5 DEF Promises, In
    <3> QED BY <2>2, <3>1, NoNewPromise
  <2> QED BY <2>4, <2>5
<1> QED BY <1>1, <1>2, <1>3, <1>4, <1>5, <1>6 DEF Next, ToolStep

(* No more than getMaxToolUseConcurrency() tools run at once, however many *)
(* the message has and however they and the consumer take turns.           *)
THEOREM CapHolds == Spec => []AtMostCap
<1>1. PromisesCapped => AtMostCap
  <2> SUFFICES ASSUME PromisesCapped PROVE AtMostCap
    OBVIOUS
  <2>1. Promises \in SUBSET Tool /\ In({"busy", "value", "change", "paused"}) \subseteq Promises
    BY DEF Promises, In
  <2> QED BY <2>1, PartIsSmaller, BatchesAssumption DEF PromisesCapped, AtMostCap
<1> QED BY <1>1, PromisesCappedInit, PromisesCappedStep, PTL DEF Spec

-----------------------------------------------------------------------------
(* The batches, and where each tool stands.                                *)

Loops == {"batch", "start", "race", "suspended"}

(* The tools before the batch are done, those of the batch have begun once *)
(* it runs, and those after it have not.                                   *)
Ranged ==
    \A t \in Tool :
        /\ t < first => phase[t] = "taken"
        /\ phase[t] = "off" <=> t >= first /\ ~(loop # "batch" /\ t \in Batch)

(* Whoever waits comes after everybody that was started.                   *)
InTurn ==
    \A t, u \in Tool :
        phase[t] = "waiting" /\ phase[u] \notin {"off", "waiting"} => u < t

(* The race is not lost as long as somebody waits.                         *)
Noticed == loop \in {"race", "suspended"} /\ In({"waiting"}) # {} => Promises # {}

BInv ==
    /\ PromisesCapped
    /\ safe \subseteq Tool
    /\ loop \in Loops
    /\ first \in Starts \cup {MaxTools + 1}
    /\ loop # "batch" => first \in Tool
    /\ Ranged /\ InTurn /\ Noticed

LEMMA ToolsAreNumbers ==
    /\ Tool \subseteq Nat /\ MaxTools \in Nat
    /\ \A t : t \in Tool <=> t \in Nat /\ 1 <= t /\ t <= MaxTools
BY BatchesAssumption DEF Tool

(* A batch is a single unsafe tool, or safe tools only.                    *)
LEMMA BatchIs ==
    ASSUME first \in Starts
    PROVE  /\ first \in Batch /\ Batch \subseteq Tool
           /\ \A t \in Batch : t >= first
           /\ Concurrent => Batch \subseteq safe
           /\ ~Concurrent => Batch = {first}
<1>1. first \in Tool /\ first \in Nat /\ first \in Batch /\ Batch \subseteq Tool
      /\ \A t \in Batch : t >= first
  BY ToolsAreNumbers DEF Starts, Batch
<1>2. ASSUME NEW t \in Batch, t # first
      PROVE  t \in safe /\ Concurrent
  <2>1. t \in Nat /\ t \in Tool /\ t > first
    BY <1>1, <1>2, ToolsAreNumbers
  <2>2. t \notin Starts /\ first + 1 \notin Starts
    BY <1>1, <2>1, ToolsAreNumbers DEF Batch
  <2>3. first + 1 \in Tool /\ first + 1 # 1
    BY <1>1, <2>1, ToolsAreNumbers
  <2>4. t \in safe
    BY <2>1, <2>2 DEF Starts
  <2>5. (first + 1) - 1 \in safe
    BY <2>2, <2>3 DEF Starts
  <2>6. (first + 1) - 1 = first
    BY <1>1
  <2> QED BY <2>4, <2>5, <2>6 DEF Concurrent
<1> QED BY <1>1, <1>2 DEF Concurrent

\* Only the tools of the batch that runs are neither off nor taken.
LEMMA AtWork ==
    ASSUME BInv, NEW t \in Tool, phase[t] \notin {"off", "taken"}
    PROVE  loop # "batch" /\ first \in Starts /\ t \in Batch
<1>1. first \in Nat /\ t \in Nat
  BY ToolsAreNumbers DEF BInv, Starts
<1>2. t >= first
  BY <1>1 DEF BInv, Ranged
<1>3. loop # "batch" /\ t \in Batch
  BY <1>2 DEF BInv, Ranged
<1>4. first \in Tool
  BY <1>3 DEF BInv
<1> QED BY <1>3, <1>4, ToolsAreNumbers DEF BInv

-----------------------------------------------------------------------------
(* The steps within a batch.                                               *)

\* Nobody begins or is new to wait, and the race goes on if it did.
LEMMA WithinBatch ==
    ASSUME BInv, PromisesCapped', UNCHANGED <<safe, first>>,
           loop # "batch", loop' \in Loops \ {"batch"},
           \A t \in Tool : phase'[t] = "off" <=> phase[t] = "off",
           \A t \in Tool : phase[t] = "taken" => phase'[t] = "taken",
           InTurn', Noticed'
    PROVE  BInv'
<1>1. Batch' = Batch /\ Starts' = Starts
  BY DEF Batch, Starts
<1>2. Ranged'
  BY <1>1 DEF BInv, Ranged
<1> QED BY <1>1, <1>2 DEF BInv

LEMMA SameWaiting ==
    ASSUME BInv, PromisesCapped', UNCHANGED <<safe, first>>,
           loop # "batch", loop' \in Loops \ {"batch"},
           \A t \in Tool : \/ phase'[t] = phase[t]
                           \/ phase[t] \in Phases \ {"off", "waiting", "taken"} /\
                              phase'[t] \in Phases \ {"off", "waiting"},
           loop' # "start" /\ In({"waiting"}) # {} => Promises' # {}
    PROVE  BInv'
<1>1. \A t \in Tool : /\ phase'[t] = "off" <=> phase[t] = "off"
                      /\ phase'[t] = "waiting" <=> phase[t] = "waiting"
                      /\ phase[t] = "taken" => phase'[t] = "taken"
  OBVIOUS
<1>2. InTurn'
  BY <1>1 DEF BInv, InTurn
<1>3. In({"waiting"})' = In({"waiting"})
  BY <1>1 DEF In
<1>4. Noticed'
  BY <1>3 DEF Noticed
<1> QED BY <1>1, <1>2, <1>4, WithinBatch

\* The next one is started.
LEMMA NextStarts ==
    ASSUME BInv, PromisesCapped', UNCHANGED <<safe, first>>,
           loop # "batch", loop' \in Loops \ {"batch"},
           NEW n \in Tool, IsNext(n), phase'[n] = "busy",
           \A t \in Tool : \/ t = n
                           \/ phase'[t] = phase[t]
                           \/ phase[t] = "over" /\ phase'[t] = "taken"
    PROVE  BInv'
<1>1. phase[n] = "waiting" /\ \A u \in In({"waiting"}) : n <= u
  BY DEF IsNext
<1>2. \A t \in Tool : /\ phase'[t] = "off" <=> phase[t] = "off"
                      /\ phase[t] = "taken" => phase'[t] = "taken"
  BY <1>1
<1>3. InTurn'
  <2> SUFFICES ASSUME NEW t \in Tool, NEW u \in Tool, phase'[t] = "waiting",
                      phase'[u] \notin {"off", "waiting"}
               PROVE  u < t
    BY DEF InTurn
  <2>1. phase[t] = "waiting" /\ t # n
    BY <1>1
  <2>2. CASE u = n
    BY <1>1, <2>1, <2>2, ToolsAreNumbers DEF In
  <2>3. CASE u # n
    BY <2>1, <2>3 DEF BInv, InTurn
  <2> QED BY <2>2, <2>3
<1>4. n \in Promises'
  BY DEF Promises, In
<1>5. Noticed'
  BY <1>4 DEF Noticed
<1> QED BY <1>2, <1>3, <1>5, WithinBatch

-----------------------------------------------------------------------------
(* Somebody is next if anybody waits.                                      *)

LEMMA LessIsWellFounded ==
  \E R : IsWellFoundedOn(R, Nat) /\ \A x, y \in Nat : y < x => <<y, x>> \in R
<1> DEFINE R == OpToRel(<, Nat)
<1>1. IsWellFoundedOn(R, Nat)
  BY NatLessThanWellFounded
<1>2. \A x, y \in Nat : y < x => <<y, x>> \in R
  BY Zenon DEF OpToRel
<1> HIDE DEF R
<1> QED BY <1>1, <1>2, Zenon

\* A set of natural numbers that is not empty has a smallest member.
LEMMA SmallestOf ==
  ASSUME NEW T \in SUBSET Nat, T # {}
  PROVE  \E x \in T : \A y \in T : x <= y
<1>1. PICK R : IsWellFoundedOn(R, Nat) /\ \A x, y \in Nat : y < x => <<y, x>> \in R
  BY LessIsWellFounded
<1>2. \E x \in T : \A y \in T : ~ (<<y, x>> \in R)
  BY <1>1, WFMin
<1>3. PICK x \in T : \A y \in T : ~ (<<y, x>> \in R)
  BY <1>2
<1>4. ASSUME NEW y \in T PROVE x <= y
  <2>1. ~ (y < x)
    BY <1>1, <1>3, Zenon
  <2> QED BY <2>1
<1> QED BY <1>4

LEMMA SomebodyIsNext ==
    ASSUME In({"waiting"}) # {}
    PROVE  \E n \in Tool : IsNext(n)
<1>1. In({"waiting"}) \in SUBSET Nat
  BY ToolsAreNumbers DEF In
<1>2. PICK n \in In({"waiting"}) : \A m \in In({"waiting"}) : n <= m
  BY <1>1, SmallestOf
<1> QED BY <1>2 DEF In, IsNext

LEMMA BInvInit == Init => BInv
<1> SUFFICES ASSUME Init PROVE BInv
  OBVIOUS
<1>1. PromisesCapped
  BY PromisesCappedInit
<1>2. first = 1 /\ loop = "batch" /\ phase = [t \in Tool |-> "off"] /\ safe \subseteq Tool
  BY DEF Init
<1>3. first \in Starts \cup {MaxTools + 1}
  BY <1>2, ToolsAreNumbers DEF Starts
<1>4. Ranged
  BY <1>2, ToolsAreNumbers DEF Ranged
<1>5. InTurn
  BY <1>2 DEF InTurn
<1> QED BY <1>1, <1>2, <1>3, <1>4, <1>5 DEF BInv, Noticed, Loops

LEMMA BeginBatchInv ==
    ASSUME BInv, PromisesCapped', BeginBatch
    PROVE  BInv'
<1>1. /\ loop = "batch" /\ loop' = "start" /\ first \in Tool
      /\ phase' = [t \in Tool |-> IF t \in Batch THEN "waiting" ELSE phase[t]]
      /\ UNCHANGED <<safe, first>>
  BY DEF BeginBatch, Goto
<1>2. first \in Starts /\ Batch' = Batch /\ Starts' = Starts
  BY <1>1, ToolsAreNumbers DEF BInv, Batch, Starts
<1>3. \A t \in Tool : t \in Nat /\ (t < first => t \notin Batch) /\ (t \in Batch => t >= first)
  BY <1>1, ToolsAreNumbers DEF Batch
<1>4. ASSUME NEW t \in Tool
      PROVE  (t < first <=> phase[t] = "taken") /\ (t >= first <=> phase[t] = "off")
  <2>1. (t < first => phase[t] = "taken") /\ (t >= first <=> phase[t] = "off")
    BY <1>1 DEF BInv, Ranged
  <2>2. t < first \/ t >= first
    BY <1>1, ToolsAreNumbers
  <2> QED BY <2>1, <2>2
<1>5. Ranged'
  BY <1>1, <1>2, <1>3, <1>4 DEF Ranged
<1>6. InTurn'
  <2> SUFFICES ASSUME NEW t \in Tool, NEW u \in Tool, phase'[t] = "waiting",
                      phase'[u] \notin {"off", "waiting"}
               PROVE  u < t
    BY DEF InTurn
  <2>1. t >= first /\ u < first
    BY <1>1, <1>3, <1>4
  <2> QED BY <1>1, <2>1, ToolsAreNumbers
<1> QED BY <1>1, <1>2, <1>5, <1>6 DEF BInv, Noticed, Loops

\* The batch is over once nothing is left to race.
LEMMA BatchDone ==
    ASSUME BInv, EndBatch
    PROVE  /\ first \in Starts
           /\ \A t \in Batch : phase[t] = "taken"
           /\ first' \in Starts \cup {MaxTools + 1} /\ first' > first
           /\ \A t \in Tool : t < first' <=> t < first \/ t \in Batch
<1>1. loop = "race" /\ Promises = {} /\ first \in Tool
  BY DEF EndBatch, BInv
<1>2. first \in Starts
  BY <1>1, ToolsAreNumbers DEF BInv
<1>3. In({"waiting"}) = {}
  BY <1>1 DEF BInv, Noticed
<1>4. ASSUME NEW t \in Batch PROVE phase[t] = "taken"
  <2>1. t \in Tool /\ phase[t] # "off" /\ phase[t] \in Phases
    BY <1>1, <1>2, BatchIs DEF BInv, Ranged, PromisesCapped
  <2> QED BY <1>1, <1>3, <2>1 DEF Promises, In, Phases
<1>5. PICK b \in Starts \cup {MaxTools + 1} :
         b > first /\ (\A u \in Starts : u > first => b <= u) /\ first' = b
  BY DEF EndBatch
<1>6. b \in Nat /\ first \in Nat /\ (b \in Starts \/ \A t \in Tool : t < b)
  BY <1>1, <1>5, ToolsAreNumbers DEF Starts
<1>7. ASSUME NEW t \in Tool PROVE t < b <=> t < first \/ t \in Batch
  <2>1. t \in Nat /\ \A u \in Starts : u \in Nat
    BY ToolsAreNumbers DEF Starts
  <2>2. CASE t < first
    BY <1>5, <1>6, <2>1, <2>2
  <2>3. CASE t >= first /\ t < b
    <3>1. \A u \in Starts : u <= t => u <= first
      BY <1>5, <1>6, <2>1, <2>3
    <3> QED BY <2>3, <3>1 DEF Batch
  <2>4. CASE t >= b
    <3>1. b \in Starts /\ b <= t /\ ~(b <= first)
      BY <1>5, <1>6, <2>1, <2>4
    <3>2. t \notin Batch
      BY <3>1 DEF Batch
    <3> QED BY <1>5, <1>6, <2>1, <2>4, <3>2
  <2> QED BY <1>6, <2>1, <2>2, <2>3, <2>4
<1> QED BY <1>2, <1>4, <1>5, <1>7

LEMMA EndBatchInv ==
    ASSUME BInv, PromisesCapped', EndBatch
    PROVE  BInv'
<1>1. /\ loop = "race" /\ loop' = "batch" /\ UNCHANGED <<safe, phase>>
  BY DEF EndBatch, Goto
<1>2. /\ first \in Starts /\ first \in Nat
      /\ \A t \in Batch : phase[t] = "taken"
      /\ first' \in Starts \cup {MaxTools + 1} /\ first' > first
      /\ \A t \in Tool : t < first' <=> t < first \/ t \in Batch
  BY BatchDone, ToolsAreNumbers DEF Starts
<1>3. Starts' = Starts /\ first' \in Nat
  BY <1>1, <1>2, ToolsAreNumbers DEF Starts
<1>4. \A t \in Tool : (t < first' => phase[t] = "taken") /\ (t >= first' => phase[t] = "off")
  BY <1>1, <1>2, <1>3, ToolsAreNumbers DEF BInv, Ranged
<1>5. \A t \in Tool : t < first' \/ t >= first'
  BY <1>3, ToolsAreNumbers
<1>6. Ranged'
  BY <1>1, <1>3, <1>4, <1>5, ToolsAreNumbers DEF Ranged
<1>7. InTurn'
  BY <1>1 DEF BInv, InTurn
<1> QED BY <1>1, <1>2, <1>3, <1>6, <1>7 DEF BInv, Noticed, Loops

\* What each other step does.
LEMMA ToolStepInv ==
    ASSUME BInv, PromisesCapped', NEW t \in Tool, ToolStep(t)
    PROVE  BInv'
<1>0. /\ phase \in [Tool -> Phases] /\ loop \in Loops
      /\ UNCHANGED <<safe, first>>
  BY DEF BInv, PromisesCapped, ToolStep, StartOne, Update, End, Take, TakeEnd
<1>1. CASE StartOne(t)
  <2>1. /\ loop = "start" /\ loop' = "start" /\ IsNext(t)
        /\ phase' = [phase EXCEPT ![t] = "busy"]
    BY <1>1 DEF StartOne, Become
  <2>2. phase'[t] = "busy" /\ \A u \in Tool : u = t \/ phase'[u] = phase[u]
    BY <1>0, <2>1
  <2> QED BY <1>0, <2>1, <2>2, NextStarts DEF Loops
<1>2. CASE Update(t) \/ End(t) \/ Take(t)
  <2>1. /\ phase[t] \in {"busy", "value", "change"} /\ loop # "start"
        /\ \E p \in {"value", "change", "over", "busy", "paused"} :
              phase' = [phase EXCEPT ![t] = p]
        /\ loop' \in {loop, "suspended"}
    BY <1>2 DEF Update, End, Take, Become, Goto
  <2>2. PICK p \in {"value", "change", "over", "busy", "paused"} :
           phase' = [phase EXCEPT ![t] = p]
    BY <2>1
  <2>3. /\ phase'[t] = p
        /\ \A u \in Tool : u # t => phase'[u] = phase[u]
    BY <1>0, <2>2
  <2>4. loop # "batch"
    BY <1>0, <2>1, AtWork
  <2>5. t \in Promises'
    BY <2>3 DEF Promises, In
  <2>6. \A u \in Tool : \/ phase'[u] = phase[u]
                        \/ phase[u] \in Phases \ {"off", "waiting", "taken"} /\
                           phase'[u] \in Phases \ {"off", "waiting"}
    BY <2>1, <2>3 DEF Phases
  <2> QED BY <1>0, <2>1, <2>4, <2>5, <2>6, SameWaiting DEF Loops
<1>3. CASE TakeEnd(t)
  <2>1. /\ loop = "race" /\ loop' = loop /\ phase[t] = "over"
        /\ phase' = [u \in Tool |-> IF u = t THEN "taken"
                                   ELSE IF IsNext(u) THEN "busy" ELSE phase[u]]
    BY <1>3 DEF TakeEnd
  <2>2. CASE In({"waiting"}) # {}
    <3>1. PICK n \in Tool : IsNext(n)
      BY <2>2, SomebodyIsNext
    <3>2. n # t /\ \A u \in Tool : IsNext(u) => u = n
      BY <2>1, <3>1, ToolsAreNumbers DEF IsNext, In
    <3>3. /\ phase'[n] = "busy"
          /\ \A u \in Tool : \/ u = n
                             \/ phase'[u] = phase[u]
                             \/ phase[u] = "over" /\ phase'[u] = "taken"
      BY <2>1, <3>1, <3>2
    <3> QED BY <1>0, <2>1, <3>1, <3>3, NextStarts DEF Loops
  <2>3. CASE In({"waiting"}) = {}
    <3>1. \A u \in Tool : ~IsNext(u)
      BY <2>3 DEF IsNext, In
    <3>2. \A u \in Tool : \/ phase'[u] = phase[u]
                          \/ phase[u] \in Phases \ {"off", "waiting", "taken"} /\
                             phase'[u] \in Phases \ {"off", "waiting"}
      BY <2>1, <3>1 DEF Phases
    <3> QED BY <1>0, <2>1, <2>3, <3>2, SameWaiting DEF Loops
  <2> QED BY <2>2, <2>3
<1> QED BY <1>1, <1>2, <1>3 DEF ToolStep

LEMMA LoopStepInv ==
    ASSUME BInv, PromisesCapped', StartedAll \/ Resume
    PROVE  BInv'
<1>0. /\ phase \in [Tool -> Phases] /\ loop \in Loops
      /\ UNCHANGED <<safe, first>>
  BY DEF BInv, PromisesCapped, StartedAll, Resume
<1>1. CASE StartedAll
  <2>1. /\ loop = "start" /\ loop' = "race" /\ phase' = phase
        /\ ~(Cardinality(Promises) < Cap) \/ In({"waiting"}) = {}
    BY <1>1 DEF StartedAll, Goto, Room
  <2>2. ~(Cardinality(Promises) < Cap) => Promises # {}
    BY FS_EmptySet, BatchesAssumption
  <2>3. Promises' = Promises
    BY <2>1 DEF Promises, In
  <2> QED BY <1>0, <2>1, <2>2, <2>3, SameWaiting DEF Loops
<1>2. CASE Resume
  <2>1. /\ loop = "suspended" /\ loop' = "race"
        /\ phase' = [t \in Tool |-> IF phase[t] = "paused" THEN "busy" ELSE phase[t]]
    BY <1>2 DEF Resume, Goto
  <2>2. \A u \in Tool : \/ phase'[u] = phase[u]
                        \/ phase[u] \in Phases \ {"off", "waiting", "taken"} /\
                           phase'[u] \in Phases \ {"off", "waiting"}
    BY <2>1 DEF Phases
  <2>3. Promises' = Promises
    BY <1>0, <2>1 DEF Promises, In
  <2>4. In({"waiting"}) # {} => Promises # {}
    BY <2>1 DEF BInv, Noticed
  <2> QED BY <1>0, <2>1, <2>2, <2>3, <2>4, SameWaiting DEF Loops
<1> QED BY <1>1, <1>2

LEMMA BInvNext == BInv /\ [Next]_vars => BInv'
<1> SUFFICES ASSUME BInv, [Next]_vars PROVE BInv'
  OBVIOUS
<1>1. PromisesCapped'
  BY PromisesCappedStep DEF BInv
<1>2. CASE UNCHANGED vars
  BY <1>1, <1>2 DEF vars, BInv, Ranged, InTurn, Noticed, Starts, Batch, Promises, In
<1> QED BY <1>1, <1>2, BeginBatchInv, EndBatchInv, ToolStepInv, LoopStepInv DEF Next

-----------------------------------------------------------------------------
(* The batch runner implements ToolSlots.                                  *)

Busy == {"busy", "value", "change", "paused"}
Running == {[id |-> t, safe |-> t \in safe] : t \in In(Busy)}
Begun == Tool \ In({"off", "waiting"})

\* A step of ToolSlots, or a stutter.
SlotStep ==
    \/ \E t \in Tool :
          /\ \A u \in Begun : u < t
          /\ \A u \in In(Busy) : u \in safe /\ t \in safe
          /\ In(Busy)' = In(Busy) \cup {t} /\ Begun' = Begun \cup {t}
    \/ \E t \in In(Busy) : In(Busy)' = In(Busy) \ {t} /\ Begun' = Begun
    \/ In(Busy)' = In(Busy) /\ Begun' = Begun

LEMMA SlotStepIsStep ==
    ASSUME SlotStep, safe' = safe
    PROVE  [Slots!Next]_(Slots!vars)
<1> DEFINE Entered(t) == [id |-> t, safe |-> t \in safe]
<1>0. /\ {[id |-> t, safe |-> t \in safe] : t \in In({"busy", "value", "change", "paused"})} = Running
      /\ Tool \ In({"off", "waiting"}) = Begun
      /\ {[id |-> t, safe |-> t \in safe] : t \in In({"busy", "value", "change", "paused"})}'
            = Running'
      /\ (Tool \ In({"off", "waiting"}))' = Begun'
  BY DEF Running, Begun, Busy
<1>1. CASE \E t \in Tool :
          /\ \A u \in Begun : u < t
          /\ \A u \in In(Busy) : u \in safe /\ t \in safe
          /\ In(Busy)' = In(Busy) \cup {t} /\ Begun' = Begun \cup {t}
  <2>1. PICK t \in Tool :
          /\ \A u \in Begun : u < t
          /\ \A u \in In(Busy) : u \in safe /\ t \in safe
          /\ In(Busy)' = In(Busy) \cup {t} /\ Begun' = Begun \cup {t}
    BY <1>1
  <2>2. Running' = Running \cup {Entered(t)}
    BY <2>1 DEF Running
  <2>3. \E s \in BOOLEAN : s <=> t \in safe
    BY TRUE \in BOOLEAN, FALSE \in BOOLEAN, Zenon
  <2>4. PICK b \in BOOLEAN : b <=> t \in safe
    BY <2>3, Zenon
  <2>9. \A r \in Running : r.safe /\ b
    <3> SUFFICES ASSUME NEW u \in In(Busy) PROVE [id |-> u, safe |-> u \in safe].safe /\ b
      BY Zenon DEF Running
    <3>1. u \in safe /\ b
      BY <2>1, <2>4
    <3> QED BY <3>1
  <2>5. Entered(t) = [id |-> t, safe |-> b]
    BY <2>4
  <2> HIDE DEF Entered
  <2>6. Slots!Start(t, b)
    BY <1>0, <2>1, <2>2, <2>9, <2>5 DEF Slots!Start, Slots!MayStart
  <2>7. t \in Slots!Tool
    BY DEF Slots!Tool, Tool
  <2>8. \E x \in Slots!Tool, s \in BOOLEAN : Slots!Start(x, s)
    BY <2>6, <2>7, Zenon
  <2> QED BY <2>8 DEF Slots!Next
<1>2. CASE \E t \in In(Busy) : In(Busy)' = In(Busy) \ {t} /\ Begun' = Begun
  <2>1. PICK t \in In(Busy) : In(Busy)' = In(Busy) \ {t} /\ Begun' = Begun
    BY <1>2
  <2>2. Entered(t) \in Running /\ Running' = Running \ {Entered(t)}
    BY <2>1 DEF Running
  <2> HIDE DEF Entered
  <2>3. Slots!Finish(Entered(t))
    BY <1>0, <2>1, <2>2 DEF Slots!Finish
  <2>4. Entered(t) \in {[id |-> u, safe |-> u \in safe] :
                          u \in In({"busy", "value", "change", "paused"})}
    BY <1>0, <2>2
  <2>5. PICK r \in {[id |-> u, safe |-> u \in safe] :
                      u \in In({"busy", "value", "change", "paused"})} : r = Entered(t)
    BY <2>4
  <2>6. Slots!Finish(r)
    BY <2>3, <2>5 DEF Slots!Finish
  <2> QED BY <2>5, <2>6 DEF Slots!Next
<1>3. CASE In(Busy)' = In(Busy) /\ Begun' = Begun
  <2>1. Running' = Running
    BY <1>3 DEF Running
  <2> QED BY <1>0, <1>3, <2>1 DEF Slots!vars
<1> QED BY <1>1, <1>2, <1>3 DEF SlotStep

\* Whoever is next may start: what was begun comes before it, and runs
\* beside it only if both are safe.
LEMMA NextMayStart ==
    ASSUME BInv, NEW n \in Tool, IsNext(n)
    PROVE  /\ \A u \in Begun : u < n
           /\ \A u \in In(Busy) : u \in safe /\ n \in safe
<1>1. phase[n] = "waiting" /\ phase \in [Tool -> Phases]
  BY DEF IsNext, BInv, PromisesCapped
<1>2. ASSUME NEW u \in Begun PROVE u < n
  BY <1>1, <1>2 DEF Begun, In, BInv, InTurn
<1>3. ASSUME NEW u \in In(Busy) PROVE u \in safe /\ n \in safe
  <2>1. u \in Tool /\ phase[u] \notin {"off", "waiting", "taken"}
    BY <1>3 DEF In, Busy
  <2>2. u \in Batch /\ n \in Batch /\ first \in Starts
    BY <1>1, <2>1, AtWork
  <2>3. u < n
    BY <1>2, <2>1 DEF Begun, In
  <2>4. u # n
    BY <1>1, <2>1
  <2> QED BY <2>2, <2>4, BatchIs
<1> QED BY <1>2, <1>3

LEMMA StartIsSlotStep ==
    ASSUME BInv, NEW n \in Tool, IsNext(n), phase'[n] = "busy",
           \A t \in Tool : \/ t = n
                           \/ phase'[t] = phase[t]
                           \/ phase[t] = "over" /\ phase'[t] = "taken"
    PROVE  SlotStep
<1>1. phase[n] = "waiting"
  BY DEF IsNext
<1>2. In(Busy)' = In(Busy) \cup {n} /\ Begun' = Begun \cup {n}
  BY <1>1 DEF In, Busy, Begun
<1> QED BY <1>2, NextMayStart DEF SlotStep

LEMMA NextIsSlotStep ==
    ASSUME BInv, [Next]_vars
    PROVE  SlotStep
<1>0. phase \in [Tool -> Phases]
  BY DEF BInv, PromisesCapped
<1>1. ASSUME \A t \in Tool : /\ phase'[t] \in Busy <=> phase[t] \in Busy
                             /\ phase'[t] \in {"off", "waiting"} <=>
                                  phase[t] \in {"off", "waiting"}
      PROVE  SlotStep
  BY <1>1 DEF SlotStep, In, Begun
<1>2. CASE BeginBatch
  <2>1. /\ loop = "batch" /\ first \in Tool
        /\ phase' = [t \in Tool |-> IF t \in Batch THEN "waiting" ELSE phase[t]]
    BY <1>2 DEF BeginBatch
  <2>2. \A t \in Batch : phase[t] = "off"
    BY <2>1 DEF BInv, Ranged, Batch
  <2> QED BY <1>1, <2>1, <2>2 DEF Busy
<1>3. CASE StartedAll \/ EndBatch \/ UNCHANGED vars
  BY <1>1, <1>3 DEF StartedAll, EndBatch, vars
<1>4. CASE Resume
  <2>1. phase' = [t \in Tool |-> IF phase[t] = "paused" THEN "busy" ELSE phase[t]]
    BY <1>4 DEF Resume
  <2> QED BY <1>1, <2>1 DEF Busy
<1>5. ASSUME NEW t \in Tool, StartOne(t) PROVE SlotStep
  <2>1. IsNext(t) /\ phase' = [phase EXCEPT ![t] = "busy"]
    BY <1>5 DEF StartOne, Become
  <2> QED BY <1>0, <2>1, StartIsSlotStep
<1>6. ASSUME NEW t \in Tool, Update(t) \/ Take(t) PROVE SlotStep
  <2>1. /\ phase[t] \in Busy
        /\ \E p \in Busy : phase' = [phase EXCEPT ![t] = p]
    BY <1>6 DEF Update, Take, Become, Busy
  <2> QED BY <1>0, <1>1, <2>1 DEF Busy
<1>7. ASSUME NEW t \in Tool, End(t) PROVE SlotStep
  <2>1. phase[t] = "busy" /\ phase' = [phase EXCEPT ![t] = "over"]
    BY <1>7 DEF End, Become
  <2>2. t \in In(Busy) /\ In(Busy)' = In(Busy) \ {t} /\ Begun' = Begun
    BY <1>0, <2>1 DEF In, Busy, Begun
  <2> QED BY <2>2 DEF SlotStep
<1>8. ASSUME NEW t \in Tool, TakeEnd(t) PROVE SlotStep
  <2>1. /\ phase[t] = "over"
        /\ phase' = [u \in Tool |-> IF u = t THEN "taken"
                                   ELSE IF IsNext(u) THEN "busy" ELSE phase[u]]
    BY <1>8 DEF TakeEnd
  <2>2. CASE \E n \in Tool : IsNext(n)
    <3>1. PICK n \in Tool : IsNext(n)
      BY <2>2
    <3>2. n # t /\ \A u \in Tool : IsNext(u) => u = n
      BY <2>1, <3>1, ToolsAreNumbers DEF IsNext, In
    <3>3. /\ phase'[n] = "busy"
          /\ \A u \in Tool : \/ u = n
                             \/ phase'[u] = phase[u]
                             \/ phase[u] = "over" /\ phase'[u] = "taken"
      BY <2>1, <3>1, <3>2
    <3> QED BY <3>1, <3>3, StartIsSlotStep
  <2>3. CASE ~\E n \in Tool : IsNext(n)
    BY <1>1, <2>1, <2>3 DEF Busy
  <2> QED BY <2>2, <2>3
<1> QED BY <1>2, <1>3, <1>4, <1>5, <1>6, <1>7, <1>8 DEF Next, ToolStep

(* Every step of the batch runner starts or finishes a tool as ToolSlots   *)
(* allows, or is invisible there: tools start in the order of their blocks *)
(* and an unsafe one runs alone, for any message and any cap.              *)
THEOREM BatchesImplementSlots == Spec => ImplementsSlots
<1>1. Init => Slots!Init
  <2> SUFFICES ASSUME Init PROVE Slots!Init
    OBVIOUS
  <2>1. \A t \in Tool : phase[t] = "off"
    BY DEF Init
  <2> QED BY <2>1 DEF Slots!Init, In
<1>2. BInv /\ [Next]_vars => [Slots!Next]_(Slots!vars)
  <2> SUFFICES ASSUME BInv, [Next]_vars PROVE [Slots!Next]_(Slots!vars)
    OBVIOUS
  <2>1. safe' = safe
    BY DEF Next, BeginBatch, StartedAll, Resume, EndBatch, ToolStep, StartOne, Update, End,
       Take, TakeEnd, vars
  <2> QED BY <2>1, NextIsSlotStep, SlotStepIsStep
<1> QED BY <1>1, <1>2, BInvInit, BInvNext, PTL DEF Spec, ImplementsSlots, Slots!Spec

-----------------------------------------------------------------------------
(* The order of the context.                                               *)

\* A modifier that is queued, or about to be, was reported.
Counts ==
    /\ updates \in [Tool -> 0 .. MaxUpdates] /\ queued \in [Tool -> 0 .. MaxUpdates]
    /\ \A t \in Tool : queued[t] + (IF phase[t] = "change" THEN 1 ELSE 0) <= updates[t]

Ordered(s) == \A i, j \in DOMAIN s : i < j => s[i].of <= s[j].of

(* The context is in the order of the blocks and has modifiers of the      *)
(* batches that are over, and of the serial tool that runs.                *)
ContextSoFar ==
    /\ context \in Seq(Entries) /\ Ordered(context)
    /\ \A i \in DOMAIN context :
          \/ context[i].of < first
          \/ context[i].of = first /\ loop # "batch" /\ ~Concurrent

SeenBefore ==
    /\ seen \in [Tool -> Seq(Entries)]
    /\ \A t \in Tool : \A i \in DOMAIN seen[t] :
          /\ seen[t][i].of < t
          /\ t \in safe => \E u \in Tool \ safe : seen[t][i].of <= u /\ u < t

CInv == BInv /\ Counts /\ ContextSoFar /\ SeenBefore

LEMMA CountsStep == BInv /\ Counts /\ [Next]_vars => Counts'
<1> SUFFICES ASSUME BInv, Counts, [Next]_vars PROVE Counts'
  OBVIOUS
<1>0. /\ phase \in [Tool -> Phases]
      /\ \A t \in Tool : updates[t] \in 0 .. MaxUpdates /\ queued[t] \in 0 .. MaxUpdates
      /\ MaxUpdates \in Nat
  BY BatchesAssumption DEF BInv, PromisesCapped, Counts
<1>1. ASSUME UNCHANGED <<updates, queued>>,
             \A t \in Tool : phase'[t] = "change" => phase[t] = "change"
      PROVE  Counts'
  BY <1>0, <1>1 DEF Counts
<1>2. CASE BeginBatch
  <2>1. phase' = [t \in Tool |-> IF t \in Batch THEN "waiting" ELSE phase[t]]
    BY <1>2 DEF BeginBatch
  <2> QED BY <1>1, <1>2, <2>1 DEF BeginBatch
<1>3. CASE StartedAll \/ EndBatch \/ UNCHANGED vars
  BY <1>1, <1>3 DEF StartedAll, EndBatch, vars
<1>4. CASE Resume
  <2>1. phase' = [t \in Tool |-> IF phase[t] = "paused" THEN "busy" ELSE phase[t]]
    BY <1>4 DEF Resume
  <2> QED BY <1>1, <1>4, <2>1 DEF Resume
<1>5. ASSUME NEW t \in Tool, StartOne(t) \/ End(t) PROVE Counts'
  <2>1. PICK p \in {"busy", "over"} : phase' = [phase EXCEPT ![t] = p]
    BY <1>5 DEF StartOne, End, Become
  <2>2. UNCHANGED <<updates, queued>>
    BY <1>5 DEF StartOne, End
  <2> QED BY <1>0, <1>1, <2>1, <2>2
<1>6. ASSUME NEW t \in Tool, TakeEnd(t) PROVE Counts'
  <2>1. phase' = [u \in Tool |-> IF u = t THEN "taken"
                                ELSE IF IsNext(u) THEN "busy" ELSE phase[u]]
    BY <1>6 DEF TakeEnd
  <2>2. UNCHANGED <<updates, queued>>
    BY <1>6 DEF TakeEnd
  <2> QED BY <1>1, <2>1, <2>2
<1>7. ASSUME NEW t \in Tool, Update(t) PROVE Counts'
  <2>1. /\ updates[t] < MaxUpdates /\ updates' = [updates EXCEPT ![t] = @ + 1]
        /\ queued' = queued /\ phase[t] = "busy"
    BY <1>7 DEF Update
  <2>2. PICK p \in {"value", "change"} : phase' = [phase EXCEPT ![t] = p]
    BY <1>7 DEF Update, Become
  <2>3. /\ updates'[t] = updates[t] + 1 /\ updates'[t] \in 0 .. MaxUpdates
        /\ \A u \in Tool : u # t => updates'[u] = updates[u] /\ phase'[u] = phase[u]
    BY <1>0, <2>1, <2>2 DEF Counts
  <2>4. updates' \in [Tool -> 0 .. MaxUpdates]
    BY <1>0, <2>1, <2>3 DEF Counts
  <2>5. ASSUME NEW u \in Tool
        PROVE  queued'[u] + (IF phase'[u] = "change" THEN 1 ELSE 0) <= updates'[u]
    <3>1. queued[u] + (IF phase[u] = "change" THEN 1 ELSE 0) <= updates[u]
      BY DEF Counts
    <3>2. CASE u = t
      BY <1>0, <2>1, <2>3, <3>1, <3>2
    <3>3. CASE u # t
      BY <2>1, <2>3, <3>1, <3>3
    <3> QED BY <3>2, <3>3
  <2> QED BY <2>1, <2>4, <2>5 DEF Counts
<1>8. ASSUME NEW t \in Tool, Take(t) PROVE Counts'
  <2>1. updates' = updates /\ phase[t] \in {"value", "change"}
    BY <1>8 DEF Take
  <2>2. PICK p \in {"busy", "paused"} :
           /\ phase' = [phase EXCEPT ![t] = p]
           /\ \/ queued' = [queued EXCEPT ![t] = IF phase[t] = "change" THEN @ + 1 ELSE @]
              \/ queued' = queued
    BY <1>8 DEF Take, Become
  <2>3. \A u \in Tool : queued[u] + (IF phase[u] = "change" THEN 1 ELSE 0) <= updates[u]
    BY DEF Counts
  <2>4. /\ phase'[t] # "change"
        /\ \A u \in Tool : u # t => queued'[u] = queued[u] /\ phase'[u] = phase[u]
        /\ queued'[t] \in {queued[t], queued[t] + 1}
        /\ queued'[t] = queued[t] + 1 => phase[t] = "change"
    BY <1>0, <2>2 DEF Counts
  <2>5. queued'[t] \in 0 .. MaxUpdates /\ queued'[t] <= updates[t]
    BY <1>0, <2>3, <2>4
  <2>6. queued' \in [Tool -> 0 .. MaxUpdates]
    BY <2>2, <2>5 DEF Counts
  <2>7. ASSUME NEW u \in Tool
        PROVE  queued'[u] + (IF phase'[u] = "change" THEN 1 ELSE 0) <= updates'[u]
    <3>1. CASE u = t
      BY <1>0, <2>1, <2>4, <2>5, <3>1
    <3>2. CASE u # t
      BY <2>1, <2>3, <2>4, <3>2
    <3> QED BY <3>1, <3>2
  <2> QED BY <2>1, <2>6, <2>7 DEF Counts
<1> QED BY <1>2, <1>3, <1>4, <1>5, <1>6, <1>7, <1>8 DEF Next, ToolStep

-----------------------------------------------------------------------------
(* Selected, on any finite set of places.                                  *)

LEMMA RankOf ==
  ASSUME NEW I \in SUBSET Nat, IsFiniteSet(I)
  PROVE  /\ \A i \in I : Rank(I, i) \in 1..Cardinality(I)
         /\ \A i, j \in I : i < j => Rank(I, i) < Rank(I, j)
<1>1. ASSUME NEW i \in I
      PROVE  /\ IsFiniteSet({k \in I : k <= i})
             /\ Cardinality({k \in I : k <= i}) \in 1..Cardinality(I)
  <2> DEFINE B == {k \in I : k <= i}
  <2>1. B \in SUBSET I /\ i \in B
    OBVIOUS
  <2> HIDE DEF B
  <2>2. IsFiniteSet(B) /\ Cardinality(B) <= Cardinality(I)
    BY <2>1, FS_Subset
  <2>3. Cardinality(B) \in Nat /\ Cardinality(I) \in Nat /\ Cardinality(B) # 0
    BY <2>1, <2>2, FS_CardinalityType, FS_EmptySet
  <2>4. Cardinality(B) \in 1..Cardinality(I)
    BY <2>2, <2>3
  <2> QED BY <2>2, <2>4 DEF B
<1>2. ASSUME NEW i \in I, NEW j \in I, i < j
      PROVE  Rank(I, i) < Rank(I, j)
  <2> DEFINE A == {k \in I : k <= i}
             B == {k \in I : k <= j}
  <2>1. A \in SUBSET B /\ j \in B /\ j \notin A
    <3>1. i \in Nat /\ j \in Nat /\ \A k \in I : k \in Nat
      OBVIOUS
    <3>2. \A k \in I : k <= i => k <= j
      BY <1>2, <3>1
    <3>3. j <= j /\ ~(j <= i)
      BY <1>2, <3>1
    <3> QED BY <3>2, <3>3
  <2>2. IsFiniteSet(A) /\ IsFiniteSet(B)
    <3>1. IsFiniteSet(A)
      BY <1>1
    <3>2. IsFiniteSet(B)
      BY <1>1
    <3> QED BY <3>1, <3>2
  <2> HIDE DEF A, B
  <2>3. Cardinality(A) <= Cardinality(B) /\ Cardinality(A) # Cardinality(B)
    BY <2>1, <2>2, FS_Subset
  <2>4. Cardinality(A) < Cardinality(B)
    BY <2>2, <2>3, FS_CardinalityType
  <2> QED BY <2>4 DEF A, B, Rank
<1> QED BY <1>1, <1>2 DEF Rank

LEMMA NthOf ==
  ASSUME NEW I \in SUBSET Nat, IsFiniteSet(I)
  PROVE  /\ \A k \in 1..Cardinality(I) : Nth(I, k) \in I /\ Rank(I, Nth(I, k)) = k
         /\ \A i \in I : Rank(I, i) \in 1..Cardinality(I) /\ Nth(I, Rank(I, i)) = i
<1> DEFINE n == Cardinality(I)
           f == [i \in I |-> Rank(I, i)]
<1>0. n \in Nat
  BY FS_CardinalityType
<1>1. f \in [I -> 1..n]
  BY RankOf
<1>2. \A i, j \in I : Rank(I, i) = Rank(I, j) => i = j
  <2> SUFFICES ASSUME NEW i \in I, NEW j \in I, Rank(I, i) = Rank(I, j), i # j PROVE FALSE
    OBVIOUS
  <2>1. Rank(I, i) \in Int /\ (i < j \/ j < i)
    BY <1>0, RankOf
  <2> QED BY <2>1, RankOf
<1>3. f \in Injection(I, 1..n)
  BY <1>1, <1>2 DEF Injection, IsInjective
<1>4. IsFiniteSet(1..n) /\ Cardinality(1..n) = n
  BY <1>0, FS_Interval
<1>5. f \in Surjection(I, 1..n)
  <2> HIDE DEF f
  <2> QED BY <1>3, <1>4, FS_Injection
<1>6. ASSUME NEW k \in 1..n PROVE \E i \in I : Rank(I, i) = k
  BY <1>5, <1>6 DEF Surjection
<1>7. ASSUME NEW k \in 1..n PROVE Nth(I, k) \in I /\ Rank(I, Nth(I, k)) = k
  BY <1>6, <1>7 DEF Nth
<1>8. \A i \in I : Rank(I, i) \in 1..n
  BY RankOf
<1>9. \A i \in I : Nth(I, Rank(I, i)) = i
  BY <1>2, <1>7, <1>8
<1> QED BY <1>7, <1>8, <1>9


\* The k-th place comes before the later ones.
LEMMA NthInOrder ==
  ASSUME NEW I \in SUBSET Nat, IsFiniteSet(I),
         NEW k \in 1 .. Cardinality(I), NEW l \in 1 .. Cardinality(I), k < l
  PROVE  Nth(I, k) < Nth(I, l)
<1>1. /\ Nth(I, k) \in I /\ Rank(I, Nth(I, k)) = k
      /\ Nth(I, l) \in I /\ Rank(I, Nth(I, l)) = l
  BY NthOf
<1>2. Cardinality(I) \in Nat
  BY FS_CardinalityType
<1>3. Nth(I, k) # Nth(I, l)
  BY <1>1, <1>2
<1>4. ~(Nth(I, l) < Nth(I, k))
  <2> SUFFICES ASSUME Nth(I, l) < Nth(I, k) PROVE FALSE
    OBVIOUS
  <2>1. Rank(I, Nth(I, l)) < Rank(I, Nth(I, k))
    BY <1>1, RankOf
  <2> QED BY <1>1, <1>2, <2>1
<1>5. Nth(I, k) \in Nat /\ Nth(I, l) \in Nat
  BY <1>1
<1> QED BY <1>3, <1>4, <1>5

\* What EndBatch applies: modifiers of the batch, in the order of the blocks.
LEMMA ModifiedIs ==
    ASSUME Counts, Batch \subseteq Tool
    PROVE  /\ Modified \in Seq(Entries) /\ Ordered(Modified)
           /\ \A i \in DOMAIN Modified : Modified[i].of \in Batch
<1> DEFINE I == {t \in Batch : queued[t] > 0}
           n == Cardinality(I)
<1>1. I \in SUBSET Nat /\ IsFiniteSet(I) /\ I \subseteq Batch
  <2>1. I \subseteq Tool /\ I \subseteq Batch
    OBVIOUS
  <2>2. IsFiniteSet(I)
    BY <2>1, ToolsAreFinite, FS_Subset
  <2> QED BY <2>1, <2>2, ToolsAreNumbers
<1>2. n \in Nat
  BY <1>1, FS_CardinalityType
<1>3. \A t \in I : t \in Batch /\ t \in Tool /\ queued[t] \in 1 .. MaxUpdates
  BY BatchesAssumption DEF Counts
<1> HIDE DEF I
<1>4. Modified = [k \in 1 .. n |-> [t \in Tool |-> Entry(t, queued[t])][Nth(I, k)]]
  BY DEF Modified, Selected, I
<1>5. \A k \in 1 .. n : Nth(I, k) \in I
  BY <1>1, NthOf
<1>6. ASSUME NEW k \in 1 .. n
      PROVE  Modified[k] \in Entries /\ Modified[k].of = Nth(I, k)
  <2>1. Nth(I, k) \in Tool /\ queued[Nth(I, k)] \in 1 .. MaxUpdates
    BY <1>3, <1>5
  <2>2. Modified[k] = [of |-> Nth(I, k), many |-> queued[Nth(I, k)]]
    BY <1>4, <2>1 DEF Entry
  <2> QED BY <2>1, <2>2 DEF Entries
<1>7. DOMAIN Modified = 1 .. n
  BY <1>4
<1>8. Modified = [k \in 1 .. n |-> Modified[k]]
  BY <1>4
<1>9. Modified \in Seq(Entries)
  <2> HIDE DEF n
  <2> QED BY <1>2, <1>6, <1>8
<1>10. Ordered(Modified)
  <2> SUFFICES ASSUME NEW k \in 1 .. n, NEW l \in 1 .. n, k < l
               PROVE  Modified[k].of <= Modified[l].of
    BY <1>7 DEF Ordered
  <2>1. Nth(I, k) < Nth(I, l)
    BY <1>1, NthInOrder
  <2>2. Nth(I, k) \in Nat /\ Nth(I, l) \in Nat
    BY <1>1, <1>5
  <2> QED BY <1>6, <2>1, <2>2
<1> QED BY <1>3, <1>5, <1>6, <1>7, <1>9, <1>10

LEMMA EntryOf ==
    ASSUME NEW s \in Seq(Entries), NEW i \in DOMAIN s
    PROVE  s[i] \in Entries /\ s[i].of \in Tool
<1>1. s[i] \in Entries
  OBVIOUS
<1> QED BY <1>1 DEF Entries

\* A sequence that starts where the other ends.
LEMMA OrderedJoined ==
    ASSUME NEW s \in Seq(Entries), NEW r \in Seq(Entries), Ordered(s), Ordered(r),
           \A i \in DOMAIN s, j \in DOMAIN r : s[i].of <= r[j].of
    PROVE  /\ s \o r \in Seq(Entries) /\ Ordered(s \o r)
           /\ \A i \in DOMAIN (s \o r) : \/ \E j \in DOMAIN s : (s \o r)[i] = s[j]
                                         \/ \E j \in DOMAIN r : (s \o r)[i] = r[j]
<1> DEFINE w == s \o r
<1>1. /\ w \in Seq(Entries) /\ DOMAIN w = 1 .. Len(s) + Len(r)
      /\ DOMAIN s = 1 .. Len(s) /\ DOMAIN r = 1 .. Len(r)
      /\ Len(s) \in Nat /\ Len(r) \in Nat
  OBVIOUS
<1>2. \A i \in DOMAIN w : w[i] = IF i <= Len(s) THEN s[i] ELSE r[i - Len(s)]
  BY <1>1
<1>3. \A i \in DOMAIN w : IF i <= Len(s) THEN i \in DOMAIN s ELSE i - Len(s) \in DOMAIN r
  BY <1>1
<1> HIDE DEF w
<1>4. Ordered(w)
  <2> SUFFICES ASSUME NEW i \in DOMAIN w, NEW j \in DOMAIN w, i < j
               PROVE  w[i].of <= w[j].of
    BY DEF Ordered
  <2>1. CASE j <= Len(s)
    <3>1. i <= Len(s)
      BY <1>1, <2>1
    <3> QED BY <1>2, <1>3, <2>1, <3>1 DEF Ordered
  <2>2. CASE i <= Len(s) /\ ~(j <= Len(s))
    BY <1>2, <1>3, <2>2
  <2>3. CASE ~(i <= Len(s))
    <3>1. ~(j <= Len(s)) /\ i - Len(s) < j - Len(s)
      BY <1>1, <2>3
    <3>2. r[i - Len(s)].of <= r[j - Len(s)].of
      BY <1>3, <2>3, <3>1 DEF Ordered
    <3> QED BY <1>2, <2>3, <3>1, <3>2
  <2> QED BY <2>1, <2>2, <2>3
<1>5. \A i \in DOMAIN w : (\E j \in DOMAIN s : w[i] = s[j]) \/ \E j \in DOMAIN r : w[i] = r[j]
  BY <1>2, <1>3
<1> QED BY <1>1, <1>4, <1>5 DEF w

LEMMA ContextStep == CInv /\ [Next]_vars => ContextSoFar'
<1> SUFFICES ASSUME CInv, [Next]_vars PROVE ContextSoFar'
  OBVIOUS
<1>0. /\ context \in Seq(Entries) /\ Ordered(context)
      /\ \A i \in DOMAIN context : context[i] \in Entries /\ context[i].of \in Tool
      /\ safe' = safe
  <2>1. context \in Seq(Entries) /\ Ordered(context)
    BY DEF CInv, ContextSoFar
  <2>2. \A i \in DOMAIN context : context[i] \in Entries /\ context[i].of \in Tool
    BY <2>1, EntryOf
  <2>3. safe' = safe
    BY DEF Next, BeginBatch, StartedAll, Resume, EndBatch, ToolStep, StartOne, Update, End,
       Take, TakeEnd, vars
  <2> QED BY <2>1, <2>2, <2>3
<1>1. ASSUME UNCHANGED <<context, first>>, loop' = "batch" => loop = "batch"
      PROVE  ContextSoFar'
  BY <1>0, <1>1 DEF CInv, ContextSoFar, Ordered, Concurrent
<1>2. CASE BeginBatch \/ StartedAll \/ Resume \/ UNCHANGED vars
  BY <1>1, <1>2 DEF BeginBatch, StartedAll, Resume, Goto, vars
<1>3. ASSUME NEW t \in Tool, StartOne(t) \/ Update(t) \/ End(t) \/ TakeEnd(t)
      PROVE  ContextSoFar'
  BY <1>1, <1>3 DEF StartOne, Update, End, TakeEnd
<1>4. ASSUME NEW t \in Tool, Take(t) PROVE ContextSoFar'
  <2>1. /\ loop = "race" /\ loop' = "suspended" /\ first' = first
        /\ phase[t] \in {"value", "change"}
    BY <1>4 DEF Take, Goto
  <2>2. CASE context' = context
    BY <1>1, <2>1, <2>2
  <2>3. CASE context' # context
    <3>1. ~Concurrent /\ phase[t] = "change" /\ context' = Append(context, Entry(t, 1))
      BY <1>4, <2>3 DEF Take
    <3>2. t \in Batch /\ first \in Starts
      BY <2>1, AtWork DEF CInv
    <3>3. t = first
      BY <3>1, <3>2, BatchIs
    <3>4. Entry(t, 1) \in Entries /\ Entry(t, 1).of = first
      <4>1. queued[t] \in Nat /\ updates[t] \in 0 .. MaxUpdates /\ queued[t] + 1 <= updates[t]
        BY <3>1 DEF CInv, Counts
      <4>2. 1 \in 1 .. MaxUpdates
        BY <4>1, BatchesAssumption
      <4> QED BY <3>3, <4>2 DEF Entry, Entries
    <3>5. /\ <<Entry(t, 1)>> \in Seq(Entries) /\ DOMAIN <<Entry(t, 1)>> = {1}
          /\ <<Entry(t, 1)>>[1] = Entry(t, 1)
      BY <3>4
    <3>6. context' = context \o <<Entry(t, 1)>>
      BY <1>0, <3>1, <3>4
    <3>7. \A i \in DOMAIN context : context[i].of <= first
      BY <1>0, <3>2, ToolsAreNumbers DEF CInv, ContextSoFar, Starts
    <3> DEFINE e == <<Entry(t, 1)>>
    <3>8. e \in Seq(Entries) /\ Ordered(e) /\ \A j \in DOMAIN e : e[j].of = first
      BY <3>4, <3>5 DEF Ordered
    <3> HIDE DEF e
    <3>9. /\ context \o e \in Seq(Entries) /\ Ordered(context \o e)
          /\ \A i \in DOMAIN (context \o e) :
                \/ \E j \in DOMAIN context : (context \o e)[i] = context[j]
                \/ \E j \in DOMAIN e : (context \o e)[i] = e[j]
      BY <1>0, <3>7, <3>8, OrderedJoined
    <3>10. context' = context \o e
      BY <3>6 DEF e
    <3>11. \A i \in DOMAIN context' : context'[i].of < first \/ context'[i].of = first
      BY <3>8, <3>9, <3>10 DEF CInv, ContextSoFar
    <3>12. ~Concurrent'
      BY <1>0, <2>1, <3>1 DEF Concurrent
    <3> QED BY <2>1, <3>9, <3>10, <3>11, <3>12 DEF ContextSoFar, Ordered
  <2> QED BY <2>2, <2>3
<1>5. CASE EndBatch
  <2>1. /\ first \in Starts /\ first \in Nat /\ first' \in Nat /\ first' > first
        /\ \A t \in Tool : t \in Nat /\ (t < first' <=> t < first \/ t \in Batch)
        /\ Batch \subseteq Tool /\ \A t \in Batch : t >= first
    BY <1>5, BatchDone, BatchIs, ToolsAreNumbers DEF CInv, Starts
  <2>2. CASE ~Concurrent
    <3>1. context' = context
      BY <1>5, <2>2 DEF EndBatch
    <3>2. \A i \in DOMAIN context : context[i].of < first'
      BY <1>0, <2>1 DEF CInv, ContextSoFar
    <3> QED BY <1>0, <3>1, <3>2 DEF ContextSoFar, Ordered
  <2>3. CASE Concurrent
    <3>1. context' = context \o Modified
      BY <1>5, <2>3 DEF EndBatch
    <3>2. /\ Modified \in Seq(Entries) /\ Ordered(Modified)
          /\ \A i \in DOMAIN Modified : Modified[i].of \in Batch
      BY <2>1, ModifiedIs DEF CInv
    <3>3. \A i \in DOMAIN context : context[i].of < first
      BY <2>3 DEF CInv, ContextSoFar
    <3>4. ASSUME NEW i \in DOMAIN context, NEW j \in DOMAIN Modified
          PROVE  context[i].of <= Modified[j].of
      <4>1. /\ context[i].of \in Nat /\ Modified[j].of \in Nat
            /\ Modified[j].of >= first /\ context[i].of < first
        BY <1>0, <2>1, <3>2, <3>3
      <4> QED BY <2>1, <4>1
    <3>5. /\ context' \in Seq(Entries) /\ Ordered(context')
          /\ \A i \in DOMAIN context' : \/ \E j \in DOMAIN context : context'[i] = context[j]
                                        \/ \E j \in DOMAIN Modified : context'[i] = Modified[j]
      BY <1>0, <3>1, <3>2, <3>4, OrderedJoined
    <3>6. \A i \in DOMAIN context' : context'[i].of < first'
      <4>1. \A j \in DOMAIN context : context[j].of < first'
        BY <1>0, <2>1, <3>3
      <4>2. \A j \in DOMAIN Modified : Modified[j].of < first'
        BY <2>1, <3>2
      <4> QED BY <3>5, <4>1, <4>2
    <3> QED BY <3>5, <3>6 DEF ContextSoFar, Ordered
  <2> QED BY <2>2, <2>3
<1> QED BY <1>2, <1>3, <1>4, <1>5 DEF Next, ToolStep

\* A batch of safe tools that is not the first comes right after an unsafe one.
LEMMA SeenStep == CInv /\ [Next]_vars => SeenBefore'
<1> SUFFICES ASSUME CInv, [Next]_vars PROVE SeenBefore'
  OBVIOUS
<1>1. safe' = safe
  BY DEF Next, BeginBatch, StartedAll, Resume, EndBatch, ToolStep, StartOne, Update, End,
     Take, TakeEnd, vars
<1>2. CASE BeginBatch
  <2>1. /\ loop = "batch" /\ first \in Tool
        /\ seen' = [t \in Tool |-> IF t \in Batch THEN context ELSE seen[t]]
    BY <1>2 DEF BeginBatch
  <2>2. first \in Starts /\ first \in Nat
    BY <2>1, ToolsAreNumbers DEF CInv, BInv
  <2>3. context \in Seq(Entries) /\ \A i \in DOMAIN context : context[i].of < first
    BY <2>1 DEF CInv, ContextSoFar
  <2>4. seen' \in [Tool -> Seq(Entries)]
    BY <2>1, <2>3 DEF CInv, SeenBefore
  <2>5. ASSUME NEW t \in Batch, NEW i \in DOMAIN context
        PROVE  /\ context[i].of < t
               /\ t \in safe => \E u \in Tool \ safe : context[i].of <= u /\ u < t
    <3>1. context[i].of \in Tool
      BY <2>3, EntryOf
    <3>2. /\ context[i].of \in Nat /\ 1 <= context[i].of /\ context[i].of < first
          /\ t \in Nat /\ first <= t
      BY <2>2, <2>3, <3>1, BatchIs, ToolsAreNumbers
    <3>3. ASSUME t \in safe
          PROVE  \E u \in Tool \ safe : context[i].of <= u /\ u < t
      <4>1. first \in safe
        BY <2>2, <3>3, BatchIs DEF Concurrent
      <4>2. first # 1
        BY <2>2, <3>2
      <4>3. first - 1 \notin safe
        BY <2>2, <4>1, <4>2 DEF Starts
      <4>4. first - 1 \in Tool /\ context[i].of <= first - 1 /\ first - 1 < t
        BY <2>1, <2>2, <3>2, ToolsAreNumbers
      <4> QED BY <4>3, <4>4
    <3> QED BY <2>2, <3>2, <3>3
  <2> QED BY <1>1, <2>1, <2>4, <2>5 DEF CInv, SeenBefore
<1>3. CASE ~BeginBatch
  <2>1. seen' = seen
    BY <1>3 DEF Next, StartedAll, Resume, EndBatch, ToolStep, StartOne, Update, End, Take,
       TakeEnd, vars
  <2> QED BY <1>1, <2>1 DEF CInv, SeenBefore
<1> QED BY <1>2, <1>3

LEMMA CInvInit == Init => CInv
<1> SUFFICES ASSUME Init PROVE CInv
  OBVIOUS
<1>1. BInv
  BY BInvInit
<1>2. /\ updates = [t \in Tool |-> 0] /\ queued = [t \in Tool |-> 0]
      /\ phase = [t \in Tool |-> "off"] /\ context = <<>> /\ seen = [t \in Tool |-> <<>>]
  BY DEF Init
<1>3. Counts
  BY <1>2, BatchesAssumption DEF Counts
<1>4. <<>> \in Seq(Entries) /\ DOMAIN <<>> = {}
  OBVIOUS
<1>5. ContextSoFar
  BY <1>2, <1>4 DEF ContextSoFar, Ordered
<1>6. SeenBefore
  BY <1>2, <1>4 DEF SeenBefore
<1> QED BY <1>1, <1>3, <1>5, <1>6 DEF CInv

LEMMA CInvNext == CInv /\ [Next]_vars => CInv'
<1> SUFFICES ASSUME CInv, [Next]_vars PROVE CInv'
  OBVIOUS
<1>1. BInv' /\ Counts'
  BY BInvNext, CountsStep DEF CInv
<1>2. ContextSoFar' /\ SeenBefore'
  BY ContextStep, SeenStep
<1> QED BY <1>1, <1>2 DEF CInv

(* Whatever the order in which concurrent tools report their modifiers,    *)
(* they are applied in the order of the blocks, and no tool is given one   *)
(* of a tool beside or after it, for any message and any cap.              *)
THEOREM ContextsInBlockOrder == Spec => []ContextInBlockOrder
<1>1. CInv => ContextInBlockOrder
  BY DEF CInv, ContextSoFar, SeenBefore, Ordered, ContextInBlockOrder
<1> QED BY <1>1, CInvInit, CInvNext, PTL DEF Spec

(* The runner and its tools are well formed, for any message and any cap.  *)
THEOREM TypesAlways == Spec => []TypeOK
<1>1. CInv => TypeOK
  <2> SUFFICES ASSUME CInv PROVE TypeOK
    OBVIOUS
  <2>1. first \in 1 .. MaxTools + 1
    BY ToolsAreNumbers DEF CInv, BInv, Starts
  <2> QED BY <2>1 DEF CInv, BInv, PromisesCapped, Loops, Counts, ContextSoFar, SeenBefore, TypeOK
<1> QED BY <1>1, CInvInit, CInvNext, PTL DEF Spec
================================================================================
