-------------------------- MODULE PromptQueueProofs ---------------------------
(***************************************************************************)
(* The guard always has an owner, only its owner or the user ends a query, *)
(* no command is lost and none is heard twice: proofs for any commands and *)
(* any number of turns.                                                    *)
(*                                                                         *)
(* IInv adds to GuardHasOwner the types of the guard and of the turns, and *)
(* that no live turn has a generation the guard has yet to give out:       *)
(* without it a new query could share its generation with an old one that  *)
(* is still unwinding.  OnceEach says of every command nobody raced for    *)
(* that it is in one place, once, and that what a turn is attaching is in  *)
(* the queue and with no other turn.                                       *)
(***************************************************************************)
EXTENDS PromptQueue, FiniteSetTheorems, TLAPS

Stages == {"none", "processing", "running", "attaching", "over"}

GuardTypes ==
    /\ status \in {"idle", "dispatching", "running"}
    /\ generation \in Nat
    /\ stage \in [Turns -> Stages]
    /\ gen \in [Turns -> Nat]

Given == \A t \in Turns : Live(t) => gen[t] <= generation

IInv == GuardTypes /\ Given /\ GuardHasOwner

LEMMA TurnsAreNumbers == Turns \subseteq Nat
BY PromptQueueAssumption DEF Turns

-----------------------------------------------------------------------------
LEMMA InitInv == Init => IInv
BY DEF Init, IInv, GuardTypes, Given, GuardHasOwner, Live, Owns, Stages

(* A step that changes the status in a way that needs no owner, moves the  *)
(* stage of one turn that is not live, and leaves the generations alone.   *)
LEMMA QuietStep ==
  ASSUME IInv,
         status' \in {"idle", "dispatching", "running"},
         generation' = generation, gen' = gen,
         NEW t \in Turns, stage[t] \in {"none", "processing"},
         NEW s \in {"processing", "over"}, stage' = [stage EXCEPT ![t] = s],
         status' = "running" => status = "running",
         status' = "dispatching" => s = "processing"
  PROVE  IInv'
<1>1. GuardTypes'
  BY DEF IInv, GuardTypes, Stages
<1>2. \A u \in Turns : Live(u)' <=> Live(u)
  BY DEF IInv, GuardTypes, Live
<1>3. Given'
  BY <1>2 DEF IInv, Given
<1>4. GuardHasOwner'
  <2>1. ASSUME status' = "running"
        PROVE  \E v \in Turns : Owns(v)' /\ \A u \in Turns : Owns(u)' => u = v
    BY <1>2, <2>1 DEF IInv, GuardHasOwner, Owns
  <2>2. ASSUME status' = "dispatching" PROVE \E v \in Turns : stage'[v] = "processing"
    BY <2>2 DEF IInv, GuardTypes
  <2> QED BY <2>1, <2>2 DEF GuardHasOwner
<1> QED BY <1>1, <1>3, <1>4 DEF IInv

(* A turn takes the guard with a new generation.                           *)
LEMMA StartStep ==
  ASSUME IInv, status # "running",
         NEW t \in Turns, ~Live(t),
         status' = "running", generation' = generation + 1,
         gen' = [gen EXCEPT ![t] = generation + 1],
         stage' = [stage EXCEPT ![t] = "running"]
  PROVE  IInv'
<1>1. GuardTypes'
  BY DEF IInv, GuardTypes, Stages
<1>2. ASSUME NEW u \in Turns, u # t
      PROVE  (Live(u)' <=> Live(u)) /\ gen'[u] = gen[u]
  BY <1>2 DEF IInv, GuardTypes, Live
<1>3. Live(t)' /\ gen'[t] = generation + 1
  BY DEF IInv, GuardTypes, Live
<1>4. generation \in Nat /\ \A u \in Turns : gen[u] \in Nat
  BY DEF IInv, GuardTypes
<1>5. Given'
  BY <1>2, <1>3, <1>4 DEF IInv, Given
<1>6. \A u \in Turns : Owns(u)' <=> u = t
  BY <1>2, <1>3, <1>4 DEF IInv, Given, Owns
<1>7. GuardHasOwner'
  BY <1>6 DEF GuardHasOwner
<1> QED BY <1>1, <1>5, <1>7 DEF IInv

(* A live turn stays live, and the guard is left alone.                    *)
LEMMA LiveStep ==
  ASSUME IInv, UNCHANGED <<status, generation, gen>>,
         NEW t \in Turns, Live(t),
         NEW s \in {"running", "attaching"}, stage' = [stage EXCEPT ![t] = s]
  PROVE  IInv'
<1>1. GuardTypes'
  BY DEF IInv, GuardTypes, Stages
<1>2. \A u \in Turns : Live(u)' <=> Live(u)
  BY DEF IInv, GuardTypes, Live
<1>3. Given'
  BY <1>2 DEF IInv, Given
<1>4. \A u \in Turns : (stage'[u] = "processing") <=> (stage[u] = "processing")
  BY DEF IInv, GuardTypes, Live
<1>5. GuardHasOwner'
  BY <1>2, <1>4 DEF IInv, GuardHasOwner, Owns
<1> QED BY <1>1, <1>3, <1>5 DEF IInv

(* The guard and the stages are left alone. *)
LEMMA StillStep ==
  ASSUME IInv, UNCHANGED <<status, generation, gen, stage>>
  PROVE  IInv'
BY DEF IInv, GuardTypes, Given, GuardHasOwner, Live, Owns

(* The guard becomes idle. *)
LEMMA CancelStep ==
  ASSUME IInv, ForceEnd, UNCHANGED <<gen, stage>>
  PROVE  IInv'
<1>1. GuardTypes' /\ GuardHasOwner'
  BY DEF IInv, GuardTypes, GuardHasOwner, ForceEnd
<1>2. generation \in Nat /\ (\A t \in Turns : gen[t] \in Nat)
      /\ generation' \in {generation, generation + 1}
  BY DEF IInv, GuardTypes, ForceEnd
<1>3. Given'
  BY <1>2 DEF IInv, Given, Live
<1> QED BY <1>1, <1>3 DEF IInv

LEMMA FinishStep ==
  ASSUME IInv, NEW t \in Turns, Finish(t)
  PROVE  IInv'
<1> DEFINE s == IF Ends(t) THEN "idle" ELSE status
<1>1. /\ generation' = generation /\ gen' = [gen EXCEPT ![t] = 0]
      /\ stage[t] = "running" /\ stage' = [stage EXCEPT ![t] = "over"]
      /\ status' = (IF direct[t] THEN s ELSE Released(s))
  BY DEF Finish
<1>2. GuardTypes'
  BY <1>1 DEF IInv, GuardTypes, Stages, Released
<1>3. \A u \in Turns : Live(u)' <=> (Live(u) /\ u # t)
  BY <1>1 DEF IInv, GuardTypes, Live
<1>9. \A u \in Turns : u # t => gen'[u] = gen[u]
  BY <1>1 DEF IInv, GuardTypes
<1>4. Given'
  BY <1>1, <1>3, <1>9 DEF IInv, Given
<1>5. ASSUME status' = "running"
      PROVE  \E v \in Turns : Owns(v)' /\ \A u \in Turns : Owns(u)' => u = v
  <2>1. status = "running" /\ ~Ends(t)
    BY <1>1, <1>5 DEF Released
  <2>2. PICK v \in Turns : Owns(v) /\ \A u \in Turns : Owns(u) => u = v
    BY <2>1 DEF IInv, GuardHasOwner
  <2>3. v # t
    BY <2>1, <2>2 DEF Owns, Ends
  <2> QED BY <1>1, <1>3, <1>9, <2>2, <2>3 DEF Owns
<1>6. ASSUME status' = "dispatching" PROVE \E v \in Turns : stage'[v] = "processing"
  <2>1. status = "dispatching"
    BY <1>1, <1>6 DEF Released
  <2>2. PICK v \in Turns : stage[v] = "processing"
    BY <2>1 DEF IInv, GuardHasOwner
  <2> QED BY <1>1, <2>2 DEF IInv, GuardTypes
<1> QED BY <1>2, <1>4, <1>5, <1>6 DEF IInv, GuardHasOwner

-----------------------------------------------------------------------------
LEMMA BeginStep ==
  ASSUME IInv, NEW t \in Turns, NEW es, Begin(t, es)
  PROVE  IInv'
<1>1. /\ stage[t] = "none" /\ stage' = [stage EXCEPT ![t] = "processing"]
      /\ generation' = generation /\ gen' = gen /\ status' = Reserved(status)
  BY DEF Begin, IsFresh
<1>2. /\ status' \in {"idle", "dispatching", "running"}
      /\ status' = "running" => status = "running"
  BY <1>1 DEF IInv, GuardTypes, Reserved
<1> QED BY <1>1, <1>2, QuietStep

LEMMA TurnStep ==
  ASSUME IInv, NEW t \in Turns, Turn(t)
  PROVE  IInv'
<1>1. CASE Fail(t) \/ RunLocally(t) \/ Requeue(t)
  <2>1. /\ stage[t] = "processing" /\ stage' = [stage EXCEPT ![t] = "over"]
        /\ generation' = generation /\ gen' = gen /\ status' = AfterFinally(t)
    BY <1>1 DEF Fail, RunLocally, Requeue, Leave
  <2>2. /\ status' \in {"idle", "running"}
        /\ status' = "running" => status = "running"
    BY <2>1 DEF IInv, GuardTypes, AfterFinally, Released
  <2> QED BY <2>1, <2>2, QuietStep
<1>2. CASE StartQuery(t)
  BY <1>2, StartStep DEF StartQuery, Leave, MayStart, Live
<1>3. CASE TakeQueued(t)
  BY <1>3, LiveStep DEF TakeQueued, Live, guard
<1>4. CASE Attach(t)
  BY <1>4, LiveStep DEF Attach, Live, guard
<1>5. CASE Finish(t)
  BY <1>5, FinishStep
<1> QED BY <1>1, <1>2, <1>3, <1>4, <1>5 DEF Turn

LEMMA CommandStep ==
  ASSUME IInv, NEW c \in Commands,
         Submit(c) \/ Notify(c) \/ IncomingPrompt(c) \/ KillAgents(c)
  PROVE  IInv'
<1>1. CASE Submit(c)
  <2>1. CASE \E t \in Turns : Begin(t, <<First(c)>>)
    BY <2>1, BeginStep
  <2>2. CASE UNCHANGED <<guard, stage, gen>>
    BY <2>2, StillStep DEF guard
  <2> QED BY <1>1, <2>1, <2>2 DEF Submit
<1>2. CASE Notify(c) \/ KillAgents(c)
  BY <1>2, StillStep DEF Notify, KillAgents, guard, turns
<1>3. CASE IncomingPrompt(c)
  <2>1. PICK t \in Turns :
           /\ IsFresh(t)
           /\ stage' = [stage EXCEPT ![t] = "running"]
           /\ gen' = [gen EXCEPT ![t] = generation + 1]
    BY <1>3 DEF IncomingPrompt
  <2>2. status # "running" /\ status' = "running" /\ generation' = generation + 1
    BY <1>3 DEF IncomingPrompt, Active
  <2> QED BY <2>1, <2>2, StartStep DEF IsFresh, Live
<1> QED BY <1>1, <1>2, <1>3

LEMMA NextInv == IInv /\ [Next]_vars => IInv'
<1> SUFFICES ASSUME IInv, [Next]_vars PROVE IInv'
  OBVIOUS
<1>1. CASE \E c \in Commands :
              Submit(c) \/ Notify(c) \/ IncomingPrompt(c) \/ KillAgents(c)
  BY <1>1, CommandStep
<1>2. CASE \E t \in Turns : Turn(t)
  BY <1>2, TurnStep
<1>3. CASE ProcessQueue
  <2>1. PICK t \in Turns : \E es : Begin(t, es)
    BY <1>3 DEF ProcessQueue
  <2>2. PICK es : Begin(t, es)
    BY <2>1
  <2> QED BY <2>2, BeginStep
<1>4. CASE SubagentTakes \/ PopEditable
  BY <1>4, StillStep DEF SubagentTakes, PopEditable, guard, turns
<1>5. CASE Cancel
  BY <1>5, CancelStep DEF Cancel
<1>6. CASE UNCHANGED vars
  BY <1>6, StillStep DEF vars, guard, turns
<1> QED BY <1>1, <1>2, <1>3, <1>4, <1>5, <1>6 DEF Next

(* The guard always has an owner: a running guard exactly one live query,  *)
(* a dispatching one an executeUserInput at work (QueryGuard).             *)
THEOREM GuardAlwaysHasOwner == Spec => []GuardHasOwner
<1>1. IInv => GuardHasOwner
  BY DEF IInv
<1> QED BY InitInv, NextInv, <1>1, PTL DEF Spec

-----------------------------------------------------------------------------
(* What may end the query that holds the guard. *)
EndedRightly ==
    status = "running" /\ status' # "running" =>
        \/ generation' # generation
        \/ \E t \in Turns : Owns(t) /\ stage'[t] = "over"

LEMMA EndStep == IInv /\ [Next]_vars => EndedRightly
<1> SUFFICES ASSUME IInv, [Next]_vars, status = "running", status' # "running",
                    generation' = generation
             PROVE  \E t \in Turns : Owns(t) /\ stage'[t] = "over"
  BY DEF EndedRightly
<1>1. ~Cancel
  BY DEF Cancel, ForceEnd, Active, IInv, GuardTypes
<1>2. \A c \in Commands :
         ~(Submit(c) \/ Notify(c) \/ IncomingPrompt(c) \/ KillAgents(c))
  BY DEF Submit, Notify, IncomingPrompt, KillAgents, Active, guard
<1>3. ~ProcessQueue /\ ~SubagentTakes /\ ~PopEditable /\ ~UNCHANGED vars
  BY DEF ProcessQueue, SubagentTakes, PopEditable, Active, guard, vars
<1>4. PICK t \in Turns : Turn(t)
  BY <1>1, <1>2, <1>3 DEF Next
<1>5. ~Fail(t) /\ ~RunLocally(t) /\ ~Requeue(t)
  BY DEF Fail, RunLocally, Requeue, AfterFinally, Released
<1>6. ~StartQuery(t) /\ ~TakeQueued(t) /\ ~Attach(t)
  BY DEF StartQuery, TakeQueued, Attach, guard
<1>7. Finish(t)
  BY <1>4, <1>5, <1>6 DEF Turn
<1>8. Ends(t) /\ stage[t] = "running" /\ stage' = [stage EXCEPT ![t] = "over"]
  BY <1>7 DEF Finish, Released
<1> QED BY <1>8 DEF Owns, Live, Ends, IInv, GuardTypes

(* The guard of a running query becomes idle only when that query ends or  *)
(* the user cancels: a late finally never ends a newer query (REPL         *)
(* onQuery).                                                               *)
THEOREM OnlyTheOwnerEnds == Spec => OnlyOwnerEnds
<1>1. IInv /\ [Next]_vars => [EndedRightly]_vars
  BY EndStep
<1>2. [EndedRightly]_vars <=>
        [status = "running" /\ status' # "running" =>
            \/ generation' # generation
            \/ \E t \in Turns : Owns(t) /\ stage'[t] = "over"]_vars
  BY DEF EndedRightly
<1> QED BY InitInv, NextInv, <1>1, <1>2, PTL DEF Spec, OnlyOwnerEnds

-----------------------------------------------------------------------------
(* Selected, on any finite set of places.                                  *)

LEMMA RankOf ==
  ASSUME NEW I \in SUBSET Nat, IsFiniteSet(I)
  PROVE  /\ \A i \in I : Rank(I, i) \in 1..Cardinality(I)
         /\ \A i, j \in I : i < j => Rank(I, i) < Rank(I, j)
<1>1. ASSUME NEW i \in I
      PROVE  /\ IsFiniteSet({k \in I : k <= i})
             /\ Cardinality({k \in I : k <= i}) \in 1..Cardinality(I)
  <2> DEFINE B == {k \in I : k <= i}
  <2>1. B \in SUBSET I /\ i \in B
    OBVIOUS
  <2> HIDE DEF B
  <2>2. IsFiniteSet(B) /\ Cardinality(B) <= Cardinality(I)
    BY <2>1, FS_Subset
  <2>3. Cardinality(B) \in Nat /\ Cardinality(I) \in Nat /\ Cardinality(B) # 0
    BY <2>1, <2>2, FS_CardinalityType, FS_EmptySet
  <2>4. Cardinality(B) \in 1..Cardinality(I)
    BY <2>2, <2>3
  <2> QED BY <2>2, <2>4 DEF B
<1>2. ASSUME NEW i \in I, NEW j \in I, i < j
      PROVE  Rank(I, i) < Rank(I, j)
  <2> DEFINE A == {k \in I : k <= i}
             B == {k \in I : k <= j}
  <2>1. A \in SUBSET B /\ j \in B /\ j \notin A
    <3>1. i \in Nat /\ j \in Nat /\ \A k \in I : k \in Nat
      OBVIOUS
    <3>2. \A k \in I : k <= i => k <= j
      BY <1>2, <3>1
    <3>3. j <= j /\ ~(j <= i)
      BY <1>2, <3>1
    <3> QED BY <3>2, <3>3
  <2>2. IsFiniteSet(A) /\ IsFiniteSet(B)
    <3>1. IsFiniteSet(A)
      BY <1>1
    <3>2. IsFiniteSet(B)
      BY <1>1
    <3> QED BY <3>1, <3>2
  <2> HIDE DEF A, B
  <2>3. Cardinality(A) <= Cardinality(B) /\ Cardinality(A) # Cardinality(B)
    BY <2>1, <2>2, FS_Subset
  <2>4. Cardinality(A) < Cardinality(B)
    BY <2>2, <2>3, FS_CardinalityType
  <2> QED BY <2>4 DEF A, B, Rank
<1> QED BY <1>1, <1>2 DEF Rank

LEMMA NthOf ==
  ASSUME NEW I \in SUBSET Nat, IsFiniteSet(I)
  PROVE  /\ \A k \in 1..Cardinality(I) : Nth(I, k) \in I /\ Rank(I, Nth(I, k)) = k
         /\ \A i \in I : Rank(I, i) \in 1..Cardinality(I) /\ Nth(I, Rank(I, i)) = i
<1> DEFINE n == Cardinality(I)
           f == [i \in I |-> Rank(I, i)]
<1>0. n \in Nat
  BY FS_CardinalityType
<1>1. f \in [I -> 1..n]
  BY RankOf
<1>2. \A i, j \in I : Rank(I, i) = Rank(I, j) => i = j
  <2> SUFFICES ASSUME NEW i \in I, NEW j \in I, Rank(I, i) = Rank(I, j), i # j PROVE FALSE
    OBVIOUS
  <2>1. Rank(I, i) \in Int /\ (i < j \/ j < i)
    BY <1>0, RankOf
  <2> QED BY <2>1, RankOf
<1>3. f \in Injection(I, 1..n)
  BY <1>1, <1>2 DEF Injection, IsInjective
<1>4. IsFiniteSet(1..n) /\ Cardinality(1..n) = n
  BY <1>0, FS_Interval
<1>5. f \in Surjection(I, 1..n)
  <2> HIDE DEF f
  <2> QED BY <1>3, <1>4, FS_Injection
<1>6. ASSUME NEW k \in 1..n PROVE \E i \in I : Rank(I, i) = k
  BY <1>5, <1>6 DEF Surjection
<1>7. ASSUME NEW k \in 1..n PROVE Nth(I, k) \in I /\ Rank(I, Nth(I, k)) = k
  BY <1>6, <1>7 DEF Nth
<1>8. \A i \in I : Rank(I, i) \in 1..n
  BY RankOf
<1>9. \A i \in I : Nth(I, Rank(I, i)) = i
  BY <1>2, <1>7, <1>8
<1> QED BY <1>7, <1>8, <1>9

\* It has the elements at the places that were selected, and no others.
LEMMA SelectedElements ==
  ASSUME NEW S, NEW s \in Seq(S), NEW I \in SUBSET (DOMAIN s)
  PROVE  /\ Selected(s, I) \in Seq(S)
         /\ Elements(Selected(s, I)) = {s[i] : i \in I}
<1>1. DOMAIN s = 1..Len(s) /\ Len(s) \in Nat
  OBVIOUS
<1>2. I \in SUBSET Nat /\ IsFiniteSet(I)
  <2>1. IsFiniteSet(1..Len(s))
    BY <1>1, FS_Interval
  <2> QED BY <1>1, <2>1, FS_Subset
<1>3. Cardinality(I) \in Nat
  BY <1>2, FS_CardinalityType
<1>4. \A k \in 1..Cardinality(I) : Nth(I, k) \in I /\ s[Nth(I, k)] \in S
  BY <1>2, NthOf
<1>5. Selected(s, I) \in Seq(S)
  BY <1>3, <1>4 DEF Selected
<1>6. \A i \in I : \E k \in 1..Cardinality(I) : Nth(I, k) = i
  BY <1>2, NthOf
<1>7. DOMAIN Selected(s, I) = 1..Cardinality(I)
  BY DEF Selected
<1>8. Elements(Selected(s, I)) = {s[Nth(I, k)] : k \in 1..Cardinality(I)}
  BY <1>7 DEF Elements, Selected
<1>9. {s[Nth(I, k)] : k \in 1..Cardinality(I)} = {s[i] : i \in I}
  BY <1>4, <1>6
<1> QED BY <1>5, <1>8, <1>9

LEMMA ElementsAppended ==
  ASSUME NEW S, NEW s \in Seq(S), NEW e \in S
  PROVE  Append(s, e) \in Seq(S) /\ Elements(Append(s, e)) = Elements(s) \cup {e}
<1>1. /\ Append(s, e) \in Seq(S)
      /\ DOMAIN Append(s, e) = 1..(Len(s) + 1) /\ DOMAIN s = 1..Len(s)
      /\ Append(s, e)[Len(s) + 1] = e
      /\ \A i \in 1..Len(s) : Append(s, e)[i] = s[i]
  OBVIOUS
<1>2. \A i : i \in 1..(Len(s) + 1) <=> (i \in 1..Len(s) \/ i = Len(s) + 1)
  OBVIOUS
<1> QED BY <1>1, <1>2, Zenon DEF Elements

LEMMA ElementsJoined ==
  ASSUME NEW S, NEW s \in Seq(S), NEW r \in Seq(S)
  PROVE  s \o r \in Seq(S) /\ Elements(s \o r) = Elements(s) \cup Elements(r)
<1>1. s \o r \in Seq(S) /\ Len(s \o r) = Len(s) + Len(r)
  OBVIOUS
<1>2. \A i \in 1..Len(s) : (s \o r)[i] = s[i]
  OBVIOUS
<1>3. \A i \in 1..Len(r) : (s \o r)[Len(s) + i] = r[i] /\ Len(s) + i \in 1..(Len(s) + Len(r))
  OBVIOUS
<1>4. \A k \in 1..(Len(s) + Len(r)) :
         k \in 1..Len(s) \/ \E i \in 1..Len(r) : k = Len(s) + i
  <2> SUFFICES ASSUME NEW k \in 1..(Len(s) + Len(r)), k \notin 1..Len(s)
               PROVE  \E i \in 1..Len(r) : k = Len(s) + i
    OBVIOUS
  <2>1. k - Len(s) \in 1..Len(r) /\ k = Len(s) + (k - Len(s))
    OBVIOUS
  <2> QED BY <2>1
<1>5. \A k \in 1..Len(s) : k \in 1..(Len(s) + Len(r))
  OBVIOUS
<1>6. DOMAIN (s \o r) = 1..(Len(s) + Len(r)) /\ DOMAIN s = 1..Len(s) /\ DOMAIN r = 1..Len(r)
  OBVIOUS
<1>7. Elements(s \o r) \subseteq Elements(s) \cup Elements(r)
  BY <1>2, <1>3, <1>4, <1>6 DEF Elements
<1>8. Elements(s) \cup Elements(r) \subseteq Elements(s \o r)
  BY <1>2, <1>3, <1>5, <1>6 DEF Elements
<1> QED BY <1>1, <1>7, <1>8

LEMMA ElementsOfOne ==
  ASSUME NEW e PROVE Elements(<<e>>) = {e}
BY DEF Elements

LEMMA ElementsWithout ==
  ASSUME NEW S, NEW s \in Seq(S), NEW X
  PROVE  Without(s, X) \in Seq(S) /\ Elements(Without(s, X)) = Elements(s) \ X
<1> DEFINE I == {i \in DOMAIN s : s[i] \notin X}
<1>1. I \in SUBSET DOMAIN s
  OBVIOUS
<1>2. {s[i] : i \in I} = Elements(s) \ X
  BY DEF Elements
<1> HIDE DEF I
<1>3. Selected(s, I) \in Seq(S) /\ Elements(Selected(s, I)) = {s[i] : i \in I}
  BY <1>1, SelectedElements
<1> QED BY <1>2, <1>3 DEF Without, I

LEMMA BatchOfQueue ==
  ASSUME queue \in Seq(Element), NEW i \in DOMAIN queue
  PROVE  Batch(queue[i]) \in Seq(Element) /\ Elements(Batch(queue[i])) \subseteq Elements(queue)
<1> DEFINE I == {j \in DOMAIN queue : /\ MainThread(queue[j])
                                      /\ queue[j].mode # "slash"
                                      /\ Mode(queue[j]) = Mode(queue[i])}
<1>1. I \in SUBSET DOMAIN queue
  OBVIOUS
<1>2. queue[i] \in Element /\ queue[i] \in Elements(queue)
  BY DEF Elements
<1> HIDE DEF I
<1>3. /\ Selected(queue, I) \in Seq(Element)
      /\ Elements(Selected(queue, I)) = {queue[j] : j \in I}
  BY <1>1, SelectedElements
<1>4. {queue[j] : j \in I} \subseteq Elements(queue)
  BY <1>1 DEF Elements
<1>5. /\ <<queue[i]>> \in Seq(Element)
      /\ Elements(<<queue[i]>>) \subseteq Elements(queue)
  BY <1>2, ElementsOfOne
<1> QED BY <1>3, <1>4, <1>5 DEF Batch, I

LEMMA AgainIsElement == \A e \in Element : Again(e) \in Element /\ Again(e).of = e.of
BY DEF Again, Element, Kinds

LEMMA ElementsRequeued ==
  ASSUME NEW es \in Seq(Element)
  PROVE  /\ Requeued(es) \in Seq(Element)
         /\ Elements(Requeued(es)) = {Again(e) : e \in {x \in Elements(es) : ~Meta(x)}}
<1> DEFINE I == {i \in DOMAIN es : ~Meta(es[i])}
           s == [i \in DOMAIN es |-> Again(es[i])]
<1>1. \A i \in DOMAIN es : es[i] \in Element
  OBVIOUS
<1>2. s \in Seq(Element)
  <2>1. \A i \in 1..Len(es) : Again(es[i]) \in Element
    BY <1>1, AgainIsElement
  <2> QED BY <2>1
<1>3. I \in SUBSET DOMAIN s /\ DOMAIN s = DOMAIN es /\ \A i \in I : s[i] = Again(es[i])
  OBVIOUS
<1>4. {Again(es[i]) : i \in I} = {Again(e) : e \in {x \in Elements(es) : ~Meta(x)}}
  BY DEF Elements
<1>5. Requeued(es) = Selected(s, I)
  BY DEF Requeued
<1> HIDE DEF I, s
<1>6. Selected(s, I) \in Seq(Element) /\ Elements(Selected(s, I)) = {s[i] : i \in I}
  BY <1>2, <1>3, SelectedElements
<1> QED BY <1>3, <1>4, <1>5, <1>6

-----------------------------------------------------------------------------
(* Where a command is: in the queue, or with a turn that is processing it. *)

Queued == Elements(queue)
Held(t) == IF stage[t] = "processing" THEN Elements(items[t]) ELSE {}

Places == Turns \cup {NoTurn}
At(p) == IF p = NoTurn THEN Queued ELSE Held(p)

Nowhere(c) == \A p \in Places : \A e \in At(p) : e.of # c
Undrained(c) == \A t \in Turns : \A e \in drain[t] : e.of # c

\* A command is in one place, once.
Single(c) ==
    \A p, q \in Places : \A e \in At(p), f \in At(q) :
        e.of = c /\ f.of = c => p = q /\ e = f

\* What a turn is attaching is in the queue, and no other turn attaches it.
Drains(c) ==
    \A t \in Turns : \A e \in drain[t] :
        e.of = c => /\ e \in Queued /\ MainThread(e)
                    /\ \A u \in Turns : \A f \in drain[u] : f.of = c => t = u

Once(c) ==
    /\ heard[c] \in {0, 1}
    /\ c \notin arrived => heard[c] = 0
    /\ c \notin arrived \/ heard[c] = 1 => Nowhere(c)
    /\ Single(c)
    /\ Drains(c)

OnceEach == \A c \in Commands \ raced : Once(c)

\* TypeOK is this and GuardTypes.
QueueTypes ==
    /\ queue \in Seq(Element)
    /\ items \in [Turns -> Seq(Element)]
    /\ cut \in [Turns -> {"no", "interrupt", "user-cancel"}]
    /\ direct \in [Turns -> BOOLEAN]
    /\ drain \in [Turns -> SUBSET Element]
    /\ controller \in Turns \cup {NoTurn}
    /\ input \subseteq Commands
    /\ recall \in Seq(Commands)
    /\ arrived \subseteq Commands
    /\ heard \in [Commands -> Nat]
    /\ gone \subseteq Commands
    /\ lost \subseteq Commands
    /\ raced \subseteq Commands

QInv == IInv /\ QueueTypes /\ NothingLost /\ OnceEach

LEMMA ElementsTyped ==
  /\ \A s \in Seq(Element) : Elements(s) \in SUBSET Element
  /\ \A S \in SUBSET Element : Named(S) \in SUBSET Commands
<1>1. \A e \in Element : e.of \in Commands
  BY DEF Element
<1>2. ASSUME NEW s \in Seq(Element) PROVE Elements(s) \in SUBSET Element
  BY DEF Elements
<1>3. ASSUME NEW S \in SUBSET Element PROVE Named(S) \in SUBSET Commands
  BY <1>1 DEF Named
<1> QED BY <1>2, <1>3

LEMMA FirstTyped ==
  ASSUME NEW c \in Commands
  PROVE  First(c) \in Element /\ <<First(c)>> \in Seq(Element) /\ First(c).of = c
<1>1. First(c) \in Element /\ First(c).of = c
  BY PromptQueueAssumption DEF First, Element
<1> QED BY <1>1

LEMMA HearTyped ==
  ASSUME QueueTypes, NEW S, Hear(S)
  PROVE  heard' \in [Commands -> Nat]
BY DEF QueueTypes, Hear

LEMMA OvertakenTyped ==
  ASSUME QueueTypes, NEW S \in SUBSET Element, Overtaken(S)
  PROVE  raced' \in SUBSET Commands
<1>1. Named(S) \in SUBSET Commands
  BY ElementsTyped
<1> QED BY <1>1 DEF QueueTypes, Overtaken

LEMMA BeginTyped ==
  ASSUME QueueTypes, NEW t \in Turns, NEW es \in Seq(Element), Begin(t, es)
  PROVE  /\ items' \in [Turns -> Seq(Element)]
         /\ UNCHANGED <<cut, direct, drain>>
         /\ controller' \in Turns
<1>1. /\ items' = [items EXCEPT ![t] = es] /\ controller' = t
      /\ UNCHANGED <<cut, direct, drain>>
  BY DEF Begin
<1> QED BY <1>1 DEF QueueTypes

LEMMA InitTyped == Init => QueueTypes
<1> SUFFICES ASSUME Init PROVE QueueTypes
  OBVIOUS
<1>1. <<>> \in Seq(Element) /\ <<>> \in Seq(Commands)
  OBVIOUS
<1>2. queue \in Seq(Element) /\ items \in [Turns -> Seq(Element)] /\ recall \in Seq(Commands)
  BY <1>1 DEF Init
<1> QED BY <1>2 DEF Init, QueueTypes

LEMMA CommandTyped ==
  ASSUME QueueTypes, NEW c \in Commands,
         Submit(c) \/ Notify(c) \/ IncomingPrompt(c) \/ KillAgents(c)
  PROVE  QueueTypes'
<1>1. First(c) \in Element /\ <<First(c)>> \in Seq(Element)
  BY FirstTyped
<1>2. Append(queue, First(c)) \in Seq(Element) /\ Append(recall, c) \in Seq(Commands)
  BY <1>1 DEF QueueTypes
<1>3. Arrive(c) => arrived' \in SUBSET Commands
  BY DEF QueueTypes, Arrive
<1>4. CASE Submit(c)
  <2>1. /\ arrived' \in SUBSET Commands /\ recall' \in Seq(Commands)
        /\ UNCHANGED <<input, heard, gone, lost, raced>>
    BY <1>2, <1>3, <1>4 DEF Submit
  <2>2. CASE UNCHANGED <<guard, stage, items, gen, direct, drain, controller>>
    <3>1. MayInterrupt /\ queue' = Append(queue, First(c))
      BY <1>4, <2>2 DEF Submit, Begin, Active, guard, Reserved
    <3>2. cut' \in [Turns -> {"no", "interrupt", "user-cancel"}]
      BY <3>1 DEF MayInterrupt, QueueTypes
    <3> QED BY <1>2, <2>1, <2>2, <3>1, <3>2 DEF QueueTypes
  <2>3. CASE (\E t \in Turns : Begin(t, <<First(c)>>)) /\ UNCHANGED queue
    <3>1. /\ items' \in [Turns -> Seq(Element)]
          /\ UNCHANGED <<cut, direct, drain>>
          /\ controller' \in Turns
      BY <1>1, <2>3, BeginTyped
    <3> QED BY <2>1, <2>3, <3>1 DEF QueueTypes
  <2> QED BY <1>4, <2>2, <2>3 DEF Submit
<1>5. CASE Notify(c)
  BY <1>2, <1>3, <1>5 DEF Notify, QueueTypes, turns, user, guard
<1>6. CASE IncomingPrompt(c)
  <2>1. heard' \in [Commands -> Nat] /\ arrived' \in SUBSET Commands
    BY <1>3, <1>6, HearTyped DEF IncomingPrompt
  <2>2. PICK t \in Turns :
           /\ controller' = t
           /\ direct' = [direct EXCEPT ![t] = TRUE]
    BY <1>6 DEF IncomingPrompt
  <2>3. UNCHANGED <<queue, items, cut, drain, input, recall, gone, lost, raced>>
    BY <1>6 DEF IncomingPrompt, user
  <2> QED BY <1>1, <2>1, <2>2, <2>3 DEF QueueTypes
<1>7. CASE KillAgents(c)
  <2>1. Elements(queue) \in SUBSET Element /\ Named(Elements(queue)) \in SUBSET Commands
    BY ElementsTyped DEF QueueTypes
  <2>2. raced' \in SUBSET Commands /\ gone' \in SUBSET Commands
    BY <1>7, <2>1, OvertakenTyped DEF KillAgents, QueueTypes
  <2> QED BY <1>1, <1>3, <1>7, <2>2 DEF KillAgents, QueueTypes, guard, turns, user
<1> QED BY <1>4, <1>5, <1>6, <1>7

LEMMA FinishUser ==
  ASSUME QueueTypes, NEW t, NEW s, AutoRestore(t, s)
  PROVE  input' = input /\ recall' \in Seq(Commands)
<1>1. recall # <<>> => Front(recall) \in Seq(Commands)
  BY DEF Front, QueueTypes
<1> QED BY <1>1 DEF AutoRestore, user, QueueTypes

LEMMA LeaveTyped ==
  ASSUME QueueTypes, NEW t \in Turns, NEW s, Leave(t, s)
  PROVE  items' \in [Turns -> Seq(Element)]
BY DEF QueueTypes, Leave

LEMMA AttachedTyped ==
  ASSUME QueueTypes, NEW S \in SUBSET Element, AttachmentsOf(S)
  PROVE  heard' \in [Commands -> Nat] /\ lost' \in SUBSET Commands
<1>1. CASE Hear(Named(S)) /\ UNCHANGED lost
  BY <1>1, HearTyped DEF QueueTypes
<1>2. CASE Lose(S) /\ UNCHANGED heard
  BY <1>2, ElementsTyped DEF QueueTypes, Lose
<1> QED BY <1>1, <1>2 DEF AttachmentsOf

LEMMA TurnTyped ==
  ASSUME QueueTypes, NEW t \in Turns, Turn(t)
  PROVE  QueueTypes'
<1>1. /\ items[t] \in Seq(Element)
      /\ Elements(items[t]) \in SUBSET Element
      /\ Named(Elements(items[t])) \in SUBSET Commands
  BY ElementsTyped DEF QueueTypes
<1>2. Elements(queue) \in SUBSET Element
  BY ElementsTyped DEF QueueTypes
<1>3. CASE Fail(t) \/ RunLocally(t)
  <2>1. /\ \/ gone' = gone \cup Named(Elements(items[t])) /\ lost' = lost
           \/ lost' = lost \cup Named(Elements(items[t])) /\ gone' = gone
        /\ controller' \in {controller, NoTurn}
        /\ UNCHANGED <<queue, cut, direct, drain, user, arrived, heard, raced>>
        /\ Leave(t, "over")
    BY <1>3 DEF Fail, RunLocally, Lose
  <2>2. items' \in [Turns -> Seq(Element)]
    BY <2>1, LeaveTyped
  <2> QED BY <1>1, <2>1, <2>2 DEF QueueTypes, user
<1>4. CASE StartQuery(t)
  <2>1. heard' \in [Commands -> Nat]
    BY <1>4, HearTyped DEF StartQuery
  <2>2. items' \in [Turns -> Seq(Element)]
    BY <1>4, LeaveTyped DEF StartQuery
  <2> QED BY <1>4, <2>1, <2>2 DEF StartQuery, QueueTypes, user
<1>5. CASE Requeue(t)
  <2>1. queue \o Requeued(items[t]) \in Seq(Element)
    BY <1>1, ElementsRequeued, ElementsJoined DEF QueueTypes
  <2>2. {e.of : e \in {x \in Elements(items[t]) : Meta(x)}} \in SUBSET Commands
    BY <1>1 DEF Element
  <2>3. items' \in [Turns -> Seq(Element)]
    BY <1>5, LeaveTyped DEF Requeue
  <2> QED BY <1>5, <2>1, <2>2, <2>3 DEF Requeue, QueueTypes, user
<1>6. CASE TakeQueued(t)
  <2>1. PICK X \in SUBSET Elements(queue) :
           drain' = [drain EXCEPT ![t] = X] /\ Overtaken(X)
    BY <1>6 DEF TakeQueued
  <2>2. raced' \in SUBSET Commands
    BY <1>2, <2>1, OvertakenTyped
  <2>3. drain' \in [Turns -> SUBSET Element]
    BY <1>2, <2>1 DEF QueueTypes
  <2> QED BY <1>6, <2>2, <2>3 DEF TakeQueued, QueueTypes, user, guard
<1>7. CASE Attach(t)
  <2>1. heard' \in [Commands -> Nat] /\ lost' \in SUBSET Commands
    BY <1>7, AttachedTyped DEF Attach, QueueTypes
  <2>2. queue' \in Seq(Element)
    BY <1>7, ElementsWithout DEF Attach, LeftAfterDrain, QueueTypes
  <2>3. drain' \in [Turns -> SUBSET Element]
    BY <1>7 DEF Attach, QueueTypes
  <2> QED BY <1>7, <2>1, <2>2, <2>3 DEF Attach, QueueTypes, user, guard
<1>8. CASE Finish(t)
  <2>1. /\ controller' \in {controller, NoTurn}
        /\ UNCHANGED <<queue, items, cut, drain, ghosts>>
        /\ direct' = [direct EXCEPT ![t] = FALSE]
        /\ \E s : AutoRestore(t, s)
    BY <1>8 DEF Finish
  <2>2. input' = input /\ recall' \in Seq(Commands)
    BY <2>1, FinishUser
  <2> QED BY <2>1, <2>2 DEF QueueTypes, ghosts
<1> QED BY <1>3, <1>4, <1>5, <1>6, <1>7, <1>8 DEF Turn

LEMMA OtherTyped ==
  ASSUME QueueTypes, ProcessQueue \/ SubagentTakes \/ Cancel \/ PopEditable
  PROVE  QueueTypes'
<1>1. Elements(queue) \in SUBSET Element
  BY ElementsTyped DEF QueueTypes
<1>2. \A X : Without(queue, X) \in Seq(Element)
  BY ElementsWithout DEF QueueTypes
<1>3. CASE ProcessQueue
  <2>1. PICK i \in Peek, t \in Turns :
           /\ queue' = Without(queue, Elements(Batch(queue[i])))
           /\ Begin(t, Batch(queue[i]))
           /\ Overtaken(Elements(Batch(queue[i])))
    BY <1>3 DEF ProcessQueue
  <2>2. Batch(queue[i]) \in Seq(Element)
    BY BatchOfQueue DEF Peek, QueueTypes
  <2>3. raced' \in SUBSET Commands
    BY <2>1, <2>2, ElementsTyped, OvertakenTyped
  <2>4. /\ items' \in [Turns -> Seq(Element)]
        /\ UNCHANGED <<cut, direct, drain>>
        /\ controller' \in Turns
    BY <2>1, <2>2, BeginTyped
  <2> QED BY <1>2, <1>3, <2>1, <2>3, <2>4 DEF ProcessQueue, QueueTypes, user
<1>4. CASE SubagentTakes
  <2>1. heard' \in [Commands -> Nat] /\ lost' \in SUBSET Commands
    BY <1>1, <1>4, AttachedTyped DEF SubagentTakes
  <2> QED BY <1>2, <1>4, <2>1 DEF SubagentTakes, QueueTypes, guard, turns, user
<1>5. CASE Cancel
  BY <1>5 DEF Cancel, QueueTypes, user, ghosts
<1>6. CASE PopEditable
  <2> DEFINE X == {e \in Elements(queue) : Editable(e)}
  <2>1. raced' \in SUBSET Commands
    BY <1>1, <1>6, OvertakenTyped DEF PopEditable
  <2>2. Named(X) \in SUBSET Commands
    BY <1>1, ElementsTyped
  <2>3. input' \in SUBSET Commands
    BY <1>6, <2>2 DEF PopEditable, QueueTypes
  <2> QED BY <1>2, <1>6, <2>1, <2>3 DEF PopEditable, QueueTypes, guard, turns
<1> QED BY <1>3, <1>4, <1>5, <1>6

LEMMA NextTyped == QueueTypes /\ [Next]_vars => QueueTypes'
<1>1. QueueTypes /\ UNCHANGED vars => QueueTypes'
  BY DEF QueueTypes, vars, turns, user, ghosts
<1> QED BY <1>1, CommandTyped, TurnTyped, OtherTyped DEF Next

-----------------------------------------------------------------------------
(* Nothing is lost. *)

LEMMA NamedIs == \A S, c : c \in Named(S) <=> \E e \in S : e.of = c
BY DEF Named

LEMMA HeardMore ==
  ASSUME QueueTypes, NEW S, Hear(S), NEW c \in Commands
  PROVE  heard'[c] = IF c \in S THEN heard[c] + 1 ELSE heard[c]
BY DEF Hear

\* Whatever waited waits, was heard, or is accounted for.
LEMMA AccountedFor ==
  ASSUME NothingLost, QueueTypes,
         \A c \in Commands : heard'[c] \in Nat /\ heard'[c] >= heard[c],
         input \subseteq input', gone \subseteq gone', lost \subseteq lost',
         \A c \in Commands : Waiting(c) =>
            Waiting(c)' \/ heard'[c] > 0 \/ c \in input' \cup gone' \cup lost',
         \A c \in arrived' : c \in arrived \/ Waiting(c)' \/ heard'[c] > 0
  PROVE  NothingLost'
<1> SUFFICES ASSUME NEW c \in arrived', ~(Waiting(c)'), ~(heard'[c] > 0)
             PROVE  c \in input' \cup gone' \cup lost'
  BY DEF NothingLost
<1>1. c \in arrived /\ c \in Commands /\ heard[c] \in Nat
  BY DEF QueueTypes
<1>2. Waiting(c) \/ heard[c] > 0 \/ c \in input \cup gone \cup lost
  BY <1>1 DEF NothingLost
<1>3. ~(heard[c] > 0)
  BY <1>1
<1> QED BY <1>1, <1>2, <1>3

LEMMA BeginKeeps ==
  ASSUME QueueTypes, IInv, NEW t \in Turns, NEW es \in Seq(Element), Begin(t, es)
  PROVE  /\ Held(t) = {} /\ Held(t)' = Elements(es)
         /\ \A u \in Turns : u # t => Held(u)' = Held(u)
<1>1. /\ stage[t] = "none" /\ stage' = [stage EXCEPT ![t] = "processing"]
      /\ items' = [items EXCEPT ![t] = es]
  BY DEF Begin, IsFresh
<1>2. stage \in [Turns -> Stages] /\ items \in [Turns -> Seq(Element)]
  BY DEF IInv, GuardTypes, QueueTypes
<1> QED BY <1>1, <1>2 DEF Held

\* A turn that was processing is not any more.
LEMMA LeavesKeeps ==
  ASSUME IInv, QueueTypes, NEW t \in Turns, stage[t] = "processing",
         NEW s, s # "processing", Leave(t, s)
  PROVE  /\ Held(t) = Elements(items[t]) /\ Held(t)' = {}
         /\ \A u \in Turns : u # t => Held(u)' = Held(u)
<1>1. /\ stage' = [stage EXCEPT ![t] = s] /\ stage \in [Turns -> Stages]
      /\ items' = [items EXCEPT ![t] = <<>>]
  BY DEF Leave, IInv, GuardTypes
<1>2. /\ stage'[t] = s
      /\ \A u \in Turns : u # t => stage'[u] = stage[u] /\ items'[u] = items[u]
  BY <1>1 DEF QueueTypes
<1> QED BY <1>2 DEF Held

\* The stage of a turn that is not processing changes.
LEMMA LiveKeeps ==
  ASSUME IInv, NEW t \in Turns, stage[t] # "processing",
         NEW s, s # "processing", stage' = [stage EXCEPT ![t] = s],
         \A u \in Turns : u # t => items'[u] = items[u]
  PROVE  \A u \in Turns : Held(u)' = Held(u)
BY DEF Held, IInv, GuardTypes

LEMMA StillKeeps ==
  ASSUME UNCHANGED <<stage, items>>
  PROVE  \A u \in Turns : Held(u)' = Held(u)
BY DEF Held

LEMMA WaitingIs == \A c : Waiting(c) <=> ~Nowhere(c)
<1>1. NoTurn \in Places /\ NoTurn \notin Turns /\ At(NoTurn) = Queued
  BY DEF Places, NoTurn, Turns, At
<1>2. \A t \in Turns : t \in Places /\ At(t) = Held(t)
  BY <1>1 DEF Places, At
<1>3. \A c : Nowhere(c) <=> /\ \A e \in Queued : e.of # c
                            /\ \A t \in Turns : \A e \in Held(t) : e.of # c
  BY <1>1, <1>2 DEF Nowhere, Places
<1> QED BY <1>3 DEF Waiting, Queued, Held, Named

\* The places after a step that changes the queue and one turn at most.
LEMMA PlacesAre ==
  /\ NoTurn \in Places /\ NoTurn \notin Turns
  /\ At(NoTurn) = Queued /\ At(NoTurn)' = Queued'
  /\ \A t \in Turns : t \in Places /\ At(t) = Held(t) /\ At(t)' = Held(t)'
  /\ \A p \in Places : p # NoTurn => p \in Turns
BY DEF Places, NoTurn, Turns, At

-----------------------------------------------------------------------------
(* What each step does to the places.                                      *)

Others(S) == \A q \in Places \ S : At(q)' = At(q)
Takes(p, X) == At(p)' = At(p) \ X
Raced(X) == \A c \in Named(X) : c \in raced' \/ Undrained(c)

\* The commands C are put to the model, or accounted for.
Fate(C) ==
    \/ Hear(C) /\ gone' = gone /\ lost' = lost
    \/ heard' = heard /\ gone' = gone \cup C /\ lost' = lost
    \/ heard' = heard /\ gone' = gone /\ lost' = lost \cup C

LEMMA QueueOnly ==
  ASSUME UNCHANGED <<stage, items>>
  PROVE  Others({NoTurn}) /\ (queue' = queue => Others({}))
<1>1. \A t \in Turns : Held(t)' = Held(t)
  BY StillKeeps
<1> QED BY <1>1, PlacesAre DEF Others, Queued

LEMMA OvertakenIs ==
  ASSUME NEW X, Overtaken(X)
  PROVE  Raced(X) /\ raced \subseteq raced'
BY DEF Raced, Overtaken, Undrained, Named

LEMMA ArriveEffect ==
  ASSUME IInv, QueueTypes, NEW c \in Commands, Submit(c) \/ Notify(c)
  PROVE  /\ c \notin arrived /\ arrived' = arrived \cup {c}
         /\ UNCHANGED <<input, drain, heard, gone, lost, raced>>
         /\ \E p \in Places : At(p)' = At(p) \cup {First(c)} /\ Others({p})
<1>1. /\ First(c) \in Element /\ <<First(c)>> \in Seq(Element)
      /\ Elements(<<First(c)>>) = {First(c)}
  BY FirstTyped, ElementsOfOne
<1>2. Elements(Append(queue, First(c))) = Queued \cup {First(c)}
  BY <1>1, ElementsAppended DEF Queued, QueueTypes
<1>3. /\ c \notin arrived /\ arrived' = arrived \cup {c}
      /\ UNCHANGED <<input, drain, heard, gone, lost, raced>>
  BY DEF Submit, Notify, Arrive, Begin, turns, user
<1>4. ASSUME queue' = Append(queue, First(c)), UNCHANGED <<stage, items>>
      PROVE  \E p \in Places : At(p)' = At(p) \cup {First(c)} /\ Others({p})
  <2>1. Queued' = Queued \cup {First(c)}
    BY <1>2, <1>4 DEF Queued
  <2> QED BY <1>4, <2>1, QueueOnly, PlacesAre
<1>5. ASSUME NEW t \in Turns, Begin(t, <<First(c)>>), queue' = queue
      PROVE  \E p \in Places : At(p)' = At(p) \cup {First(c)} /\ Others({p})
  <2>1. /\ Held(t) = {} /\ Held(t)' = {First(c)}
        /\ \A u \in Turns : u # t => Held(u)' = Held(u)
    BY <1>1, <1>5, BeginKeeps
  <2>2. Queued' = Queued
    BY <1>5 DEF Queued
  <2>3. At(t)' = At(t) \cup {First(c)} /\ t \in Places
    BY <2>1, PlacesAre
  <2>4. Others({t})
    BY <2>1, <2>2, PlacesAre DEF Others
  <2> QED BY <2>3, <2>4
<1>6. \/ queue' = Append(queue, First(c)) /\ UNCHANGED <<stage, items>>
      \/ \E t \in Turns : Begin(t, <<First(c)>>) /\ queue' = queue
  BY DEF Submit, Notify, turns
<1> QED BY <1>3, <1>4, <1>5, <1>6

LEMMA IncomingEffect ==
  ASSUME IInv, QueueTypes, NEW c \in Commands, IncomingPrompt(c)
  PROVE  /\ c \notin arrived /\ arrived' = arrived \cup {c}
         /\ UNCHANGED <<input, drain, gone, lost, raced>>
         /\ Hear({c})
         /\ Others({})
<1>1. PICK t \in Turns :
         /\ IsFresh(t)
         /\ stage' = [stage EXCEPT ![t] = "running"]
         /\ items' = items
  BY DEF IncomingPrompt
<1>2. \A u \in Turns : u # t => items'[u] = items[u]
  BY <1>1
<1>3. stage[t] # "processing"
  BY <1>1 DEF IsFresh
<1>4. \A u \in Turns : Held(u)' = Held(u)
  BY <1>1, <1>2, <1>3, LiveKeeps
<1>5. Queued' = Queued
  BY DEF IncomingPrompt, Queued
<1>6. Others({})
  BY <1>4, <1>5, PlacesAre DEF Others
<1> QED BY <1>6 DEF IncomingPrompt, Arrive, user

LEMMA KillEffect ==
  ASSUME QueueTypes, NEW c \in Commands, KillAgents(c)
  PROVE  /\ c \notin arrived /\ arrived' = arrived \cup {c}
         /\ UNCHANGED <<input, drain, heard, lost>>
         /\ gone' = gone \cup Named(At(NoTurn))
         /\ Raced(At(NoTurn)) /\ raced \subseteq raced'
         /\ At(NoTurn)' = {First(c)} /\ Others({NoTurn})
<1>1. Queued' = {First(c)}
  BY ElementsOfOne DEF KillAgents, Queued
<1>2. Others({NoTurn})
  BY QueueOnly DEF KillAgents, turns
<1>3. Raced(Queued) /\ raced \subseteq raced'
  BY OvertakenIs DEF KillAgents, Queued
<1>4. /\ Arrive(c) /\ gone' = gone \cup Named(Queued)
      /\ UNCHANGED <<input, drain, heard, lost>>
  BY DEF KillAgents, Queued, turns, user
<1> QED BY <1>1, <1>2, <1>3, <1>4, PlacesAre DEF Arrive

LEMMA ProcessEffect ==
  ASSUME IInv, QueueTypes, ProcessQueue
  PROVE  /\ UNCHANGED <<arrived, input, drain, heard, gone, lost>>
         /\ raced \subseteq raced'
         /\ \E t \in Turns, X \in SUBSET At(NoTurn) :
              /\ At(t) = {} /\ At(t)' = X
              /\ Takes(NoTurn, X) /\ Others({NoTurn, t})
              /\ Raced(X)
<1>1. PICK i \in Peek, t \in Turns :
         /\ queue' = Without(queue, Elements(Batch(queue[i])))
         /\ Begin(t, Batch(queue[i]))
         /\ Overtaken(Elements(Batch(queue[i])))
  BY DEF ProcessQueue
<1> DEFINE X == Elements(Batch(queue[i]))
<1>2. Batch(queue[i]) \in Seq(Element) /\ X \subseteq Queued
  BY BatchOfQueue DEF Peek, QueueTypes, Queued
<1>3. /\ Held(t) = {} /\ Held(t)' = X
      /\ \A u \in Turns : u # t => Held(u)' = Held(u)
  BY <1>1, <1>2, BeginKeeps
<1>4. Queued' = Queued \ X
  BY <1>1, ElementsWithout DEF Queued, QueueTypes
<1>5. Raced(X) /\ raced \subseteq raced'
  BY <1>1, OvertakenIs
<1>6. UNCHANGED <<arrived, input, drain, heard, gone, lost>>
  BY <1>1 DEF ProcessQueue, Begin, user
<1> HIDE DEF X
<1>7. /\ X \in SUBSET At(NoTurn) /\ At(t) = {} /\ At(t)' = X
      /\ Takes(NoTurn, X) /\ Others({NoTurn, t})
  BY <1>2, <1>3, <1>4, PlacesAre DEF Takes, Others
<1> QED BY <1>5, <1>6, <1>7

LEMMA LeaveEffect ==
  ASSUME IInv, QueueTypes, NEW t \in Turns, Fail(t) \/ RunLocally(t) \/ StartQuery(t)
  PROVE  /\ UNCHANGED <<arrived, input, drain, raced>>
         /\ At(t)' = {} /\ Others({t})
         /\ Fate(Named(At(t)))
<1>1. /\ stage[t] = "processing" /\ queue' = queue
      /\ \E s \in {"over", "running"} : Leave(t, s)
      /\ UNCHANGED <<arrived, input, drain, raced>>
  BY DEF Fail, RunLocally, StartQuery, user
<1>2. /\ Held(t) = Elements(items[t]) /\ Held(t)' = {}
      /\ \A u \in Turns : u # t => Held(u)' = Held(u)
  BY <1>1, LeavesKeeps
<1>3. Queued' = Queued
  BY <1>1 DEF Queued
<1>4. At(t)' = {} /\ Others({t})
  BY <1>2, <1>3, PlacesAre DEF Others
<1>5. Fate(Named(Held(t)))
  BY <1>2 DEF Fail, RunLocally, StartQuery, Lose, Fate
<1> QED BY <1>1, <1>4, <1>5, PlacesAre

LEMMA RequeueEffect ==
  ASSUME IInv, QueueTypes, NEW t \in Turns, Requeue(t)
  PROVE  /\ UNCHANGED <<arrived, input, drain, heard, lost, raced>>
         /\ At(t)' = {} /\ Others({NoTurn, t})
         /\ At(NoTurn)' = At(NoTurn) \cup {Again(e) : e \in {x \in At(t) : ~Meta(x)}}
         /\ gone' = gone \cup {e.of : e \in {x \in At(t) : Meta(x)}}
<1>1. /\ stage[t] = "processing" /\ Leave(t, "over")
      /\ queue' = queue \o Requeued(items[t])
      /\ UNCHANGED <<arrived, input, drain, heard, lost, raced>>
  BY DEF Requeue, user
<1>2. /\ Held(t) = Elements(items[t]) /\ Held(t)' = {}
      /\ \A u \in Turns : u # t => Held(u)' = Held(u)
  BY <1>1, LeavesKeeps
<1>3. items[t] \in Seq(Element) /\ queue \in Seq(Element)
  BY DEF QueueTypes
<1>4. Queued' = Queued \cup {Again(e) : e \in {x \in Held(t) : ~Meta(x)}}
  <2>1. /\ Requeued(items[t]) \in Seq(Element)
        /\ Elements(Requeued(items[t])) =
             {Again(e) : e \in {x \in Elements(items[t]) : ~Meta(x)}}
    BY <1>3, ElementsRequeued
  <2>2. Elements(queue \o Requeued(items[t]))
          = Elements(queue) \cup Elements(Requeued(items[t]))
    BY <1>3, <2>1, ElementsJoined
  <2> QED BY <1>1, <1>2, <2>1, <2>2 DEF Queued
<1>5. gone' = gone \cup {e.of : e \in {x \in Held(t) : Meta(x)}}
  BY <1>2 DEF Requeue
<1>6. Others({NoTurn, t})
  BY <1>2, PlacesAre DEF Others
<1> QED BY <1>1, <1>2, <1>4, <1>5, <1>6, PlacesAre

LEMMA TakeEffect ==
  ASSUME IInv, QueueTypes, NEW t \in Turns, TakeQueued(t)
  PROVE  /\ UNCHANGED <<arrived, input, heard, gone, lost>>
         /\ raced \subseteq raced' /\ Others({})
         /\ \E X \in SUBSET At(NoTurn) :
              /\ \A e \in X : MainThread(e)
              /\ drain' = [drain EXCEPT ![t] = X]
              /\ Raced(X)
<1>1. PICK X \in SUBSET Queued :
         /\ \A e \in X : MainThread(e)
         /\ drain' = [drain EXCEPT ![t] = X]
         /\ Overtaken(X)
  BY DEF TakeQueued, Queued
<1>2. /\ stage[t] # "processing" /\ stage' = [stage EXCEPT ![t] = "attaching"]
      /\ items' = items /\ queue' = queue
      /\ UNCHANGED <<arrived, input, heard, gone, lost>>
  BY DEF TakeQueued, user
<1>3. \A u \in Turns : Held(u)' = Held(u)
  BY <1>2, LiveKeeps
<1>4. Others({})
  BY <1>2, <1>3, PlacesAre DEF Others, Queued
<1> QED BY <1>1, <1>2, <1>4, OvertakenIs, PlacesAre

LEMMA AttachEffect ==
  ASSUME IInv, QueueTypes, NEW t \in Turns, Attach(t)
  PROVE  /\ UNCHANGED <<arrived, input, raced>>
         /\ Takes(NoTurn, drain[t]) /\ Others({NoTurn})
         /\ drain' = [drain EXCEPT ![t] = {}]
         /\ Fate(Named(drain[t]))
<1>1. /\ stage[t] # "processing" /\ stage' = [stage EXCEPT ![t] = "running"]
      /\ items' = items /\ queue' = Without(queue, drain[t])
      /\ UNCHANGED <<arrived, input, raced>>
      /\ drain' = [drain EXCEPT ![t] = {}]
      /\ Fate(Named(drain[t]))
  BY DEF Attach, LeftAfterDrain, AttachmentsOf, Lose, Fate, user
<1>2. \A u \in Turns : Held(u)' = Held(u)
  BY <1>1, LiveKeeps
<1>3. Queued' = Queued \ drain[t]
  BY <1>1, ElementsWithout DEF Queued, QueueTypes
<1>4. Takes(NoTurn, drain[t]) /\ Others({NoTurn})
  BY <1>2, <1>3, PlacesAre DEF Takes, Others
<1> QED BY <1>1, <1>4

LEMMA SubagentEffect ==
  ASSUME QueueTypes, SubagentTakes
  PROVE  /\ UNCHANGED <<arrived, input, drain, raced>>
         /\ Others({NoTurn})
         /\ \E X \in SUBSET At(NoTurn) :
              (\A e \in X : ~MainThread(e)) /\ Takes(NoTurn, X) /\ Fate(Named(X))
<1> DEFINE X == {e \in Elements(queue) : ~MainThread(e)}
<1>1. /\ Fate(Named(X)) /\ queue' = Without(queue, X)
      /\ UNCHANGED <<stage, items, arrived, input, drain, raced>>
  BY DEF SubagentTakes, AttachmentsOf, Lose, Fate, turns, user
<1>2. X \in SUBSET Queued /\ \A e \in X : ~MainThread(e)
  BY DEF Queued
<1> HIDE DEF X
<1>3. Queued' = Queued \ X
  BY <1>1, ElementsWithout DEF Queued, QueueTypes
<1>4. Takes(NoTurn, X) /\ Others({NoTurn})
  BY <1>1, <1>3, QueueOnly, PlacesAre DEF Takes
<1> QED BY <1>1, <1>2, <1>4, PlacesAre

LEMMA PopEffect ==
  ASSUME QueueTypes, PopEditable
  PROVE  /\ UNCHANGED <<arrived, drain, heard, gone, lost>>
         /\ Others({NoTurn}) /\ raced \subseteq raced'
         /\ \E X \in SUBSET At(NoTurn) :
              Takes(NoTurn, X) /\ input' = input \cup Named(X) /\ Raced(X)
<1> DEFINE X == {e \in Elements(queue) : Editable(e)}
<1>1. /\ input' = input \cup Named(X) /\ queue' = Without(queue, X)
      /\ Overtaken(X)
      /\ UNCHANGED <<stage, items, arrived, drain, heard, gone, lost>>
  BY DEF PopEditable, turns
<1>2. X \in SUBSET Queued
  BY DEF Queued
<1> HIDE DEF X
<1>3. Queued' = Queued \ X
  BY <1>1, ElementsWithout DEF Queued, QueueTypes
<1>4. Takes(NoTurn, X) /\ Others({NoTurn})
  BY <1>1, <1>3, QueueOnly, PlacesAre DEF Takes
<1> QED BY <1>1, <1>2, <1>4, OvertakenIs, PlacesAre

LEMMA QuietEffect ==
  ASSUME IInv, QueueTypes,
         (\E t \in Turns : Finish(t)) \/ Cancel \/ UNCHANGED vars
  PROVE  UNCHANGED <<arrived, input, drain, heard, gone, lost, raced>> /\ Others({})
<1>1. ASSUME NEW t \in Turns, Finish(t)
      PROVE  UNCHANGED <<arrived, input, drain, heard, gone, lost, raced>> /\ Others({})
  <2>1. /\ stage[t] # "processing" /\ stage' = [stage EXCEPT ![t] = "over"]
        /\ items' = items /\ queue' = queue
        /\ UNCHANGED <<arrived, drain, heard, gone, lost, raced>>
        /\ \E s : AutoRestore(t, s)
    BY <1>1 DEF Finish, ghosts
  <2>2. \A u \in Turns : Held(u)' = Held(u)
    BY <2>1, LiveKeeps
  <2>3. Others({})
    BY <2>1, <2>2, PlacesAre DEF Others, Queued
  <2> QED BY <2>1, <2>3, FinishUser
<1>2. CASE Cancel \/ UNCHANGED vars
  <2>1. /\ UNCHANGED <<stage, items>> /\ queue' = queue
        /\ UNCHANGED <<arrived, input, drain, heard, gone, lost, raced>>
    BY <1>2 DEF Cancel, vars, turns, user, ghosts
  <2> QED BY <2>1, QueueOnly
<1> QED BY <1>1, <1>2

-----------------------------------------------------------------------------
(* Every command is accounted for. *)

LEMMA HeardGrows ==
  ASSUME QueueTypes, (\E S : Hear(S)) \/ heard' = heard
  PROVE  \A c \in Commands : heard'[c] \in Nat /\ heard'[c] >= heard[c]
<1>1. \A c \in Commands : heard[c] \in Nat
  BY DEF QueueTypes
<1>2. ASSUME NEW S, Hear(S), NEW c \in Commands
      PROVE  heard'[c] \in Nat /\ heard'[c] >= heard[c]
  BY <1>1, <1>2, HeardMore
<1> QED BY <1>1, <1>2

\* What a step takes out of a place it puts somewhere else, or gives a reason for.
LEMMA TakenIsKept ==
  ASSUME QueueTypes, NEW c \in Commands, ~Nowhere(c), Nowhere(c)',
         NEW P, P \subseteq Places, Others(P)
  PROVE  \E p \in P : \E e \in At(p) : e.of = c
BY DEF Nowhere, Others

LEMMA WaitingWillBe == (\A c : Waiting(c) <=> ~Nowhere(c))'
BY WaitingIs, PTL

LEMMA NextKeeps ==
  ASSUME IInv, QueueTypes, NothingLost, [Next]_vars
  PROVE  NothingLost'
<1>0. /\ NoTurn \in Places
      /\ \A c : Waiting(c) <=> ~Nowhere(c)
      /\ \A c : Waiting(c)' <=> ~(Nowhere(c)')
  BY WaitingIs, WaitingWillBe, PlacesAre
<1>1. \A c \in Commands : First(c).of = c
  BY FirstTyped
<1>2. ASSUME NEW c \in Commands, Submit(c) \/ Notify(c) PROVE NothingLost'
  <2>1. PICK p \in Places : At(p)' = At(p) \cup {First(c)} /\ Others({p})
    BY <1>2, ArriveEffect
  <2>2. /\ arrived' = arrived \cup {c} /\ heard' = heard
        /\ input' = input /\ gone' = gone /\ lost' = lost
    BY <1>2, ArriveEffect
  <2>3. ~(Nowhere(c)')
    BY <1>1, <2>1 DEF Nowhere
  <2>4. \A d : ~Nowhere(d) => ~(Nowhere(d)')
    BY <2>1 DEF Nowhere, Others
  <2> QED BY <1>0, <2>2, <2>3, <2>4, HeardGrows, AccountedFor
<1>3. ASSUME NEW c \in Commands, IncomingPrompt(c) PROVE NothingLost'
  <2>1. /\ arrived' = arrived \cup {c} /\ Hear({c})
        /\ input' = input /\ gone' = gone /\ lost' = lost /\ Others({})
    BY <1>3, IncomingEffect
  <2>2. heard'[c] > 0
    BY <2>1, HeardMore DEF QueueTypes
  <2>3. \A d : ~Nowhere(d) => ~(Nowhere(d)')
    BY <2>1 DEF Nowhere, Others
  <2> QED BY <1>0, <2>1, <2>2, <2>3, HeardGrows, AccountedFor
<1>4. ASSUME NEW c \in Commands, KillAgents(c) PROVE NothingLost'
  <2>1. /\ arrived' = arrived \cup {c} /\ heard' = heard /\ input' = input
        /\ gone' = gone \cup Named(At(NoTurn)) /\ lost' = lost
        /\ At(NoTurn)' = {First(c)} /\ Others({NoTurn})
    BY <1>4, KillEffect
  <2>2. ~(Nowhere(c)')
    BY <1>0, <1>1, <2>1 DEF Nowhere
  <2>3. \A d \in Commands : ~Nowhere(d) => ~(Nowhere(d)') \/ d \in gone'
    BY <1>0, <2>1, TakenIsKept DEF Named
  <2> QED BY <1>0, <2>1, <2>2, <2>3, HeardGrows, AccountedFor
<1>5. ASSUME ProcessQueue PROVE NothingLost'
  <2>1. PICK t \in Turns, X \in SUBSET At(NoTurn) :
           /\ At(t)' = X /\ Takes(NoTurn, X) /\ Others({NoTurn, t}) /\ At(t) = {}
    BY <1>5, ProcessEffect
  <2>2. UNCHANGED <<arrived, input, heard, gone, lost>>
    BY <1>5, ProcessEffect
  <2>3. \A d \in Commands : ~Nowhere(d) => ~(Nowhere(d)')
    BY <2>1, PlacesAre DEF Nowhere, Others, Takes
  <2> QED BY <1>0, <2>2, <2>3, HeardGrows, AccountedFor
<1>6. ASSUME NEW t \in Turns, Fail(t) \/ RunLocally(t) \/ StartQuery(t) PROVE NothingLost'
  <2>1. /\ UNCHANGED <<arrived, input>> /\ Others({t}) /\ t \in Places
        /\ Fate(Named(At(t)))
    BY <1>6, LeaveEffect, PlacesAre
  <2>2. ASSUME NEW d \in Commands, d \in Named(At(t)), Hear(Named(At(t)))
        PROVE  heard'[d] > 0
    BY <2>2, HeardMore DEF QueueTypes
  <2>3. \A d \in Commands : ~Nowhere(d) => ~(Nowhere(d)') \/ d \in Named(At(t))
    BY <2>1, TakenIsKept DEF Named
  <2> QED BY <1>0, <2>1, <2>2, <2>3, HeardGrows, AccountedFor DEF Fate
<1>7. ASSUME NEW t \in Turns, Requeue(t) PROVE NothingLost'
  <2>1. /\ UNCHANGED <<arrived, input, heard, lost>> /\ Others({NoTurn, t}) /\ t \in Places
        /\ At(NoTurn)' = At(NoTurn) \cup {Again(e) : e \in {x \in At(t) : ~Meta(x)}}
        /\ gone' = gone \cup {e.of : e \in {x \in At(t) : Meta(x)}}
    BY <1>7, RequeueEffect, PlacesAre
  <2>2. \A e : Again(e).of = e.of
    BY DEF Again
  <2>3. ASSUME NEW d \in Commands, ~Nowhere(d), Nowhere(d)' PROVE d \in gone'
    <3>1. \A e \in At(NoTurn)' : e.of # d
      BY <1>0, <2>3 DEF Nowhere
    <3>2. PICK e \in At(t) : e.of = d
      BY <1>0, <2>1, <2>3, <3>1, TakenIsKept
    <3>3. Meta(e)
      BY <2>1, <2>2, <3>1, <3>2
    <3> QED BY <2>1, <3>2, <3>3
  <2> QED BY <1>0, <2>1, <2>3, HeardGrows, AccountedFor
<1>8. ASSUME NEW t \in Turns, TakeQueued(t) PROVE NothingLost'
  <2>1. UNCHANGED <<arrived, input, heard, gone, lost>> /\ Others({})
    BY <1>8, TakeEffect
  <2>2. \A d : ~Nowhere(d) => ~(Nowhere(d)')
    BY <2>1 DEF Nowhere, Others
  <2> QED BY <1>0, <2>1, <2>2, HeardGrows, AccountedFor
<1>9. ASSUME NEW X, Fate(Named(X)), Takes(NoTurn, X), Others({NoTurn}),
             UNCHANGED <<arrived, input>>
      PROVE  NothingLost'
  <2>1. ASSUME NEW d \in Commands, ~Nowhere(d), Nowhere(d)'
        PROVE  heard'[d] > 0 \/ d \in gone' \cup lost'
    <3>1. PICK e \in At(NoTurn) : e.of = d
      BY <1>0, <1>9, <2>1, TakenIsKept
    <3>2. e \in X
      BY <1>0, <1>9, <2>1, <3>1 DEF Nowhere, Takes
    <3>3. d \in Named(X)
      BY <3>1, <3>2 DEF Named
    <3>4. Hear(Named(X)) => heard'[d] = heard[d] + 1 /\ heard[d] \in Nat
      BY <3>3, HeardMore DEF QueueTypes
    <3>5. CASE Hear(Named(X))
      BY <3>4, <3>5
    <3>6. CASE d \in gone' \cup lost'
      BY <3>6
    <3> QED BY <1>9, <3>3, <3>5, <3>6 DEF Fate
  <2>2. gone \subseteq gone' /\ lost \subseteq lost' /\ ((\E S : Hear(S)) \/ heard' = heard)
    BY <1>9 DEF Fate
  <2> QED BY <1>0, <1>9, <2>1, <2>2, HeardGrows, AccountedFor
<1>10. ASSUME (\E t \in Turns : Attach(t)) \/ SubagentTakes PROVE NothingLost'
  <2>1. /\ UNCHANGED <<arrived, input>> /\ Others({NoTurn})
        /\ \E X : Fate(Named(X)) /\ Takes(NoTurn, X)
    BY <1>10, AttachEffect, SubagentEffect
  <2> QED BY <1>9, <2>1
<1>11. ASSUME PopEditable PROVE NothingLost'
  <2>1. PICK X \in SUBSET At(NoTurn) : Takes(NoTurn, X) /\ input' = input \cup Named(X)
    BY <1>11, PopEffect
  <2>2. UNCHANGED <<arrived, heard, gone, lost>> /\ Others({NoTurn})
    BY <1>11, PopEffect
  <2>3. ASSUME NEW d \in Commands, ~Nowhere(d), Nowhere(d)' PROVE d \in input'
    <3>1. PICK e \in At(NoTurn) : e.of = d
      BY <1>0, <2>2, <2>3, TakenIsKept
    <3>2. e \in X
      BY <1>0, <2>1, <2>3, <3>1 DEF Nowhere, Takes
    <3> QED BY <2>1, <3>1, <3>2 DEF Named
  <2> QED BY <1>0, <2>1, <2>2, <2>3, HeardGrows, AccountedFor
<1>12. ASSUME (\E t \in Turns : Finish(t)) \/ Cancel \/ UNCHANGED vars PROVE NothingLost'
  <2>1. UNCHANGED <<arrived, input, heard, gone, lost>> /\ Others({})
    BY <1>12, QuietEffect
  <2>2. \A d : ~Nowhere(d) => ~(Nowhere(d)')
    BY <2>1 DEF Nowhere, Others
  <2> QED BY <1>0, <2>1, <2>2, HeardGrows, AccountedFor
<1>13. CASE \E c \in Commands :
               Submit(c) \/ Notify(c) \/ IncomingPrompt(c) \/ KillAgents(c)
  BY <1>2, <1>3, <1>4, <1>13
<1>14. CASE \E t \in Turns : Turn(t)
  BY <1>6, <1>7, <1>8, <1>10, <1>12, <1>14 DEF Turn
<1>15. CASE ProcessQueue \/ SubagentTakes \/ Cancel \/ PopEditable \/ UNCHANGED vars
  BY <1>5, <1>10, <1>11, <1>12, <1>15
<1> QED BY <1>13, <1>14, <1>15 DEF Next

-----------------------------------------------------------------------------
(* No command is heard twice. *)

\* Of the command c things only go away.
LEMMA LessOnce ==
  ASSUME NEW c, Once(c), heard'[c] = heard[c], c \in arrived => c \in arrived',
         \A p \in Places : \A e \in At(p)' : e.of = c => e \in At(p),
         \A t \in Turns : \A e \in drain'[t] : e.of = c => e \in drain[t] /\ e \in Queued'
  PROVE  Once(c)'
<1>1. Nowhere(c) => Nowhere(c)'
  BY DEF Nowhere
<1>2. Single(c)'
  BY DEF Once, Single
<1>3. Drains(c)'
  BY DEF Once, Drains
<1>4. c \in arrived' => c \in arrived \/ heard'[c] = 0
  BY DEF Once
<1>5. /\ heard'[c] \in {0, 1}
      /\ c \notin arrived' => heard'[c] = 0
      /\ c \notin arrived' \/ heard'[c] = 1 => Nowhere(c)'
  BY <1>1 DEF Once
<1> QED BY <1>2, <1>3, <1>5 DEF Once

\* It is put to the model, and nothing of it is left.
LEMMA HeardOnceNow ==
  ASSUME NEW c, heard[c] = 0, heard'[c] = heard[c] + 1, c \in arrived',
         Nowhere(c)', Undrained(c)'
  PROVE  Once(c)'
<1>1. Single(c)'
  BY DEF Single, Nowhere
<1>2. Drains(c)'
  BY DEF Drains, Undrained
<1> QED BY <1>1, <1>2 DEF Once

\* It is in one place, and no turn attaches it.
LEMMA PlacedOnce ==
  ASSUME NEW c, heard'[c] = 0, c \in arrived', Undrained(c)',
         NEW p, NEW e,
         \A q \in Places : \A f \in At(q)' : f.of = c => q = p /\ f = e
  PROVE  Once(c)'
<1>1. Single(c)'
  BY DEF Single
<1>2. Drains(c)'
  BY DEF Drains, Undrained
<1> QED BY <1>1, <1>2 DEF Once

LEMMA NotThere ==
  ASSUME NEW c, Once(c)
  PROVE  /\ Nowhere(c) => Undrained(c)
         /\ \A t \in Turns : (\E e \in At(t) : e.of = c) => Undrained(c)
         /\ ~Nowhere(c) => heard[c] = 0 /\ c \in arrived
         /\ c \notin arrived => heard[c] = 0 /\ Nowhere(c)
<1>1. \A t \in Turns : \A e \in drain[t] : e.of = c => e \in At(NoTurn)
  BY PlacesAre DEF Once, Drains
<1>2. Nowhere(c) => Undrained(c)
  BY <1>1, PlacesAre DEF Nowhere, Undrained
<1>3. ASSUME NEW t \in Turns, NEW e \in At(t), e.of = c PROVE Undrained(c)
  BY <1>1, <1>3, PlacesAre DEF Once, Single, Undrained
<1> QED BY <1>2, <1>3 DEF Once

LEMMA SameDrains ==
  ASSUME NEW c, Once(c), drain' = drain,
         \A e \in Queued : e.of = c => e \in Queued'
  PROVE  \A t \in Turns : \A e \in drain'[t] : e.of = c => e \in drain[t] /\ e \in Queued'
BY DEF Once, Drains

LEMMA UndrainedStays ==
  ASSUME NEW c, Undrained(c), drain' = drain PROVE Undrained(c)'
BY DEF Undrained

\* A step that leaves the places and the drains of c alone.
LEMMA StillOnce ==
  ASSUME NEW c, Once(c), heard'[c] = heard[c], c \in arrived => c \in arrived',
         drain' = drain,
         \A p \in Places : \A e : e.of = c => (e \in At(p)' <=> e \in At(p))
  PROVE  Once(c)'
<1>1. \A p \in Places : \A e \in At(p)' : e.of = c => e \in At(p)
  OBVIOUS
<1>2. \A e \in Queued : e.of = c => e \in Queued'
  BY PlacesAre
<1> QED BY <1>1, <1>2, SameDrains, LessOnce

LEMMA CommandOnce ==
  ASSUME IInv, QueueTypes, OnceEach, NEW d \in Commands,
         Submit(d) \/ Notify(d) \/ IncomingPrompt(d) \/ KillAgents(d),
         NEW c \in Commands \ raced'
  PROVE  Once(c)'
<1>1. \A x \in Commands : First(x).of = x
  BY FirstTyped
<1>2. /\ raced \subseteq raced' /\ d \notin arrived /\ arrived' = arrived \cup {d}
      /\ drain' = drain
  BY ArriveEffect, IncomingEffect, KillEffect
<1>3. Once(c)
  BY <1>2 DEF OnceEach
<1>4. c = d => heard[c] = 0 /\ Nowhere(c) /\ Undrained(c)
  BY <1>2, <1>3, NotThere
<1>5. ASSUME Submit(d) \/ Notify(d) PROVE Once(c)'
  <2>1. heard' = heard
    BY <1>5, ArriveEffect
  <2>2. PICK p \in Places : At(p)' = At(p) \cup {First(d)} /\ Others({p})
    BY <1>5, ArriveEffect
  <2>3. CASE c = d
    <3>1. \A q \in Places : \A f \in At(q)' : f.of = c => q = p /\ f = First(d)
      BY <1>4, <2>2, <2>3 DEF Nowhere, Others
    <3> QED BY <1>2, <1>4, <2>1, <2>3, <3>1, UndrainedStays, PlacedOnce
  <2>4. CASE c # d
    <3>1. \A q \in Places : \A e : e.of = c => (e \in At(q)' <=> e \in At(q))
      BY <1>1, <2>2, <2>4 DEF Others
    <3> QED BY <1>2, <1>3, <2>1, <3>1, StillOnce
  <2> QED BY <2>3, <2>4
<1>6. ASSUME IncomingPrompt(d) PROVE Once(c)'
  <2>1. Hear({d}) /\ Others({})
    BY <1>6, IncomingEffect
  <2>2. CASE c = d
    <3>1. heard'[c] = heard[c] + 1
      BY <2>1, <2>2, HeardMore
    <3>2. Nowhere(c)'
      BY <1>4, <2>1, <2>2 DEF Nowhere, Others
    <3> QED BY <1>2, <1>4, <2>2, <3>1, <3>2, UndrainedStays, HeardOnceNow
  <2>3. CASE c # d
    <3>1. heard'[c] = heard[c]
      BY <2>1, <2>3, HeardMore
    <3>2. \A q \in Places : \A e : e.of = c => (e \in At(q)' <=> e \in At(q))
      BY <2>1 DEF Others
    <3> QED BY <1>2, <1>3, <3>1, <3>2, StillOnce
  <2> QED BY <2>2, <2>3
<1>7. ASSUME KillAgents(d) PROVE Once(c)'
  <2>1. /\ heard' = heard /\ Raced(At(NoTurn))
        /\ At(NoTurn)' = {First(d)} /\ Others({NoTurn})
    BY <1>7, KillEffect
  <2>2. CASE c = d
    <3>1. \A q \in Places : \A f \in At(q)' : f.of = c => q = NoTurn /\ f = First(d)
      BY <1>4, <2>1, <2>2 DEF Nowhere, Others
    <3> QED BY <1>2, <1>4, <2>1, <2>2, <3>1, UndrainedStays, PlacedOnce
  <2>3. CASE c # d
    <3>1. \A p \in Places : \A e \in At(p)' : e.of = c => e \in At(p)
      BY <1>1, <2>1, <2>3 DEF Others
    <3>2. Undrained(c)
      <4>1. c \in Named(At(NoTurn)) => Undrained(c)
        BY <2>1 DEF Raced
      <4>2. c \notin Named(At(NoTurn)) => Undrained(c)
        BY <1>3, PlacesAre DEF Once, Drains, Undrained, Named
      <4> QED BY <4>1, <4>2
    <3>3. \A t \in Turns : \A e \in drain'[t] : e.of # c
      BY <1>2, <3>2 DEF Undrained
    <3> QED BY <1>2, <1>3, <2>1, <3>1, <3>3, LessOnce
  <2> QED BY <2>2, <2>3
<1> QED BY <1>5, <1>6, <1>7

\* Elements X of the queue are put to the model, or lost, and leave it.
LEMMA QueueHeard ==
  ASSUME QueueTypes, NEW c \in Commands, Once(c), NEW X \in SUBSET At(NoTurn),
         Fate(Named(X)), Takes(NoTurn, X), Others({NoTurn}), arrived' = arrived,
         \A t \in Turns : \A e \in drain'[t] : e.of = c => e \in drain[t] /\ e \notin X,
         \A e \in X : e.of = c => Undrained(c)'
  PROVE  Once(c)'
<1>1. CASE heard'[c] # heard[c]
  <2>6. c \in Named(X) /\ heard'[c] = heard[c] + 1
    BY <1>1, HeardMore DEF Fate
  <2>1. PICK e \in X : e.of = c
    BY <2>6 DEF Named
  <2>2. ~Nowhere(c)
    BY <2>1, PlacesAre DEF Nowhere
  <2>3. heard[c] = 0 /\ c \in arrived'
    BY <2>2, NotThere
  <2>5. Nowhere(c)'
    BY <2>1, PlacesAre DEF Nowhere, Once, Single, Takes, Others
  <2> QED BY <2>1, <2>3, <2>5, <2>6, HeardOnceNow
<1>2. CASE heard'[c] = heard[c]
  <2>2. \A p \in Places : \A e \in At(p)' : e.of = c => e \in At(p)
    BY DEF Takes, Others
  <2>3. \A t \in Turns : \A e \in drain'[t] : e.of = c => e \in drain[t] /\ e \in Queued'
    BY PlacesAre DEF Once, Drains, Takes
  <2> QED BY <1>2, <2>2, <2>3, LessOnce
<1> QED BY <1>1, <1>2

\* Elements X of the queue leave it for the place p, or altogether.
LEMMA QueueLeft ==
  ASSUME NEW c, Once(c), NEW X \in SUBSET At(NoTurn),
         Takes(NoTurn, X), heard' = heard, arrived' = arrived, drain' = drain,
         c \in Named(X) => Undrained(c),
         NEW p \in Places, p # NoTurn, Others({NoTurn, p}), At(p)' \subseteq At(p) \cup X
  PROVE  Once(c)'
<1>1. CASE c \in Named(X)
  <2>1. PICK e \in X : e.of = c
    BY <1>1 DEF Named
  <2>2. ~Nowhere(c)
    BY <2>1, PlacesAre DEF Nowhere
  <2>3. heard'[c] = 0 /\ c \in arrived'
    BY <2>2, NotThere
  <2>4. \A q \in Places : \A f \in At(q) : f.of = c => q = NoTurn /\ f = e
    BY <2>1, PlacesAre DEF Once, Single
  <2>5. \A q \in Places : \A f \in At(q)' : f.of = c => q = p /\ f = e
    <3>1. ASSUME NEW f \in At(NoTurn)', f.of = c PROVE FALSE
      BY <2>1, <2>4, <3>1, PlacesAre DEF Takes
    <3>2. ASSUME NEW f \in At(p)', f.of = c PROVE f = e
      BY <2>4, <3>2, PlacesAre
    <3>3. ASSUME NEW q \in Places, q # NoTurn, q # p, NEW f \in At(q)', f.of = c PROVE FALSE
      BY <2>4, <3>3 DEF Others
    <3> QED BY <3>1, <3>2, <3>3
  <2>6. Undrained(c)'
    BY <1>1, UndrainedStays
  <2> QED BY <2>3, <2>5, <2>6, PlacedOnce
<1>2. CASE c \notin Named(X)
  <2>1. \A q \in Places : \A e \in At(q)' : e.of = c => e \in At(q)
    BY <1>2 DEF Takes, Others, Named
  <2>2. \A e \in Queued : e.of = c => e \in Queued'
    BY <1>2, PlacesAre DEF Takes, Named
  <2> QED BY <2>1, <2>2, SameDrains, LessOnce
<1> QED BY <1>1, <1>2

LEMMA OtherOnce ==
  ASSUME IInv, QueueTypes, OnceEach,
         ProcessQueue \/ SubagentTakes \/ PopEditable,
         NEW c \in Commands \ raced'
  PROVE  Once(c)'
<1>1. ASSUME ProcessQueue PROVE Once(c)'
  <2>1. /\ UNCHANGED <<arrived, drain, heard>> /\ raced \subseteq raced'
    BY <1>1, ProcessEffect
  <2>2. PICK t \in Turns, X \in SUBSET At(NoTurn) :
           /\ At(t) = {} /\ At(t)' = X
           /\ Takes(NoTurn, X) /\ Others({NoTurn, t})
           /\ Raced(X)
    BY <1>1, ProcessEffect
  <2>3. Once(c)
    BY <2>1 DEF OnceEach
  <2>4. c \in Named(X) => Undrained(c)
    BY <2>2 DEF Raced
  <2>5. t \in Places /\ t # NoTurn /\ At(t)' \subseteq At(t) \cup X
    BY <2>2, PlacesAre
  <2> QED BY <2>1, <2>2, <2>3, <2>4, <2>5, QueueLeft
<1>2. ASSUME SubagentTakes PROVE Once(c)'
  <2>1. UNCHANGED <<arrived, drain, raced>> /\ Others({NoTurn})
    BY <1>2, SubagentEffect
  <2>2. PICK X \in SUBSET At(NoTurn) :
           (\A e \in X : ~MainThread(e)) /\ Takes(NoTurn, X) /\ Fate(Named(X))
    BY <1>2, SubagentEffect
  <2>3. Once(c)
    BY <2>1 DEF OnceEach
  <2>4. \A t \in Turns : \A e \in drain[t] : e.of = c => e \notin X
    BY <2>2, <2>3 DEF Once, Drains
  <2>5. ASSUME NEW e \in X, e.of = c PROVE Undrained(c)'
    <3>1. \A f \in Queued : f.of = c => f = e
      BY <2>3, <2>5, PlacesAre DEF Once, Single
    <3>2. Undrained(c)
      BY <2>3, <2>4, <2>5, <3>1 DEF Once, Drains, Undrained
    <3> QED BY <2>1, <3>2, UndrainedStays
  <2> QED BY <2>1, <2>2, <2>3, <2>4, <2>5, QueueHeard
<1>3. ASSUME PopEditable PROVE Once(c)'
  <2>1. UNCHANGED <<arrived, drain, heard>> /\ Others({NoTurn}) /\ raced \subseteq raced'
    BY <1>3, PopEffect
  <2>2. PICK X \in SUBSET At(NoTurn) : Takes(NoTurn, X) /\ Raced(X)
    BY <1>3, PopEffect
  <2>3. Once(c)
    BY <2>1 DEF OnceEach
  <2>4. Undrained(c) \/ c \notin Named(X)
    BY <2>2 DEF Raced
  <2>5. \A p \in Places : \A e \in At(p)' : e.of = c => e \in At(p)
    BY <2>1, <2>2 DEF Takes, Others
  <2>6. \A t \in Turns : \A e \in drain'[t] : e.of = c => e \in drain[t] /\ e \in Queued'
    BY <2>1, <2>2, <2>3, <2>4, PlacesAre DEF Once, Drains, Undrained, Takes, Named
  <2> QED BY <2>1, <2>3, <2>5, <2>6, LessOnce
<1> QED BY <1>1, <1>2, <1>3

LEMMA TurnOnce ==
  ASSUME IInv, QueueTypes, OnceEach, NEW t \in Turns, Turn(t),
         NEW c \in Commands \ raced'
  PROVE  Once(c)'
<1>0. t \in Places /\ t # NoTurn /\ NoTurn \in Places
  BY PlacesAre
<1>1. ASSUME Fail(t) \/ RunLocally(t) \/ StartQuery(t) PROVE Once(c)'
  <2>1. /\ UNCHANGED <<arrived, drain, raced>>
        /\ At(t)' = {} /\ Others({t})
        /\ heard' = heard \/ Hear(Named(At(t)))
    BY <1>1, LeaveEffect DEF Fate
  <2>2. Once(c)
    BY <2>1 DEF OnceEach
  <2>3. Queued' = Queued
    BY <2>1, PlacesAre DEF Others
  <2>4. \A p \in Places : \A e \in At(p)' : e.of = c => e \in At(p)
    BY <2>1 DEF Others
  <2>5. CASE heard'[c] = heard[c]
    BY <2>1, <2>2, <2>3, <2>4, <2>5, SameDrains, LessOnce
  <2>6. CASE heard'[c] # heard[c]
    <3>1. c \in Named(At(t)) /\ heard'[c] = heard[c] + 1
      BY <2>1, <2>6, HeardMore
    <3>2. PICK e \in At(t) : e.of = c
      BY <3>1 DEF Named
    <3>3. Undrained(c) /\ heard[c] = 0 /\ c \in arrived
      BY <1>0, <2>2, <3>2, NotThere DEF Nowhere
    <3>4. Nowhere(c)'
      BY <1>0, <2>1, <2>2, <3>2 DEF Nowhere, Once, Single, Others
    <3> QED BY <2>1, <3>1, <3>3, <3>4, UndrainedStays, HeardOnceNow
  <2> QED BY <2>5, <2>6
<1>2. ASSUME Requeue(t) PROVE Once(c)'
  <2>1. /\ UNCHANGED <<arrived, drain, heard, raced>>
        /\ At(t)' = {} /\ Others({NoTurn, t})
        /\ At(NoTurn)' = At(NoTurn) \cup {Again(e) : e \in {x \in At(t) : ~Meta(x)}}
    BY <1>2, RequeueEffect
  <2>2. Once(c)
    BY <2>1 DEF OnceEach
  <2>3. \A e : Again(e).of = e.of
    BY DEF Again
  <2>4. CASE \E e \in At(t) : e.of = c
    <3>1. PICK e \in At(t) : e.of = c
      BY <2>4
    <3>2. Undrained(c) /\ heard[c] = 0 /\ c \in arrived
      BY <1>0, <2>2, <3>1, NotThere DEF Nowhere
    <3>3. \A q \in Places : \A f \in At(q) : f.of = c => q = t /\ f = e
      BY <1>0, <2>2, <3>1 DEF Once, Single
    <3>4. \A f \in At(NoTurn)' : f.of = c => f = Again(e)
      BY <1>0, <2>1, <2>3, <3>3
    <3>5. \A q \in Places : \A f \in At(q)' : f.of = c => q = NoTurn /\ f = Again(e)
      BY <1>0, <2>1, <3>3, <3>4 DEF Others
    <3> QED BY <1>0, <2>1, <3>2, <3>5, UndrainedStays, PlacedOnce
  <2>5. CASE ~\E e \in At(t) : e.of = c
    <3>1. \A e : e.of = c => (e \in At(NoTurn)' <=> e \in At(NoTurn))
      BY <2>1, <2>3, <2>5
    <3>2. \A q \in Places : \A e : e.of = c => (e \in At(q)' <=> e \in At(q))
      BY <2>1, <2>5, <3>1 DEF Others
    <3> QED BY <2>1, <2>2, <3>2, StillOnce
  <2> QED BY <2>4, <2>5
<1>3. ASSUME TakeQueued(t) PROVE Once(c)'
  <2>1. UNCHANGED <<arrived, heard>> /\ raced \subseteq raced' /\ Others({})
    BY <1>3, TakeEffect
  <2>2. PICK X \in SUBSET At(NoTurn) :
           /\ \A e \in X : MainThread(e)
           /\ drain' = [drain EXCEPT ![t] = X]
           /\ Raced(X)
    BY <1>3, TakeEffect
  <2>3. Once(c)
    BY <2>1 DEF OnceEach
  <2>4. Queued' = Queued /\ Queued = At(NoTurn)
    BY <2>1, PlacesAre DEF Others
  <2>5. drain'[t] = X /\ \A u \in Turns : u # t => drain'[u] = drain[u]
    BY <2>2 DEF QueueTypes
  <2>6. Nowhere(c)' <=> Nowhere(c)
    BY <2>1 DEF Nowhere, Others
  <2>7. Single(c)'
    BY <2>1, <2>3 DEF Once, Single, Others
  <2>8. Drains(c)'
    <3>1. CASE c \in Named(X)
      <4>1. \A u \in Turns : \A e \in drain'[u] : e.of = c => u = t
        BY <2>2, <2>5, <3>1 DEF Raced, Undrained
      <4> QED BY <2>2, <2>4, <2>5, <4>1 DEF Drains
    <3>2. CASE c \notin Named(X)
      <4>1. \A u \in Turns : \A e \in drain'[u] : e.of = c => u # t /\ e \in drain[u]
        BY <2>5, <3>2 DEF Named
      <4>2. Drains(c)
        BY <2>3 DEF Once
      <4> QED BY <2>4, <4>1, <4>2 DEF Drains
    <3> QED BY <3>1, <3>2
  <2> QED BY <2>1, <2>3, <2>6, <2>7, <2>8 DEF Once
<1>4. ASSUME Attach(t) PROVE Once(c)'
  <2>1. /\ UNCHANGED <<arrived, raced>>
        /\ Takes(NoTurn, drain[t]) /\ Others({NoTurn})
        /\ drain' = [drain EXCEPT ![t] = {}]
        /\ Fate(Named(drain[t]))
    BY <1>4, AttachEffect
  <2>2. Once(c)
    BY <2>1 DEF OnceEach
  <2>3. drain'[t] = {} /\ \A u \in Turns : u # t => drain'[u] = drain[u]
    BY <2>1 DEF QueueTypes
  <2>4. CASE heard'[c] # heard[c]
    <3>4. c \in Named(drain[t]) /\ heard'[c] = heard[c] + 1
      BY <2>1, <2>4, HeardMore DEF Fate
    <3>1. PICK e \in drain[t] : e.of = c
      BY <3>4 DEF Named
    <3>2. /\ e \in At(NoTurn)
          /\ \A u \in Turns : \A f \in drain[u] : f.of = c => u = t
      BY <2>2, <3>1, PlacesAre DEF Once, Drains
    <3>3. heard[c] = 0 /\ c \in arrived
      BY <1>0, <2>2, <3>1, <3>2, NotThere DEF Nowhere
    <3>5. Nowhere(c)'
      BY <1>0, <2>1, <2>2, <3>1, <3>2 DEF Nowhere, Once, Single, Takes, Others
    <3>6. \A u \in Turns : \A f \in drain'[u] : f.of # c
      BY <2>3, <3>2
    <3>7. Undrained(c)'
      BY <3>6 DEF Undrained
    <3> QED BY <2>1, <3>3, <3>4, <3>5, <3>7, HeardOnceNow
  <2>5. CASE heard'[c] = heard[c]
    <3>2. \A p \in Places : \A e \in At(p)' : e.of = c => e \in At(p)
      BY <2>1 DEF Takes, Others
    <3>3. \A u \in Turns : \A e \in drain'[u] : e.of = c => e \in drain[u] /\ e \in Queued'
      BY <2>1, <2>2, <2>3, PlacesAre DEF Once, Drains, Takes
    <3> QED BY <2>1, <2>2, <2>5, <3>2, <3>3, LessOnce
  <2> QED BY <2>4, <2>5
<1>5. ASSUME Finish(t) PROVE Once(c)'
  <2>1. UNCHANGED <<arrived, drain, heard, raced>> /\ Others({})
    BY <1>5, QuietEffect
  <2>2. \A p \in Places : \A e : e.of = c => (e \in At(p)' <=> e \in At(p))
    BY <2>1 DEF Others
  <2> QED BY <2>1, <2>2, StillOnce DEF OnceEach
<1> QED BY <1>1, <1>2, <1>3, <1>4, <1>5 DEF Turn

LEMMA NextOnce ==
  ASSUME IInv, QueueTypes, OnceEach, [Next]_vars
  PROVE  OnceEach'
<1> SUFFICES ASSUME NEW c \in Commands \ raced' PROVE Once(c)'
  BY DEF OnceEach
<1>1. CASE \E d \in Commands :
              Submit(d) \/ Notify(d) \/ IncomingPrompt(d) \/ KillAgents(d)
  BY <1>1, CommandOnce
<1>2. CASE \E t \in Turns : Turn(t)
  BY <1>2, TurnOnce
<1>3. CASE ProcessQueue \/ SubagentTakes \/ PopEditable
  BY <1>3, OtherOnce
<1>4. CASE Cancel \/ UNCHANGED vars
  <2>1. UNCHANGED <<arrived, drain, heard, raced>> /\ Others({})
    BY <1>4, QuietEffect
  <2>2. \A p \in Places : \A e : e.of = c => (e \in At(p)' <=> e \in At(p))
    BY <2>1 DEF Others
  <2> QED BY <2>1, <2>2, StillOnce DEF OnceEach
<1> QED BY <1>1, <1>2, <1>3, <1>4 DEF Next

-----------------------------------------------------------------------------
LEMMA InitQueue == Init => QInv
<1> SUFFICES ASSUME Init PROVE QInv
  OBVIOUS
<1>1. NothingLost
  BY DEF Init, NothingLost
<1>2. \A p \in Places : At(p) = {}
  BY DEF Init, At, Held, Queued, Elements, Places
<1>3. \A t \in Turns : drain[t] = {}
  BY DEF Init
<1>4. \A c \in Commands : heard[c] = 0
  BY DEF Init
<1>5. OnceEach
  BY <1>2, <1>3, <1>4 DEF OnceEach, Once, Nowhere, Single, Drains
<1> QED BY <1>1, <1>5, InitInv, InitTyped DEF QInv

LEMMA NextQueue == QInv /\ [Next]_vars => QInv'
BY NextInv, NextTyped, NextKeeps, NextOnce DEF QInv

(* The guard, the queue and the turns keep their types. *)
THEOREM TypesAlways == Spec => []TypeOK
<1>1. QInv => TypeOK
  BY DEF QInv, IInv, GuardTypes, QueueTypes, TypeOK, Stages
<1> QED BY InitQueue, NextQueue, <1>1, PTL DEF Spec

(* A command that was handed in is waiting, was put to the model, went     *)
(* back to the input box, or was done or discarded on purpose: none is     *)
(* lost between the queue, a turn that cannot start and a cancelled turn,  *)
(* and only an error, of an input or of the attachments, loses any.        *)
THEOREM NothingIsLost == Spec => []NothingLost
<1>1. QInv => NothingLost
  BY DEF QInv
<1> QED BY InitQueue, NextQueue, <1>1, PTL DEF Spec

(* Only a command that left the queue by another way while a turn attached *)
(* it can be put to the model twice, or be put to it and wait still.       *)
THEOREM HeardAtMostOnce == Spec => []HeardOnce
<1>1. QInv => HeardOnce
  BY WaitingIs DEF QInv, OnceEach, Once, HeardOnce
<1> QED BY InitQueue, NextQueue, <1>1, PTL DEF Spec
==============================================================================
