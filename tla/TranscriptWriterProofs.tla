----------------------- MODULE TranscriptWriterProofs -------------------------
(***************************************************************************)
(* For any number of entries, files, timer callbacks, flushes and          *)
(* removals: nothing that waits in a queue of the transcript writer is     *)
(* forgotten; nothing is lost, written twice or out of order; what was     *)
(* removed stays away; and a flush covers what was handed in before it.    *)
(* The order of the file is that of the queues, so most of the module is   *)
(* about what the steps do to both together.                               *)
(***************************************************************************)
EXTENDS TranscriptWriter, FiniteSetTheorems, WellFoundedInduction, TLAPS

Types ==
    /\ queue \in [Files -> Seq(Inserts)]
    /\ since \in [Files -> Nat]
    /\ timer \in BOOLEAN
    /\ activeDrain \in Timers \cup {None}
    /\ stage \in [Drains -> Stages]
    /\ passed \in [Drains -> SUBSET Files]
    /\ accepted \in Seq(Inserts)
    /\ failures \in Nat

\* A queue with entries is in the map.
Keyed == \A f \in Files : queue[f] # <<>> => since[f] # 0

\* The keys came into the map one after the other.
Ordered ==
    /\ \A f \in Files : since[f] <= Len(accepted)
    /\ \A f, g \in Files : since[f] = since[g] /\ since[f] # 0 => f = g

\* Only a drain under way has passed a key, and one has failed only if it counts.
IdleStartsOver == \A d \in Drains : ~Busy(d) => passed[d] = {}
FailedCounts == \A d \in Drains : stage[d] = "failed" => failures # 0

IInv == Types /\ Keyed /\ Ordered /\ IdleStartsOver /\ FailedCounts /\ NeverStranded

-----------------------------------------------------------------------------
(* The first key of the map that an iteration has not passed *)

\* Less-than is well-founded on the natural numbers.
LEMMA LessIsWellFounded ==
  \E R : IsWellFoundedOn(R, Nat) /\ \A x, y \in Nat : y < x => <<y, x>> \in R
<1> DEFINE R == OpToRel(<, Nat)
<1>1. IsWellFoundedOn(R, Nat)
  BY NatLessThanWellFounded
<1>2. \A x, y \in Nat : y < x => <<y, x>> \in R
  BY Zenon DEF OpToRel
<1> HIDE DEF R
<1> QED BY <1>1, <1>2, Zenon

\* A set of natural numbers that is not empty has a smallest member.
LEMMA SmallestOf ==
  ASSUME NEW T \in SUBSET Nat, T # {}
  PROVE  \E x \in T : \A y \in T : x <= y
<1>1. PICK R : IsWellFoundedOn(R, Nat) /\ \A x, y \in Nat : y < x => <<y, x>> \in R
  BY LessIsWellFounded
<1>2. \E x \in T : \A y \in T : ~ (<<y, x>> \in R)
  BY <1>1, WFMin
<1>3. PICK x \in T : \A y \in T : ~ (<<y, x>> \in R)
  BY <1>2
<1>4. ASSUME NEW y \in T PROVE x <= y
  <2>1. ~ (y < x)
    BY <1>1, <1>3, Zenon
  <2> QED BY <2>1
<1> QED BY <1>4

\* NextKey is the oldest key that waits.
LEMMA NextKeyWaits ==
  ASSUME Types, NEW d \in Drains, Waiting(d) # {}
  PROVE  /\ NextKey(d) \in Waiting(d)
         /\ \A g \in Waiting(d) : since[NextKey(d)] <= since[g]
<1> DEFINE T == {since[g] : g \in Waiting(d)}
<1>1. T \in SUBSET Nat /\ T # {}
  <2>1. \A g \in Waiting(d) : since[g] \in Nat
    BY DEF Types, Waiting, Keys
  <2> QED BY <2>1
<1>2. PICK x \in T : \A y \in T : x <= y
  BY <1>1, SmallestOf
<1>3. PICK f \in Waiting(d) : since[f] = x
  BY <1>2
<1>4. \A g \in Waiting(d) : since[f] <= since[g]
  BY <1>2, <1>3
<1> QED BY <1>3, <1>4 DEF NextKey

-----------------------------------------------------------------------------
(* What a drain does up to its next await *)

\* What the drain leaves in a queue still has somebody to drain it.
Watched(d, set) == failures = 0 => \A f \in Files :
    queue[f] # <<>> => set \/ f \notin passed[d] \/ \E w \in Drains : WillDrain(w, f)

LEMMA TakeKeeps ==
  ASSUME IInv, NEW d \in Drains, NEW set \in BOOLEAN, NEW active \in Timers \cup {None},
         Watched(d, set), Take(d, set, active), UNCHANGED <<accepted, failures>>
  PROVE  IInv'
<1> DEFINE f == NextKey(d)
<1>1. f \in Waiting(d) /\ \A g \in Waiting(d) : since[f] <= since[g]
  BY NextKeyWaits DEF Take, IInv
<1> USE DEF IInv, Drains
<1>2. f \in Files /\ since[f] # 0 /\ queue[f] # <<>> /\ f \notin passed[d]
  BY <1>1 DEF Waiting, Keys
<1>3. /\ queue' = [queue EXCEPT ![f] = <<>>]
      /\ stage' = [stage EXCEPT ![d] = "appending"]
      /\ passed' = [passed EXCEPT ![d] = @ \cup {g \in Keys : since[g] <= since[f]}]
      /\ timer' = set /\ activeDrain' = active /\ since' = since
  BY DEF Take, Emptied
<1> HIDE DEF f
<1>4. Types'
  BY <1>2, <1>3 DEF Types, Stages, Keys
<1>5. Keyed' /\ Ordered'
  BY <1>2, <1>3 DEF Types, Keyed, Ordered
<1>6. IdleStartsOver' /\ FailedCounts'
  BY <1>2, <1>3 DEF Types, IdleStartsOver, FailedCounts, Busy
<1>7. NeverStranded'
  <2> SUFFICES ASSUME failures = 0, NEW g \in Files, queue'[g] # <<>>
               PROVE  timer' \/ \E w \in Drains : WillDrain(w, g)'
    BY DEF NeverStranded
  <2>1. g # f /\ queue[g] # <<>>
    BY <1>2, <1>3 DEF Types
  <2>2. CASE g \notin passed[d]
    <3>1. since[f] < since[g]
      BY <1>1, <1>2, <2>1, <2>2 DEF Waiting, Keys, Keyed, Ordered, Types
    <3>2. g \notin passed'[d]
      BY <1>2, <1>3, <2>2, <3>1 DEF Types
    <3> QED BY <1>3, <3>2 DEF WillDrain, Busy, Types
  <2>3. CASE set
    BY <1>3, <2>3
  <2>4. CASE g \in passed[d] /\ \E w \in Drains : WillDrain(w, g)
    <3>1. PICK w \in Drains : WillDrain(w, g)
      BY <2>4
    <3>2. w # d
      BY <2>4, <3>1 DEF WillDrain, IdleStartsOver, Busy
    <3>3. stage'[w] = stage[w] /\ passed'[w] = passed[w]
      BY <1>3, <3>2 DEF Types
    <3> QED BY <3>1, <3>3 DEF WillDrain, Busy
  <2> QED BY <2>1, <2>2, <2>3, <2>4 DEF Watched
<1> QED BY <1>4, <1>5, <1>6, <1>7

LEMMA FinishKeeps ==
  ASSUME IInv, NEW d \in Drains, NEW set \in BOOLEAN, NEW active \in Timers \cup {None},
         Watched(d, set), Finish(d, set, active), UNCHANGED <<accepted, failures>>
  PROVE  IInv'
<1> USE DEF IInv, Drains
<1>1. /\ queue' = queue
      /\ since' = [g \in Files |-> IF queue[g] = <<>> THEN 0 ELSE since[g]]
      /\ stage' = [stage EXCEPT ![d] = EndOf(d)]
      /\ passed' = [w \in Drains |->
            IF w = d THEN {} ELSE passed[w] \cap {g \in Files : queue[g] # <<>>}]
      /\ timer' \in BOOLEAN /\ (set => timer')
      /\ activeDrain' \in Timers \cup {None}
  BY DEF Finish, Left
<1>2. EndOf(d) \in {"counting", "done"}
  BY DEF EndOf
<1>3. Types'
  BY <1>1, <1>2 DEF Types, Stages
<1>4. Keyed' /\ Ordered'
  BY <1>1 DEF Types, Keyed, Ordered
<1>5. IdleStartsOver' /\ FailedCounts'
  BY <1>1, <1>2 DEF Types, IdleStartsOver, FailedCounts, Busy
<1>6. NeverStranded'
  <2> SUFFICES ASSUME failures = 0, NEW g \in Files, queue[g] # <<>>
               PROVE  timer' \/ \E w \in Drains : WillDrain(w, g)'
    BY <1>1 DEF NeverStranded
  <2>1. g \in passed[d]
    BY DEF Finish, Waiting, Keys, Keyed
  <2>2. CASE set
    BY <1>1, <2>2
  <2>3. CASE \E w \in Drains : WillDrain(w, g)
    <3>1. PICK w \in Drains : WillDrain(w, g)
      BY <2>3
    <3>2. w # d
      BY <2>1, <3>1 DEF WillDrain, IdleStartsOver, Busy
    <3>3. stage'[w] = stage[w] /\ (g \in passed'[w] => g \in passed[w])
      BY <1>1, <3>2 DEF Types
    <3> QED BY <3>1, <3>3 DEF WillDrain, Busy
  <2> QED BY <2>1, <2>2, <2>3 DEF Watched
<1> QED BY <1>3, <1>4, <1>5, <1>6

LEMMA DrainKeeps ==
  ASSUME IInv, NEW d \in Drains, NEW set \in BOOLEAN, NEW active \in Timers \cup {None},
         Watched(d, set), Drain(d, set, active), UNCHANGED <<accepted, failures>>
  PROVE  IInv'
BY TakeKeeps, FinishKeeps DEF Drain

\* A drain that begins watches all queues, one that goes on leaves none alone.
LEMMA BeginWatches ==
  ASSUME IInv, NEW d \in Drains, NEW set \in BOOLEAN, ~Busy(d)
  PROVE  Watched(d, set)
BY DEF IInv, IdleStartsOver, Watched

LEMMA GoingOnWatches ==
  ASSUME IInv, NEW d \in Drains
  PROVE  Watched(d, timer)
BY DEF IInv, NeverStranded, Watched

-----------------------------------------------------------------------------
(* The steps *)

LEMMA InitInv == Init => IInv
<1> SUFFICES ASSUME Init PROVE IInv
  OBVIOUS
<1>1. Types
  <2>1. /\ [f \in Files |-> <<>>] \in [Files -> Seq(Inserts)]
        /\ [f \in Files |-> 0] \in [Files -> Nat]
    OBVIOUS
  <2>2. [d \in Drains |-> "idle"] \in [Drains -> Stages]
    BY DEF Stages
  <2>3. [d \in Drains |-> {}] \in [Drains -> SUBSET Files]
    OBVIOUS
  <2>4. <<>> \in Seq(Inserts)
    OBVIOUS
  <2> QED BY <2>1, <2>2, <2>3, <2>4 DEF Init, Types
<1>2. Keyed /\ Ordered /\ IdleStartsOver /\ FailedCounts /\ NeverStranded
  BY DEF Init, Keyed, Ordered, IdleStartsOver, FailedCounts, NeverStranded
<1> QED BY <1>1, <1>2 DEF IInv

\* Whoever queues an entry leaves a timer.
LEMMA EnqueueKeeps ==
  ASSUME IInv, NEW c \in Inserts, EnqueueWrite(c),
         \A d \in Drains : stage'[d] = stage[d] \/ (stage[d] = "counting" /\ stage'[d] = "done"),
         stage' \in [Drains -> Stages],
         UNCHANGED <<activeDrain, passed, failures>>
  PROVE  IInv'
<1> DEFINE f == FileOf[c]
<1>1. f \in Files
  BY TranscriptAssumption
<1>2. /\ queue' = [queue EXCEPT ![f] = Append(@, c)]
      /\ since' = [since EXCEPT ![f] = IF @ = 0 THEN Len(accepted) + 1 ELSE @]
      /\ timer' = TRUE /\ accepted' = Append(accepted, c)
  BY DEF EnqueueWrite
<1> HIDE DEF f
<1>3. Types'
  BY <1>1, <1>2 DEF IInv, Types
<1>4. Keyed' /\ Ordered'
  BY <1>1, <1>2 DEF IInv, Types, Keyed, Ordered
<1>5. IdleStartsOver' /\ FailedCounts'
  BY DEF IInv, IdleStartsOver, FailedCounts, Busy
<1>6. NeverStranded'
  BY <1>2 DEF NeverStranded
<1> QED BY <1>3, <1>4, <1>5, <1>6 DEF IInv

\* The end of a tracked operation lets a flush return, and nothing else.
LEMMA ResolvedKeeps ==
  ASSUME Types, NEW ins, NEW rem
  PROVE  /\ Resolved(ins, rem) \in [Drains -> Stages]
         /\ \A d \in Drains : \/ Resolved(ins, rem)[d] = stage[d]
                              \/ stage[d] = "counting" /\ Resolved(ins, rem)[d] = "done"
<1>1. CASE Pending(ins, rem)
  BY <1>1 DEF Types, Resolved
<1>2. CASE ~Pending(ins, rem)
  BY <1>2 DEF Types, Resolved, Stages
<1> QED BY <1>1, <1>2

\* A step that touches none of this but the stages of waiting flushes.
LEMMA QuietKeeps ==
  ASSUME IInv, stage' \in [Drains -> Stages],
         \A d \in Drains : stage'[d] = stage[d] \/ (stage[d] = "counting" /\ stage'[d] = "done"),
         UNCHANGED <<queue, since, timer, activeDrain, passed, accepted, failures>>
  PROVE  IInv'
<1>1. Types' /\ Keyed' /\ Ordered'
  BY DEF IInv, Types, Keyed, Ordered
<1>2. IdleStartsOver' /\ FailedCounts'
  BY DEF IInv, IdleStartsOver, FailedCounts, Busy
<1>3. NeverStranded'
  BY DEF IInv, NeverStranded, WillDrain, Busy
<1> QED BY <1>1, <1>2, <1>3 DEF IInv

\* What stays as it is keeps its type.
LEMMA SameStages ==
  ASSUME Types, stage' = stage
  PROVE  /\ stage' \in [Drains -> Stages]
         /\ \A d \in Drains : stage'[d] = stage[d]
BY DEF Types

LEMMA InsertStepKeeps ==
  ASSUME IInv, NEW c \in Inserts, InsertStep(c)
  PROVE  IInv'
<1> USE DEF IInv
<1>1. CASE InsertEntry(c)
  BY <1>1, EnqueueKeeps, SameStages DEF InsertEntry, drains
<1>2. CASE InsertMessage(c)
  BY <1>2, QuietKeeps, SameStages DEF InsertMessage, queues, drains, ghosts
<1>3. CASE AppendMessage(c)
  <2>1. /\ stage' \in [Drains -> Stages]
        /\ \A d \in Drains : stage'[d] = stage[d] \/ (stage[d] = "counting" /\ stage'[d] = "done")
    BY <1>3, ResolvedKeeps DEF AppendMessage
  <2>2. CASE EnqueueWrite(c)
    BY <1>3, <2>1, <2>2, EnqueueKeeps DEF AppendMessage
  <2>3. CASE UNCHANGED <<queue, since, timer, messageSet, accepted>>
    BY <1>3, <2>1, <2>3, QuietKeeps DEF AppendMessage
  <2> QED BY <1>3, <2>2, <2>3 DEF AppendMessage
<1> QED BY <1>1, <1>2, <1>3 DEF InsertStep

LEMMA FireKeeps ==
  ASSUME IInv, NEW d \in Timers, Fire(d)
  PROVE  IInv'
<1>1. d \in Drains /\ ~Busy(d)
  BY DEF Fire, Unused, Busy, Drains
<1> QED BY <1>1, BeginWatches, DrainKeeps DEF Fire

LEMMA DrainStepKeeps ==
  ASSUME IInv, NEW d \in Drains, DrainStep(d)
  PROVE  IInv'
<1> USE DEF IInv
<1>1. CASE AppendToFile(d)
  <2>1. /\ stage[d] = "appending" /\ stage' = [stage EXCEPT ![d] = "appended"]
        /\ UNCHANGED <<queue, since, timer, activeDrain, passed, accepted, failures>>
    BY <1>1 DEF AppendToFile, queues
  <2>2. Types' /\ Keyed' /\ Ordered'
    BY <2>1 DEF Types, Stages, Keyed, Ordered
  <2>3. IdleStartsOver' /\ FailedCounts' /\ NeverStranded'
    BY <2>1 DEF Types, IdleStartsOver, FailedCounts, NeverStranded, WillDrain, Busy
  <2> QED BY <2>2, <2>3
<1>2. CASE Fail(d)
  <2>1. /\ stage' = [w \in Drains |->
                       IF w = d \/ (stage[w] = "awaiting" /\ awaited[w] = d)
                       THEN "failed" ELSE stage[w]]
        /\ passed' = [passed EXCEPT ![d] = {}]
        /\ failures' = failures + 1
        /\ UNCHANGED <<queue, since, timer, activeDrain, accepted>>
    BY <1>2 DEF Fail, queues
  <2>2. failures' # 0
    BY <2>1 DEF Types
  <2>3. Types' /\ Keyed' /\ Ordered'
    BY <2>1 DEF Types, Stages, Keyed, Ordered
  <2>4. IdleStartsOver' /\ FailedCounts' /\ NeverStranded'
    BY <2>1, <2>2 DEF Types, IdleStartsOver, FailedCounts, NeverStranded, Busy
  <2> QED BY <2>3, <2>4
<1>3. CASE Continue(d)
  <2>1. timer \in BOOLEAN /\ activeDrain \in Timers \cup {None}
    BY DEF Types
  <2> QED BY <1>3, <2>1, GoingOnWatches, DrainKeeps DEF Continue
<1> QED BY <1>1, <1>2, <1>3 DEF DrainStep

LEMMA FlushStepKeeps ==
  ASSUME IInv, NEW w \in Flushes, FlushStep(w)
  PROVE  IInv'
<1> USE DEF IInv
<1>1. w \in Drains /\ timer \in BOOLEAN /\ activeDrain \in Timers \cup {None}
  BY DEF Types, Drains
<1>2. CASE Flush(w) /\ FlushNow(w)
  <2>1. ~Busy(w)
    BY <1>2 DEF Flush, Busy
  <2> QED BY <1>1, <1>2, <2>1, BeginWatches, DrainKeeps DEF Flush, FlushNow
<1>3. CASE Flush(w) /\ FlushAwaits(w)
  <2>1. /\ stage[w] = "idle" /\ activeDrain \in Drains
        /\ stage' = [stage EXCEPT ![w] =
                       IF stage[activeDrain] = "failed" THEN "failed" ELSE "awaiting"]
        /\ timer' = FALSE
        /\ UNCHANGED <<queue, since, activeDrain, passed, accepted, failures>>
    BY <1>1, <1>3 DEF Flush, FlushAwaits, MustWait, Drains
  <2>2. Types' /\ Keyed' /\ Ordered'
    BY <1>1, <2>1 DEF Types, Stages, Keyed, Ordered
  <2>3. IdleStartsOver' /\ FailedCounts'
    BY <1>1, <2>1 DEF Types, IdleStartsOver, FailedCounts, Busy
  <2>4. NeverStranded'
    BY <1>1, <2>1 DEF Types, FailedCounts, NeverStranded, WillDrain
  <2> QED BY <2>2, <2>3, <2>4
<1>4. CASE FlushResumes(w)
  <2>1. ~Busy(w)
    BY <1>4 DEF FlushResumes, Busy
  <2> QED BY <1>1, <1>4, <2>1, BeginWatches, DrainKeeps DEF FlushResumes
<1> QED BY <1>2, <1>3, <1>4 DEF FlushStep, Flush

LEMMA RemovalStepKeeps ==
  ASSUME IInv, NEW r \in Removals, RemovalStep(r)
  PROVE  IInv'
<1> USE DEF IInv
<1>1. UNCHANGED <<queue, since, timer, activeDrain, passed, accepted, failures>>
  BY DEF RemovalStep, Ask, Read, ReadAll, Cut, WriteBack, queues, drains, ghosts
<1>2. stage' = stage \/ EndRemoval(r)
  BY DEF RemovalStep, Ask, Read, ReadAll, Cut, WriteBack, drains
<1>3. /\ stage' \in [Drains -> Stages]
      /\ \A d \in Drains : stage'[d] = stage[d] \/ (stage[d] = "counting" /\ stage'[d] = "done")
  BY <1>2, ResolvedKeeps, SameStages DEF EndRemoval
<1> QED BY <1>1, <1>3, QuietKeeps

LEMMA NextKeeps == IInv /\ [Next]_vars => IInv'
<1> SUFFICES ASSUME IInv, [Next]_vars PROVE IInv'
  OBVIOUS
<1>1. CASE UNCHANGED vars
  BY <1>1, QuietKeeps, SameStages DEF IInv, vars, queues, drains, ghosts
<1>2. CASE Next
  BY <1>2, InsertStepKeeps, FireKeeps, DrainStepKeeps, FlushStepKeeps, RemovalStepKeeps
     DEF Next
<1> QED BY <1>1, <1>2

\* What waits in a queue always has somebody to drain it, whatever is queued,
\* flushed and removed meanwhile, as long as no append has failed.
THEOREM NothingStranded == Spec => []NeverStranded
<1>1. IInv => NeverStranded
  BY DEF IInv
<1> QED BY InitInv, NextKeeps, <1>1, PTL DEF Spec

-----------------------------------------------------------------------------
(* What a removal leaves *)

\* t is s without the message m: all of s but that is in it, in its order, and
\* what of the message is left was in s twice.
Thinned(t, s, m) ==
    \E g \in [DOMAIN t -> DOMAIN s] :
        /\ \A i, j \in DOMAIN t : i < j => g[i] < g[j]
        /\ \A i \in DOMAIN t : t[i] = s[g[i]]
        /\ \A p \in DOMAIN s : ~Is(s[p], m) => \E i \in DOMAIN t : g[i] = p
        /\ \A i \in DOMAIN t : Is(t[i], m) => \E p \in DOMAIN s : p # g[i] /\ Is(s[p], m)

\* The places of a set have the ranks 1, 2, 3 ... in their order.
LEMMA RankOf ==
  ASSUME NEW I \in SUBSET Nat, IsFiniteSet(I)
  PROVE  /\ \A i \in I : Rank(I, i) \in 1..Cardinality(I)
         /\ \A i, j \in I : i < j => Rank(I, i) < Rank(I, j)
<1>1. ASSUME NEW i \in I
      PROVE  /\ IsFiniteSet({k \in I : k <= i})
             /\ Cardinality({k \in I : k <= i}) \in 1..Cardinality(I)
  <2> DEFINE B == {k \in I : k <= i}
  <2>1. B \in SUBSET I /\ i \in B
    OBVIOUS
  <2> HIDE DEF B
  <2>2. IsFiniteSet(B) /\ Cardinality(B) <= Cardinality(I)
    BY <2>1, FS_Subset
  <2>3. Cardinality(B) \in Nat /\ Cardinality(I) \in Nat /\ Cardinality(B) # 0
    BY <2>1, <2>2, FS_CardinalityType, FS_EmptySet
  <2>4. Cardinality(B) \in 1..Cardinality(I)
    BY <2>2, <2>3
  <2> QED BY <2>2, <2>4 DEF B
<1>2. ASSUME NEW i \in I, NEW j \in I, i < j
      PROVE  Rank(I, i) < Rank(I, j)
  <2> DEFINE A == {k \in I : k <= i}
             B == {k \in I : k <= j}
  <2>1. A \in SUBSET B /\ j \in B /\ j \notin A
    <3>1. i \in Nat /\ j \in Nat /\ \A k \in I : k \in Nat
      OBVIOUS
    <3>2. \A k \in I : k <= i => k <= j
      BY <1>2, <3>1
    <3>3. j <= j /\ ~(j <= i)
      BY <1>2, <3>1
    <3> QED BY <3>2, <3>3
  <2>2. IsFiniteSet(A) /\ IsFiniteSet(B)
    <3>1. IsFiniteSet(A)
      BY <1>1
    <3>2. IsFiniteSet(B)
      BY <1>1
    <3> QED BY <3>1, <3>2
  <2> HIDE DEF A, B
  <2>3. Cardinality(A) <= Cardinality(B) /\ Cardinality(A) # Cardinality(B)
    BY <2>1, <2>2, FS_Subset
  <2>4. Cardinality(A) < Cardinality(B)
    BY <2>2, <2>3, FS_CardinalityType
  <2> QED BY <2>4 DEF A, B, Rank
<1> QED BY <1>1, <1>2 DEF Rank

\* Nth is the inverse of Rank.
LEMMA NthOf ==
  ASSUME NEW I \in SUBSET Nat, IsFiniteSet(I)
  PROVE  /\ \A k \in 1..Cardinality(I) : Nth(I, k) \in I /\ Rank(I, Nth(I, k)) = k
         /\ \A i \in I : Rank(I, i) \in 1..Cardinality(I) /\ Nth(I, Rank(I, i)) = i
<1> DEFINE n == Cardinality(I)
           f == [i \in I |-> Rank(I, i)]
<1>0. n \in Nat
  BY FS_CardinalityType
<1>1. f \in [I -> 1..n]
  BY RankOf
<1>2. \A i, j \in I : Rank(I, i) = Rank(I, j) => i = j
  <2> SUFFICES ASSUME NEW i \in I, NEW j \in I, Rank(I, i) = Rank(I, j), i # j PROVE FALSE
    OBVIOUS
  <2>1. Rank(I, i) \in Int /\ (i < j \/ j < i)
    BY <1>0, RankOf
  <2> QED BY <2>1, RankOf
<1>3. f \in Injection(I, 1..n)
  BY <1>1, <1>2 DEF Injection, IsInjective
<1>4. IsFiniteSet(1..n) /\ Cardinality(1..n) = n
  BY <1>0, FS_Interval
<1>5. f \in Surjection(I, 1..n)
  <2> HIDE DEF f
  <2> QED BY <1>3, <1>4, FS_Injection
<1>6. ASSUME NEW k \in 1..n PROVE \E i \in I : Rank(I, i) = k
  BY <1>5, <1>6 DEF Surjection
<1>7. ASSUME NEW k \in 1..n PROVE Nth(I, k) \in I /\ Rank(I, Nth(I, k)) = k
  BY <1>6, <1>7 DEF Nth
<1>8. \A i \in I : Rank(I, i) \in 1..n
  BY RankOf
<1>9. \A i \in I : Nth(I, Rank(I, i)) = i
  BY <1>2, <1>7, <1>8
<1> QED BY <1>7, <1>8, <1>9

\* The filter of the long way leaves out the message.
LEMMA OthersThin ==
  ASSUME NEW S, NEW s \in Seq(S), NEW r \in Removals
  PROVE  Others(s, r) \in Seq(S) /\ Thinned(Others(s, r), s, Target[r])
<1> DEFINE I == DOMAIN s \ Places(s, r)
           n == Cardinality(I)
           t == Others(s, r)
           g == [k \in 1..n |-> Nth(I, k)]
<1>1. I \in SUBSET Nat /\ IsFiniteSet(I) /\ I \in SUBSET DOMAIN s
  <2>1. Len(s) \in Nat /\ DOMAIN s = 1..Len(s)
    OBVIOUS
  <2>2. IsFiniteSet(1..Len(s))
    BY <2>1, FS_Interval
  <2> QED BY <2>1, <2>2, FS_Subset
<1>2. n \in Nat
  BY <1>1, FS_CardinalityType
<1>3. t = [k \in 1..n |-> s[Nth(I, k)]]
  BY DEF Others, Selected
<1>4. \A p \in DOMAIN s : p \in I <=> ~Is(s[p], Target[r])
  BY DEF Places
<1> HIDE DEF I, t
<1>5. /\ \A k \in 1..n : Nth(I, k) \in I /\ Rank(I, Nth(I, k)) = k
      /\ \A i \in I : Rank(I, i) \in 1..n /\ Nth(I, Rank(I, i)) = i
  BY <1>1, NthOf
<1> HIDE DEF n
<1>6. \A k \in 1..n : Nth(I, k) \in DOMAIN s /\ s[Nth(I, k)] \in S
  <2>1. \A k \in 1..n : Nth(I, k) \in DOMAIN s
    BY <1>1, <1>5
  <2>2. \A i \in DOMAIN s : s[i] \in S
    OBVIOUS
  <2> QED BY <2>1, <2>2
<1>7. t \in Seq(S) /\ DOMAIN t = 1..n
  BY <1>2, <1>3, <1>6
<1>8. ASSUME NEW k \in 1..n, NEW l \in 1..n, k < l PROVE Nth(I, k) < Nth(I, l)
  <2>1. Nth(I, k) \in I /\ Nth(I, l) \in I /\ Rank(I, Nth(I, k)) = k /\ Rank(I, Nth(I, l)) = l
    BY <1>5
  <2>2. Nth(I, k) \in Nat /\ Nth(I, l) \in Nat /\ k \in Nat /\ l \in Nat
    <3>1. I \subseteq Nat
      BY <1>1
    <3>2. k \in Nat /\ l \in Nat
      BY <1>2
    <3> QED BY <2>1, <3>1, <3>2
  <2>3. CASE Nth(I, k) = Nth(I, l)
    BY <1>8, <2>1, <2>2, <2>3
  <2>4. CASE Nth(I, l) < Nth(I, k)
    <3>1. Rank(I, Nth(I, l)) < Rank(I, Nth(I, k))
      BY <1>1, <2>1, <2>4, RankOf
    <3> QED BY <1>8, <2>1, <2>2, <3>1
  <2> QED BY <2>2, <2>3, <2>4
<1>9. Thinned(t, s, Target[r])
  <2>1. g \in [DOMAIN t -> DOMAIN s]
    BY <1>6, <1>7
  <2>2. \A i, j \in DOMAIN t : i < j => g[i] < g[j]
    BY <1>7, <1>8
  <2>3. \A i \in DOMAIN t : t[i] = s[g[i]]
    BY <1>3, <1>7
  <2>4. \A p \in DOMAIN s : ~Is(s[p], Target[r]) => \E i \in DOMAIN t : g[i] = p
    BY <1>4, <1>5, <1>7
  <2>5. \A i \in DOMAIN t : ~Is(t[i], Target[r])
    BY <1>3, <1>4, <1>5, <1>6, <1>7
  <2> HIDE DEF g
  <2> QED BY <2>1, <2>2, <2>3, <2>4, <2>5, Zenon DEF Thinned
<1> QED BY <1>7, <1>9 DEF t

\* What is around the last place of the message is the file without that place.
LEMMA AroundThin ==
  ASSUME NEW S, NEW s \in Seq(S), NEW m, NEW p \in DOMAIN s, Is(s[p], m)
  PROVE  /\ SubSeq(s, 1, p - 1) \in Seq(S) /\ SubSeq(s, p + 1, Len(s)) \in Seq(S)
         /\ p - 1 \in Nat /\ p - 1 <= Len(s)
         /\ Thinned(SubSeq(s, 1, p - 1) \o SubSeq(s, p + 1, Len(s)), s, m)
<1> DEFINE a == SubSeq(s, 1, p - 1)
           b == SubSeq(s, p + 1, Len(s))
           t == a \o b
           g == [i \in DOMAIN t |-> IF i < p THEN i ELSE i + 1]
<1>1. p \in 1..Len(s) /\ Len(s) \in Nat
  OBVIOUS
<1>2. /\ a \in Seq(S) /\ Len(a) = p - 1
      /\ \A i \in 1..(p - 1) : a[i] = s[i]
  BY <1>1
<1>3. /\ b \in Seq(S) /\ Len(b) = Len(s) - p
      /\ \A i \in 1..(Len(s) - p) : b[i] = s[p + i]
  BY <1>1
<1> HIDE DEF a, b
<1>4. /\ DOMAIN t = 1..(Len(s) - 1)
      /\ \A i \in 1..(Len(s) - 1) : t[i] = IF i < p THEN s[i] ELSE s[i + 1]
  <2>1. Len(a) + Len(b) = Len(s) - 1
    BY <1>1, <1>2, <1>3
  <2>2. /\ DOMAIN t = 1..(Len(a) + Len(b))
        /\ \A i \in 1..(Len(a) + Len(b)) : t[i] = IF i <= Len(a) THEN a[i] ELSE b[i - Len(a)]
    BY <1>2, <1>3
  <2>3. ASSUME NEW i \in 1..(Len(s) - 1) PROVE t[i] = IF i < p THEN s[i] ELSE s[i + 1]
    <3>1. CASE i < p
      <4>1. i \in 1..(p - 1) /\ i <= Len(a) /\ i \in 1..(Len(a) + Len(b))
        BY <1>1, <1>2, <2>1, <3>1
      <4> QED BY <1>2, <2>2, <3>1, <4>1
    <3>2. CASE ~(i < p)
      <4>1. i - (p - 1) \in 1..(Len(s) - p) /\ p + (i - (p - 1)) = i + 1
        BY <1>1, <3>2
      <4>2. ~(i <= Len(a)) /\ i \in 1..(Len(a) + Len(b)) /\ i - Len(a) = i - (p - 1)
        BY <1>1, <1>2, <2>1, <3>2
      <4>3. t[i] = b[i - (p - 1)]
        BY <2>2, <4>2
      <4> QED BY <1>3, <3>2, <4>1, <4>3
    <3> QED BY <3>1, <3>2
  <2> QED BY <2>1, <2>2, <2>3
<1> HIDE DEF t
<1>5. g \in [DOMAIN t -> DOMAIN s]
  BY <1>1, <1>4
<1>6. \A i, j \in DOMAIN t : i < j => g[i] < g[j]
  BY <1>1, <1>4
<1>7. \A i \in DOMAIN t : t[i] = s[g[i]] /\ g[i] # p
  BY <1>1, <1>4
<1>8. ASSUME NEW q \in DOMAIN s, q # p PROVE \E i \in DOMAIN t : g[i] = q
  <2>1. CASE q < p
    <3>1. q \in DOMAIN t /\ g[q] = q
      BY <1>1, <1>4, <2>1
    <3> QED BY <3>1
  <2>2. CASE q > p
    <3>1. q - 1 \in DOMAIN t /\ g[q - 1] = q
      BY <1>1, <1>4, <2>2
    <3> QED BY <3>1
  <2> QED BY <1>1, <1>8, <2>1, <2>2
<1> HIDE DEF g
<1>9. Thinned(t, s, m)
  BY <1>5, <1>6, <1>7, <1>8, Zenon DEF Thinned
<1>10. p - 1 \in Nat /\ p - 1 <= Len(s)
  BY <1>1
<1> QED BY <1>2, <1>3, <1>9, <1>10 DEF t, a, b

-----------------------------------------------------------------------------
(* What the drains and the removals hold *)

RemovalStages == {"none", "begun", "looking", "read", "cut", "done"}

Holdings ==
    /\ inserting \in [Inserts -> {"none", "begun", "done"}]
    /\ batch \in [Drains -> Seq(Inserts)]
    /\ target \in [Drains -> Files]
    /\ file \in [Files -> Seq(Inserts \cup {Hole})]
    /\ removing \in [Removals -> RemovalStages]
    /\ found \in [Removals -> BOOLEAN]
    /\ keep \in [Removals -> Nat]
    /\ rest \in [Removals -> Seq(Inserts \cup {Hole})]
    /\ clash \in BOOLEAN

LEMMA InitHoldings == Init => Holdings
<1> SUFFICES ASSUME Init PROVE Holdings
  OBVIOUS
<1>1. <<>> \in Seq(Inserts) /\ <<>> \in Seq(Inserts \cup {Hole}) /\ 0 \in Nat /\ Main \in Files
  BY TranscriptAssumption
<1>2. /\ [c \in Inserts |-> "none"] \in [Inserts -> {"none", "begun", "done"}]
      /\ [r \in Removals |-> "none"] \in [Removals -> RemovalStages]
  BY DEF RemovalStages
<1>3. /\ [d \in Drains |-> <<>>] \in [Drains -> Seq(Inserts)]
      /\ [d \in Drains |-> Main] \in [Drains -> Files]
      /\ [f \in Files |-> <<>>] \in [Files -> Seq(Inserts \cup {Hole})]
  BY <1>1
<1>4. /\ [r \in Removals |-> 0] \in [Removals -> Nat]
      /\ [r \in Removals |-> FALSE] \in [Removals -> BOOLEAN]
      /\ [r \in Removals |-> <<>>] \in [Removals -> Seq(Inserts \cup {Hole})]
  BY <1>1
<1> QED BY <1>2, <1>3, <1>4 DEF Init, Holdings

\* What a drain does up to its next await concerns its queues and batches alone.
LEMMA DrainHoldings ==
  ASSUME Types, Holdings, NEW d \in Drains, NEW set, NEW active, Drain(d, set, active),
         UNCHANGED <<inserting, file, removing, found, keep, rest, clash>>
  PROVE  Holdings'
<1>1. CASE Take(d, set, active)
  <2> DEFINE f == NextKey(d)
  <2>1. f \in Files
    BY <1>1, NextKeyWaits DEF Take, Waiting, Keys
  <2>2. /\ batch' = [batch EXCEPT ![d] = queue[f]]
        /\ target' = [target EXCEPT ![d] = f]
    BY <1>1 DEF Take
  <2> HIDE DEF f
  <2> QED BY <2>1, <2>2 DEF Types, Holdings
<1>2. CASE Finish(d, set, active)
  BY <1>2 DEF Finish, Holdings
<1> QED BY <1>1, <1>2 DEF Drain

LEMMA TruncatedType ==
  ASSUME NEW s \in Seq(Inserts \cup {Hole}), NEW n \in Nat
  PROVE  Truncated(s, n) \in Seq(Inserts \cup {Hole})
<1>1. \A i \in 1..n : (IF i <= Len(s) THEN s[i] ELSE Hole) \in Inserts \cup {Hole}
  OBVIOUS
<1> QED BY <1>1 DEF Truncated

LEMMA OverwrittenType ==
  ASSUME NEW s \in Seq(Inserts \cup {Hole}), NEW n \in Nat, NEW t \in Seq(Inserts \cup {Hole})
  PROVE  Overwritten(s, n, t) \in Seq(Inserts \cup {Hole})
<1> DEFINE N == IF n + Len(t) > Len(s) THEN n + Len(t) ELSE Len(s)
<1>1. N \in Nat
  OBVIOUS
<1>2. \A i \in 1..N : (IF i > n /\ i <= n + Len(t) THEN t[i - n]
                       ELSE IF i <= Len(s) THEN s[i] ELSE Hole) \in Inserts \cup {Hole}
  OBVIOUS
<1> HIDE DEF N
<1>3. [i \in 1..N |-> IF i > n /\ i <= n + Len(t) THEN t[i - n]
                      ELSE IF i <= Len(s) THEN s[i] ELSE Hole] \in Seq(Inserts \cup {Hole})
  BY <1>1, <1>2
<1> QED BY <1>3 DEF N, Overwritten

\* A removal that looks at the end of the file finds the last place there.
LEMMA ReadHolds ==
  ASSUME Holdings, NEW r \in Removals, InWindow(file[Main], r)
  PROVE  LET s == file[Main]
             t == SubSeq(s, LastPlace(s, r) + 1, Len(s))
         IN  /\ LengthBefore(s, r) \in Nat /\ LengthBefore(s, r) <= Len(s)
             /\ t \in Seq(Inserts \cup {Hole})
             /\ Thinned(SubSeq(s, 1, LengthBefore(s, r)) \o t, s, Target[r])
<1> DEFINE s == file[Main]
           p == LastPlace(s, r)
           J == {Len(s) - i : i \in Places(s, r)}
<1>1. s \in Seq(Inserts \cup {Hole})
  BY TranscriptAssumption DEF Holdings
<1>2. Places(s, r) \in SUBSET DOMAIN s /\ Places(s, r) # {}
  BY DEF Places, InWindow
<1> HIDE DEF s
<1>3. J \in SUBSET Nat /\ J # {}
  BY <1>1, <1>2
<1>4. PICK x \in J : \A y \in J : x <= y
  BY <1>3, SmallestOf
<1>5. PICK i \in Places(s, r) : x = Len(s) - i
  BY <1>4
<1>6. \A j \in Places(s, r) : j <= i
  <2> SUFFICES ASSUME NEW j \in Places(s, r) PROVE j <= i
    OBVIOUS
  <2>1. Len(s) - i <= Len(s) - j
    BY <1>4, <1>5
  <2> QED BY <1>1, <1>2, <2>1
<1>7. p \in Places(s, r)
  BY <1>6 DEF LastPlace
<1> HIDE DEF p
<1>8. p \in DOMAIN s /\ Is(s[p], Target[r])
  BY <1>2, <1>7 DEF Places
<1> DEFINE T == Inserts \cup {Hole}
           m == Target[r]
<1>9. s \in Seq(T)
  BY <1>1
<1> HIDE DEF T, m
<1>10. /\ SubSeq(s, 1, p - 1) \in Seq(T) /\ SubSeq(s, p + 1, Len(s)) \in Seq(T)
       /\ p - 1 \in Nat /\ p - 1 <= Len(s)
       /\ Thinned(SubSeq(s, 1, p - 1) \o SubSeq(s, p + 1, Len(s)), s, m)
  <2>1. Is(s[p], m)
    BY <1>8 DEF m
  <2> QED BY <1>8, <1>9, <2>1, AroundThin
<1> QED BY <1>10 DEF s, p, T, m, LengthBefore

LEMMA NextHoldings ==
  ASSUME Types, Holdings, [Next]_vars
  PROVE  Holdings'
<1>1. CASE UNCHANGED vars
  BY <1>1 DEF vars, inserts, drains, removals, ghosts, Holdings
<1>2. ASSUME NEW c \in Inserts, InsertStep(c) PROVE Holdings'
  <2>1. UNCHANGED <<batch, target, file, removing, found, keep, rest, clash>>
    BY <1>2 DEF InsertStep, InsertEntry, InsertMessage, AppendMessage, drains, removals, ghosts
  <2>2. inserting' = [inserting EXCEPT ![c] = "done"] \/ inserting' = [inserting EXCEPT ![c] = "begun"]
    BY <1>2 DEF InsertStep, InsertEntry, InsertMessage, AppendMessage
  <2> QED BY <2>1, <2>2 DEF Holdings
<1>3. ASSUME NEW d \in Timers, Fire(d) PROVE Holdings'
  BY <1>3, DrainHoldings DEF Fire, Drains, inserts, removals
<1>4. ASSUME NEW d \in Drains, DrainStep(d) PROVE Holdings'
  <2>1. CASE AppendToFile(d)
    <3>1. /\ file' = [file EXCEPT ![target[d]] = @ \o batch[d]]
          /\ batch' = [batch EXCEPT ![d] = <<>>]
          /\ clash' \in BOOLEAN
          /\ UNCHANGED <<inserting, target, removing, found, keep, rest>>
      BY <2>1 DEF AppendToFile, inserts, removals, Holdings
    <3>2. file[target[d]] \o batch[d] \in Seq(Inserts \cup {Hole})
      <4>1. file[target[d]] \in Seq(Inserts \cup {Hole}) /\ batch[d] \in Seq(Inserts)
        BY DEF Holdings
      <4>2. batch[d] \in Seq(Inserts \cup {Hole})
        BY <4>1
      <4> QED BY <4>1, <4>2
    <3>3. file' \in [Files -> Seq(Inserts \cup {Hole})]
      BY <3>1, <3>2 DEF Holdings
    <3>4. batch' \in [Drains -> Seq(Inserts)]
      BY <3>1 DEF Holdings
    <3> QED BY <3>1, <3>3, <3>4 DEF Holdings
  <2>2. CASE Fail(d)
    BY <2>2 DEF Fail, inserts, removals, Holdings
  <2>3. CASE Continue(d)
    BY <2>3, DrainHoldings DEF Continue, inserts, removals
  <2> QED BY <1>4, <2>1, <2>2, <2>3 DEF DrainStep
<1>5. ASSUME NEW w \in Flushes, FlushStep(w) PROVE Holdings'
  <2>1. w \in Drains
    BY DEF Drains
  <2>2. UNCHANGED <<inserting, file, removing, found, keep, rest, clash>>
    BY <1>5 DEF FlushStep, Flush, FlushResumes, inserts, removals
  <2>3. (\E set, active : Drain(w, set, active)) \/ UNCHANGED <<batch, target>>
    BY <1>5 DEF FlushStep, Flush, FlushNow, FlushAwaits, FlushResumes
  <2> QED BY <2>1, <2>2, <2>3, DrainHoldings DEF Holdings
<1>6. ASSUME NEW r \in Removals, RemovalStep(r) PROVE Holdings'
  <2>1. UNCHANGED <<inserting, batch, target>>
    BY <1>6 DEF RemovalStep, Ask, Read, ReadAll, Cut, WriteBack, inserts, drains
  <2>2. file[Main] \in Seq(Inserts \cup {Hole}) /\ Main \in Files
    BY TranscriptAssumption DEF Holdings
  <2>8. found' \in [Removals -> BOOLEAN]
    BY <1>6 DEF RemovalStep, Ask, Read, ReadAll, Cut, WriteBack, Holdings
  <2>3. CASE Ask(r)
    BY <2>1, <2>3, <2>8 DEF Ask, ghosts, Holdings, RemovalStages
  <2>4. CASE Read(r)
    <3>1. UNCHANGED <<file, clash>>
      BY <2>4 DEF Read, ghosts
    <3>2. CASE EndRemoval(r) /\ UNCHANGED <<keep, rest>>
      BY <2>8, <2>1, <3>1, <3>2 DEF EndRemoval, Holdings, RemovalStages
    <3>3. CASE removing' = [removing EXCEPT ![r] = "looking"] /\ UNCHANGED <<keep, rest>>
      BY <2>8, <2>1, <3>1, <3>3 DEF Holdings, RemovalStages
    <3>4. CASE /\ InWindow(file[Main], r)
               /\ removing' = [removing EXCEPT ![r] = "read"]
               /\ keep' = [keep EXCEPT ![r] = LengthBefore(file[Main], r)]
               /\ rest' = [rest EXCEPT ![r] =
                     SubSeq(file[Main], LastPlace(file[Main], r) + 1, Len(file[Main]))]
      <4>1. /\ LengthBefore(file[Main], r) \in Nat
            /\ SubSeq(file[Main], LastPlace(file[Main], r) + 1, Len(file[Main])) \in Seq(Inserts \cup {Hole})
        BY <3>4, ReadHolds
      <4> QED BY <2>8, <2>1, <3>1, <3>4, <4>1 DEF Holdings, RemovalStages
    <3> QED BY <2>4, <3>2, <3>3, <3>4 DEF Read
  <2>5. CASE ReadAll(r)
    <3>1. Others(file[Main], r) \in Seq(Inserts \cup {Hole})
      BY <2>2, OthersThin
    <3>2. /\ removing' = [removing EXCEPT ![r] = "read"]
          /\ keep' = [keep EXCEPT ![r] = 0]
          /\ rest' = [rest EXCEPT ![r] = Others(file[Main], r)]
          /\ UNCHANGED <<file, clash>>
      BY <2>5 DEF ReadAll, ghosts
    <3> QED BY <2>8, <2>1, <3>1, <3>2 DEF Holdings, RemovalStages
  <2>6. CASE Cut(r)
    <3>1. Truncated(file[Main], keep[r]) \in Seq(Inserts \cup {Hole})
      BY <2>2, TruncatedType DEF Holdings
    <3>2. /\ file' = [file EXCEPT ![Main] = Truncated(file[Main], keep[r])]
          /\ removing' \in {[removing EXCEPT ![r] = "done"], [removing EXCEPT ![r] = "cut"]}
          /\ UNCHANGED <<keep, rest>>
          /\ clash' \in BOOLEAN
      BY <2>6 DEF Cut, EndRemoval, Holdings
    <3> QED BY <2>8, <2>1, <2>2, <3>1, <3>2 DEF Holdings, RemovalStages
  <2>7. CASE WriteBack(r)
    <3>1. Overwritten(file[Main], keep[r], rest[r]) \in Seq(Inserts \cup {Hole})
      BY <2>2, OverwrittenType DEF Holdings
    <3>2. /\ file' = [file EXCEPT ![Main] = Overwritten(file[Main], keep[r], rest[r])]
          /\ removing' = [removing EXCEPT ![r] = "done"]
          /\ UNCHANGED <<keep, rest>>
          /\ clash' \in BOOLEAN
      BY <2>7 DEF WriteBack, EndRemoval, Holdings
    <3> QED BY <2>8, <2>1, <2>2, <3>1, <3>2 DEF Holdings, RemovalStages
  <2> QED BY <1>6, <2>3, <2>4, <2>5, <2>6, <2>7 DEF RemovalStep
<1> QED BY <1>1, <1>2, <1>3, <1>4, <1>5, <1>6 DEF Next

-----------------------------------------------------------------------------
(* What a removal does to the session file, if nothing falls into it *)

\* A removal has cut the file and not yet written back what it holds.
Cutting == {r \in Removals : removing[r] = "cut"}

\* What a file holds, and behind it what such a removal holds for it.
Whole == [f \in Files |->
    IF f = Main /\ Cutting # {} THEN file[f] \o rest[CHOOSE r \in Cutting : TRUE]
    ELSE file[f]]

\* Only one removal at a time is between its writes, and at the end of the file;
\* what one has read the file still holds.
OneCut == \A q, r \in Cutting : q = r
CutAtEnd == \A r \in Cutting : keep[r] = Len(file[Main])
ReadStands ==
    Cutting = {} => \A r \in Removals : removing[r] = "read" =>
        /\ keep[r] <= Len(file[Main])
        /\ Thinned(SubSeq(file[Main], 1, keep[r]) \o rest[r], file[Main], Target[r])

Untouched == ~clash => OneCut /\ CutAtEnd /\ ReadStands

LEMMA WholeIs ==
  ASSUME Holdings, OneCut
  PROVE  /\ Whole \in [Files -> Seq(Inserts \cup {Hole})]
         /\ \A f \in Files : f # Main \/ Cutting = {} => Whole[f] = file[f]
         /\ \A r \in Cutting : Whole[Main] = file[Main] \o rest[r]
<1>0. Main \in Files
  BY TranscriptAssumption
<1>1. ASSUME NEW r \in Cutting PROVE (CHOOSE q \in Cutting : TRUE) = r
  BY DEF OneCut
<1>2. \A r \in Cutting : Whole[Main] = file[Main] \o rest[r]
  BY <1>0, <1>1 DEF Whole
<1>3. \A f \in Files : f # Main \/ Cutting = {} => Whole[f] = file[f]
  BY DEF Whole
<1>4. \A r \in Cutting : file[Main] \o rest[r] \in Seq(Inserts \cup {Hole})
  <2> SUFFICES ASSUME NEW r \in Cutting PROVE file[Main] \o rest[r] \in Seq(Inserts \cup {Hole})
    OBVIOUS
  <2>1. file[Main] \in Seq(Inserts \cup {Hole}) /\ rest[r] \in Seq(Inserts \cup {Hole})
    BY <1>0 DEF Holdings, Cutting
  <2> QED BY <2>1
<1>5. \A f \in Files : Whole[f] \in Seq(Inserts \cup {Hole})
  <2> SUFFICES ASSUME NEW f \in Files PROVE Whole[f] \in Seq(Inserts \cup {Hole})
    OBVIOUS
  <2>1. CASE f # Main \/ Cutting = {}
    BY <1>3, <2>1 DEF Holdings
  <2>2. CASE f = Main /\ Cutting # {}
    BY <1>2, <1>4, <2>2
  <2> QED BY <2>1, <2>2
<1>6. Whole = [f \in Files |-> Whole[f]]
  BY DEF Whole
<1>7. Whole \in [Files -> Seq(Inserts \cup {Hole})]
  <2> DEFINE w == Whole
  <2> HIDE DEF w
  <2>1. w = [f \in Files |-> w[f]] /\ \A f \in Files : w[f] \in Seq(Inserts \cup {Hole})
    BY <1>5, <1>6 DEF w
  <2>2. w \in [Files -> Seq(Inserts \cup {Hole})]
    BY <2>1
  <2> QED BY <2>2 DEF w
<1> QED BY <1>2, <1>3, <1>7

\* A step that has nothing to do with removals.
LEMMA UntouchedStays ==
  ASSUME Untouched, UNCHANGED <<file, removing, keep, rest, clash>>
  PROVE  Untouched' /\ Whole' = Whole
<1>1. Cutting' = Cutting
  BY DEF Cutting
<1>2. Untouched'
  BY <1>1 DEF Untouched, OneCut, CutAtEnd, ReadStands
<1>3. Whole' = Whole
  BY <1>1 DEF Whole
<1> QED BY <1>2, <1>3

\* The append of a batch to the session file does not fall into a removal.
LEMMA AppendUntouched ==
  ASSUME Holdings, Untouched, NEW d \in Drains, AppendToFile(d), ~clash'
  PROVE  /\ Untouched'
         /\ Whole' = [Whole EXCEPT ![target[d]] = @ \o batch[d]]
         /\ target[d] = Main => Cutting = {}
<1>1. /\ file' = [file EXCEPT ![target[d]] = @ \o batch[d]]
      /\ ~clash /\ ~Disturbs(Removals, target[d])
      /\ UNCHANGED <<removing, keep, rest>>
  BY DEF AppendToFile, removals
<1>2. Main \in Files /\ target[d] \in Files
  BY TranscriptAssumption DEF Holdings
<1>3. Cutting' = Cutting
  BY <1>1 DEF Cutting
<1>4. target[d] = Main => Cutting = {} /\ \A r \in Removals : removing[r] # "read"
  BY <1>1 DEF Disturbs, Within, Cutting
<1>5. target[d] # Main => file'[Main] = file[Main]
  BY <1>1, <1>2 DEF Holdings
<1>6. Untouched'
  <2>1. CASE target[d] = Main
    BY <1>1, <1>3, <1>4, <2>1 DEF Untouched, OneCut, CutAtEnd, ReadStands
  <2>2. CASE target[d] # Main
    BY <1>1, <1>3, <1>5, <2>2 DEF Untouched, OneCut, CutAtEnd, ReadStands
  <2> QED BY <2>1, <2>2
<1>7. Whole' = [Whole EXCEPT ![target[d]] = @ \o batch[d]]
  <2>1. Whole' = [f \in Files |-> IF f = Main /\ Cutting # {}
                    THEN file'[f] \o rest[CHOOSE r \in Cutting : TRUE] ELSE file'[f]]
    BY <1>1, <1>3 DEF Whole
  <2> QED BY <1>1, <1>2, <1>4, <2>1 DEF Whole, Holdings
<1> QED BY <1>4, <1>6, <1>7

\* What a removal leaves of the session file.
Thin(r) ==
    /\ removing[r] = "read" /\ removing'[r] \in {"cut", "done"}
    /\ \A q \in Removals \ {r} : removing'[q] = removing[q] /\ removing[q] \notin {"read", "cut"}
    /\ Whole' = [Whole EXCEPT ![Main] = Whole'[Main]]
    /\ Thinned(Whole'[Main], Whole[Main], Target[r])
    /\ Whole'[Main] \in Seq(Inserts \cup {Hole})
    /\ UNCHANGED found

\* A removal that changes nothing that is to stay.
Looks(r) ==
    \/ removing'[r] = removing[r] /\ found'[r] = found[r]
    \/ removing[r] = "cut" /\ removing'[r] = "done" /\ found'[r] = found[r]
    \/ removing'[r] \in {"begun", "looking"}
    \/ removing'[r] = "done" /\ ~found'[r]
    \/ removing'[r] = "read" /\ (found'[r] => \E i \in DOMAIN Whole[Main] : Is(Whole[Main][i], Target[r]))

LEMMA CutThins ==
  ASSUME Holdings, Untouched, NEW r \in Removals, Cut(r), ~clash'
  PROVE  Untouched' /\ Thin(r)
<1> DEFINE s == file[Main]
           k == keep[r]
           t == rest[r]
           T == Inserts \cup {Hole}
<1>1. /\ removing[r] = "read"
      /\ file' = [file EXCEPT ![Main] = Truncated(s, k)]
      /\ IF t = <<>> THEN removing' = [removing EXCEPT ![r] = "done"]
         ELSE removing' = [removing EXCEPT ![r] = "cut"]
      /\ ~clash /\ ~Disturbs(Removals \ {r}, Main)
      /\ UNCHANGED <<keep, rest, found>>
  BY DEF Cut, EndRemoval
<1>2. Main \in Files /\ s \in Seq(T) /\ t \in Seq(T) /\ k \in Nat
  BY TranscriptAssumption DEF Holdings
<1>3. \A q \in Removals \ {r} : removing[q] \notin {"read", "cut"}
  BY <1>1 DEF Disturbs, Within
<1>4. Cutting = {}
  BY <1>1, <1>3 DEF Cutting
<1>5. k <= Len(s) /\ Thinned(SubSeq(s, 1, k) \o t, s, Target[r])
  BY <1>1, <1>4 DEF Untouched, ReadStands
<1>6. Truncated(s, k) = SubSeq(s, 1, k)
  <2> HIDE DEF s, k, t, T
  <2> QED BY <1>2, <1>5 DEF Truncated
<1> DEFINE a == SubSeq(s, 1, k)
<1>7. a \in Seq(T) /\ Len(a) = k /\ a \o t \in Seq(T) /\ (t = <<>> => a \o t = a)
  <2> HIDE DEF s, k, t, T
  <2> QED BY <1>2, <1>5
<1>8. file'[Main] = a /\ \A f \in Files \ {Main} : file'[f] = file[f]
  BY <1>1, <1>2, <1>6 DEF Holdings
<1>9. Whole[Main] = s /\ Whole = file
  <2>1. file = [f \in Files |-> file[f]]
    BY DEF Holdings
  <2> QED BY <1>2, <1>4, <2>1 DEF Whole
<1>10. \A q \in Removals \ {r} : removing'[q] = removing[q]
  BY <1>1 DEF Holdings
<1> HIDE DEF s, k, a
<1>11. CASE t = <<>>
  <2>1. removing'[r] = "done"
    BY <1>1, <1>11 DEF Holdings
  <2>2. Cutting' = {} /\ \A q \in Removals : removing'[q] # "read"
    BY <1>3, <1>10, <2>1 DEF Cutting
  <2>3. Whole' = [f \in Files |-> file'[f]]
    BY <2>2 DEF Whole
  <2>4. Whole'[Main] = a \o t /\ \A f \in Files \ {Main} : Whole'[f] = Whole[f]
    BY <1>2, <1>7, <1>8, <1>9, <1>11, <2>3
  <2>5. Whole' = [Whole EXCEPT ![Main] = Whole'[Main]]
    BY <1>2, <1>9, <2>3, <2>4 DEF Holdings
  <2>6. Untouched'
    BY <2>2 DEF Untouched, OneCut, CutAtEnd, ReadStands
  <2>7. Thin(r)
    BY <1>1, <1>3, <1>5, <1>7, <1>9, <1>10, <2>1, <2>4, <2>5 DEF Thin, a
  <2> QED BY <2>6, <2>7
<1>12. CASE t # <<>>
  <2>1. removing'[r] = "cut"
    BY <1>1, <1>12 DEF Holdings
  <2>2. Cutting' = {r}
    BY <1>3, <1>10, <2>1 DEF Cutting
  <2>3. Whole' = [f \in Files |-> IF f = Main THEN file'[f] \o t ELSE file'[f]]
    <3>1. (CHOOSE q \in {r} : TRUE) = r
      OBVIOUS
    <3> QED BY <1>1, <2>2, <3>1 DEF Whole
  <2>4. Whole'[Main] = a \o t /\ \A f \in Files \ {Main} : Whole'[f] = Whole[f]
    BY <1>2, <1>7, <1>8, <1>9, <2>3
  <2>5. Whole' = [Whole EXCEPT ![Main] = Whole'[Main]]
    BY <1>2, <1>9, <2>3, <2>4 DEF Holdings
  <2>6. Untouched'
    BY <1>1, <1>7, <1>8, <2>2 DEF Untouched, OneCut, CutAtEnd, ReadStands, k
  <2>7. Thin(r)
    BY <1>1, <1>3, <1>5, <1>7, <1>9, <1>10, <2>1, <2>4, <2>5 DEF Thin, a
  <2> QED BY <2>6, <2>7
<1> QED BY <1>11, <1>12

\* The rest goes to the end of the file.
LEMMA WriteBackKeeps ==
  ASSUME Holdings, Untouched, NEW r \in Removals, WriteBack(r), ~clash'
  PROVE  Untouched' /\ Whole' = Whole
<1> DEFINE s == file[Main]
           k == keep[r]
           t == rest[r]
           T == Inserts \cup {Hole}
<1>1. /\ removing[r] = "cut"
      /\ file' = [file EXCEPT ![Main] = Overwritten(s, k, t)]
      /\ removing' = [removing EXCEPT ![r] = "done"]
      /\ ~clash /\ ~Disturbs(Removals \ {r}, Main)
      /\ UNCHANGED <<keep, rest>>
  BY DEF WriteBack, EndRemoval
<1>2. Main \in Files /\ s \in Seq(T) /\ t \in Seq(T) /\ k \in Nat
  BY TranscriptAssumption DEF Holdings
<1>3. \A q \in Removals \ {r} : removing[q] \notin {"read", "cut"}
  BY <1>1 DEF Disturbs, Within
<1>4. Cutting = {r} /\ Cutting' = {} /\ \A q \in Removals : removing'[q] # "read"
  BY <1>1, <1>3 DEF Cutting, Holdings
<1>5. k = Len(s)
  BY <1>1, <1>4 DEF Untouched, CutAtEnd
<1>6. Overwritten(s, k, t) = s \o t
  <2> HIDE DEF s, k, t, T
  <2> DEFINE N == IF k + Len(t) > Len(s) THEN k + Len(t) ELSE Len(s)
  <2>1. N = Len(s) + Len(t) /\ Len(s) \in Nat /\ Len(t) \in Nat
    BY <1>2, <1>5
  <2> HIDE DEF N
  <2>2. Overwritten(s, k, t) = [i \in 1..N |-> IF i > k /\ i <= k + Len(t) THEN t[i - k]
                                              ELSE IF i <= Len(s) THEN s[i] ELSE Hole]
    BY DEF Overwritten, N
  <2>3. \A i \in 1..N : (IF i > k /\ i <= k + Len(t) THEN t[i - k]
                         ELSE IF i <= Len(s) THEN s[i] ELSE Hole)
                      = (IF i <= Len(s) THEN s[i] ELSE t[i - Len(s)])
    BY <1>5, <2>1
  <2> DEFINE u == s \o t
  <2>4. u = [i \in 1..N |-> u[i]]
    <3>1. u \in Seq(T) /\ Len(u) = N
      BY <1>2, <2>1
    <3> HIDE DEF u
    <3> QED BY <3>1
  <2>5. \A i \in 1..N : (s \o t)[i] = IF i <= Len(s) THEN s[i] ELSE t[i - Len(s)]
    BY <1>2, <2>1
  <2> QED BY <2>2, <2>3, <2>4, <2>5
<1>7. Untouched'
  BY <1>4 DEF Untouched, OneCut, CutAtEnd, ReadStands
<1>8. Whole' = [f \in Files |-> file'[f]]
  BY <1>4 DEF Whole
<1>9. Whole = [f \in Files |-> IF f = Main THEN file[f] \o t ELSE file[f]]
  <2>1. (CHOOSE q \in {r} : TRUE) = r
    OBVIOUS
  <2> QED BY <1>4, <2>1 DEF Whole
<1>10. \A f \in Files : file'[f] = IF f = Main THEN file[f] \o t ELSE file[f]
  BY <1>1, <1>2, <1>6 DEF Holdings
<1> QED BY <1>7, <1>8, <1>9, <1>10

\* A removal that has only read the file.
LEMMA ReadingKeeps ==
  ASSUME Holdings, Untouched, ~clash, NEW r \in Removals, UNCHANGED file,
         \A q \in Removals \ {r} : removing'[q] = removing[q] /\ keep'[q] = keep[q] /\ rest'[q] = rest[q],
         removing[r] # "cut", removing'[r] # "cut",
         removing'[r] = "read" =>
             /\ keep'[r] <= Len(file[Main])
             /\ Thinned(SubSeq(file[Main], 1, keep'[r]) \o rest'[r], file[Main], Target[r])
  PROVE  Untouched' /\ Whole' = Whole
<1>1. Cutting' = Cutting
  BY DEF Cutting
<1>2. \A q \in Cutting : q # r
  BY DEF Cutting
<1>3. OneCut' /\ CutAtEnd'
  BY <1>1, <1>2 DEF Untouched, OneCut, CutAtEnd, Cutting
<1>4. ReadStands'
  BY <1>1 DEF Untouched, ReadStands
<1>5. Whole' = Whole
  <2>1. CASE Cutting = {}
    BY <1>1, <2>1 DEF Whole
  <2>2. CASE Cutting # {}
    <3>1. rest'[CHOOSE q \in Cutting : TRUE] = rest[CHOOSE q \in Cutting : TRUE]
      BY <1>2, <2>2 DEF Cutting
    <3> QED BY <1>1, <3>1 DEF Whole
  <2> QED BY <2>1, <2>2
<1> QED BY <1>3, <1>4, <1>5 DEF Untouched

-----------------------------------------------------------------------------
(* What the steps do to the entries on their way *)

NoRepeat(s) == \A i, j \in DOMAIN s : s[i] = s[j] => i = j

\* An insertion is queued once; only a drain that appends has a batch.
AcceptedOnce ==
    /\ NoRepeat(accepted)
    /\ \A i \in DOMAIN accepted : inserting[accepted[i]] = "done"
OnlyAppending == \A d \in Drains : stage[d] # "appending" => batch[d] = <<>>

Base == IInv /\ Holdings /\ Untouched /\ AcceptedOnce /\ OnlyAppending

InMain(c) == c \in Messages /\ FileOf[c] = Main

\* A new entry is queued, and its message recorded if it is for the session file.
Put(c) ==
    /\ \A i \in DOMAIN accepted : accepted[i] # c
    /\ accepted' = Append(accepted, c)
    /\ queue' = [queue EXCEPT ![FileOf[c]] = Append(@, c)]
    /\ InMain(c) => Message[c] \notin messageSet /\ Message[c] \in messageSet'
    /\ messageSet \subseteq messageSet'
    /\ UNCHANGED <<batch, target, Whole, removing, found, crossed>>

\* A drain without a batch takes what waits for f.
Grab(d, f) ==
    /\ batch[d] = <<>>
    /\ batch' = [batch EXCEPT ![d] = queue[f]]
    /\ target' = [target EXCEPT ![d] = f]
    /\ queue' = [queue EXCEPT ![f] = <<>>]
    /\ crossed \subseteq crossed'
    /\ f \notin crossed' => \A e \in Drains \ {d} : target[e] = f => batch[e] = <<>>
    /\ UNCHANGED <<accepted, messageSet, Whole, removing, found>>

\* It appends its batch, or loses it.
Store(d) ==
    /\ Whole' = [Whole EXCEPT ![target[d]] = @ \o batch[d]]
    /\ batch' = [batch EXCEPT ![d] = <<>>]
    /\ target[d] = Main => Cutting = {}
    /\ UNCHANGED <<queue, target, accepted, messageSet, removing, found, crossed>>

Drop(d) ==
    /\ batch' = [batch EXCEPT ![d] = <<>>]
    /\ failures' # 0
    /\ UNCHANGED <<queue, target, accepted, messageSet, Whole, removing, found, crossed>>

\* A removal takes its message out, or nothing moves.
TakeOut(r) == Thin(r) /\ UNCHANGED <<queue, batch, target, accepted, messageSet, crossed>>

Still ==
    /\ \A r \in Removals : Looks(r)
    /\ UNCHANGED <<queue, batch, target, accepted, messageSet, Whole, crossed>>

Effect ==
    \/ \E c \in Inserts : Put(c)
    \/ \E d \in Drains, f \in Files : Grab(d, f)
    \/ \E d \in Drains : Store(d) \/ Drop(d)
    \/ \E r \in Removals : TakeOut(r)
    \/ Still

\* A step that is neither an append nor one of a removal, seen from the files.
LEMMA FilesStay ==
  ASSUME Untouched, UNCHANGED <<file, removals, clash>>
  PROVE  Untouched' /\ Whole' = Whole /\ UNCHANGED <<removing, found>> /\ \A r \in Removals : Looks(r)
BY UntouchedStays DEF removals, Looks


\* What is queued for the first time is new to the queues.
LEMMA EnqueuePuts ==
  ASSUME Base, NEW c \in Inserts, EnqueueWrite(c), inserting[c] # "done",
         inserting' = [inserting EXCEPT ![c] = "done"],
         InMain(c) => Message[c] \notin messageSet /\ Message[c] \in messageSet',
         messageSet \subseteq messageSet',
         UNCHANGED <<batch, target, crossed, file, removals, clash>>
  PROVE  AcceptedOnce' /\ Put(c)
<1>1. /\ accepted \in Seq(Inserts) /\ inserting \in [Inserts -> {"none", "begun", "done"}]
      /\ accepted' = Append(accepted, c)
      /\ queue' = [queue EXCEPT ![FileOf[c]] = Append(@, c)]
  BY DEF Base, IInv, Types, Holdings, EnqueueWrite
<1>2. \A i \in DOMAIN accepted : accepted[i] # c
  BY DEF Base, AcceptedOnce
<1>3. AcceptedOnce'
  <2>1. /\ DOMAIN accepted' = 1..(Len(accepted) + 1) /\ accepted'[Len(accepted) + 1] = c
        /\ \A i \in 1..Len(accepted) : accepted'[i] = accepted[i] /\ accepted[i] \in Inserts
    BY <1>1
  <2>2. NoRepeat(accepted')
    BY <1>1, <1>2, <2>1 DEF Base, AcceptedOnce, NoRepeat
  <2>3. \A i \in DOMAIN accepted' : inserting'[accepted'[i]] = "done"
    BY <1>1, <2>1 DEF Base, AcceptedOnce
  <2> QED BY <2>2, <2>3 DEF AcceptedOnce, NoRepeat
<1>4. Whole' = Whole /\ UNCHANGED <<removing, found>>
  BY FilesStay DEF Base, removals
<1> QED BY <1>1, <1>2, <1>3, <1>4 DEF Put

LEMMA InsertEffect ==
  ASSUME Base, NEW c \in Inserts, InsertStep(c), ~clash'
  PROVE  Untouched' /\ AcceptedOnce' /\ OnlyAppending' /\ (Put(c) \/ Still)
<1>1. UNCHANGED <<batch, target, crossed, file, removals, clash>>
  BY DEF InsertStep, InsertEntry, InsertMessage, AppendMessage, drains, ghosts
<1>2. Untouched' /\ Whole' = Whole /\ \A r \in Removals : Looks(r)
  BY <1>1, FilesStay DEF Base
<1>3. /\ \A d \in Drains : stage'[d] = stage[d] \/ (stage[d] = "counting" /\ stage'[d] = "done")
  <2>1. CASE AppendMessage(c)
    BY <2>1, ResolvedKeeps DEF AppendMessage, Base, IInv
  <2>2. CASE InsertEntry(c) \/ InsertMessage(c)
    BY <2>2 DEF InsertEntry, InsertMessage, drains
  <2> QED BY <2>1, <2>2 DEF InsertStep
<1>4. OnlyAppending'
  BY <1>1, <1>3 DEF Base, OnlyAppending
<1>5. CASE InsertEntry(c)
  <2>1. EnqueueWrite(c) /\ inserting[c] # "done" /\ ~InMain(c) /\ UNCHANGED messageSet
        /\ inserting' = [inserting EXCEPT ![c] = "done"]
    BY <1>5 DEF InsertEntry, InMain
  <2> QED BY <1>1, <1>2, <1>4, <2>1, EnqueuePuts
<1>6. CASE InsertMessage(c)
  <2>1. /\ inserting[c] = "none" /\ inserting' = [inserting EXCEPT ![c] = "begun"]
        /\ UNCHANGED <<queue, accepted, messageSet>>
    BY <1>6 DEF InsertMessage, queues, ghosts
  <2>2. AcceptedOnce'
    BY <2>1 DEF Base, AcceptedOnce, Holdings, NoRepeat
  <2> QED BY <1>1, <1>2, <1>4, <2>1, <2>2 DEF Still
<1>7. CASE AppendMessage(c)
  <2>1. inserting[c] = "begun" /\ inserting' = [inserting EXCEPT ![c] = "done"]
    BY <1>7 DEF AppendMessage
  <2>2. CASE IsNew(c) /\ EnqueueWrite(c) /\ messageSet' = Recorded(c)
    <3>1. /\ InMain(c) => Message[c] \notin messageSet /\ Message[c] \in messageSet'
          /\ messageSet \subseteq messageSet'
      BY <2>2 DEF IsNew, Recorded, Sidechain, InMain
    <3> QED BY <1>1, <1>2, <1>4, <2>1, <2>2, <3>1, EnqueuePuts
  <2>3. CASE UNCHANGED <<queue, messageSet, accepted>>
    <3>1. AcceptedOnce'
      BY <2>1, <2>3 DEF Base, AcceptedOnce, Holdings, NoRepeat
    <3> QED BY <1>1, <1>2, <1>4, <2>3, <3>1 DEF Still
  <2> QED BY <1>7, <2>2, <2>3 DEF AppendMessage
<1> QED BY <1>5, <1>6, <1>7 DEF InsertStep

\* A drain that does not append yet takes a queue, or moves nothing.
LEMMA DrainEffect ==
  ASSUME Base, NEW d \in Drains, NEW set, NEW active, Drain(d, set, active),
         stage[d] # "appending",
         UNCHANGED <<inserting, accepted, messageSet, file, removals, clash>>
  PROVE  Untouched' /\ AcceptedOnce' /\ OnlyAppending' /\ ((\E f \in Files : Grab(d, f)) \/ Still)
<1>1. Untouched' /\ Whole' = Whole /\ UNCHANGED <<removing, found>> /\ \A r \in Removals : Looks(r)
  BY FilesStay DEF Base
<1>2. AcceptedOnce'
  BY DEF Base, AcceptedOnce, NoRepeat
<1>3. batch[d] = <<>>
  BY DEF Base, OnlyAppending
<1>4. CASE Take(d, set, active)
  <2> DEFINE f == NextKey(d)
  <2>1. f \in Files
    BY <1>4, NextKeyWaits DEF Base, IInv, Take, Waiting, Keys
  <2>2. /\ stage' = [stage EXCEPT ![d] = "appending"]
        /\ batch' = [batch EXCEPT ![d] = queue[f]]
        /\ target' = [target EXCEPT ![d] = f]
        /\ queue' = [queue EXCEPT ![f] = <<>>]
        /\ crossed' = crossed \cup
            {g \in {f} : \E w \in Drains \ {d} : stage[w] = "appending" /\ target[w] = g}
    BY <1>4 DEF Take, Emptied
  <2> HIDE DEF f
  <2>3. OnlyAppending'
    BY <2>2 DEF Base, OnlyAppending, IInv, Types, Holdings
  <2>4. f \notin crossed' => \A e \in Drains \ {d} : target[e] = f => batch[e] = <<>>
    BY <2>2 DEF Base, OnlyAppending
  <2>5. Grab(d, f)
    BY <1>1, <1>3, <2>2, <2>4 DEF Grab
  <2> QED BY <1>1, <1>2, <2>1, <2>3, <2>5
<1>5. CASE Finish(d, set, active)
  <2>1. /\ stage' = [stage EXCEPT ![d] = EndOf(d)]
        /\ UNCHANGED <<queue, batch, target, crossed>>
    BY <1>5 DEF Finish
  <2>2. OnlyAppending'
    BY <1>3, <2>1 DEF Base, OnlyAppending, IInv, Types
  <2> QED BY <1>1, <1>2, <2>1, <2>2 DEF Still
<1> QED BY <1>4, <1>5 DEF Drain

LEMMA DrainStepEffect ==
  ASSUME Base, NEW d \in Drains, DrainStep(d), ~clash'
  PROVE  /\ Untouched' /\ AcceptedOnce' /\ OnlyAppending'
         /\ (\E f \in Files : Grab(d, f)) \/ Store(d) \/ Drop(d) \/ Still
<1>1. CASE AppendToFile(d)
  <2>1. /\ batch' = [batch EXCEPT ![d] = <<>>]
        /\ stage' = [stage EXCEPT ![d] = "appended"]
        /\ UNCHANGED <<inserting, queue, target, accepted, messageSet, removing, found, crossed>>
    BY <1>1 DEF AppendToFile, queues, inserts, removals
  <2>2. AcceptedOnce'
    BY <2>1 DEF Base, AcceptedOnce, NoRepeat
  <2>3. OnlyAppending'
    BY <2>1 DEF Base, OnlyAppending, IInv, Types, Holdings
  <2>4. /\ Untouched' /\ (target[d] = Main => Cutting = {})
        /\ Whole' = [Whole EXCEPT ![target[d]] = @ \o batch[d]]
    BY <1>1, AppendUntouched DEF Base
  <2> QED BY <2>1, <2>2, <2>3, <2>4 DEF Store
<1>2. CASE Fail(d)
  <2>1. /\ batch' = [batch EXCEPT ![d] = <<>>] /\ failures' # 0
        /\ stage' = [w \in Drains |-> IF w = d \/ (stage[w] = "awaiting" /\ awaited[w] = d)
                                      THEN "failed" ELSE stage[w]]
        /\ UNCHANGED <<inserting, queue, target, accepted, messageSet, crossed, file, removals, clash>>
    BY <1>2 DEF Fail, queues, inserts, Base, IInv, Types
  <2>2. AcceptedOnce'
    BY <2>1 DEF Base, AcceptedOnce, NoRepeat
  <2>3. OnlyAppending'
    BY <2>1 DEF Base, OnlyAppending, IInv, Types, Holdings
  <2>4. Untouched' /\ Whole' = Whole /\ UNCHANGED <<removing, found>>
    BY <2>1, FilesStay DEF Base
  <2> QED BY <2>1, <2>2, <2>3, <2>4 DEF Drop
<1>3. CASE Continue(d)
  BY <1>3, DrainEffect DEF Continue, inserts
<1> QED BY <1>1, <1>2, <1>3 DEF DrainStep

LEMMA FlushStepEffect ==
  ASSUME Base, NEW w \in Flushes, FlushStep(w)
  PROVE  Untouched' /\ AcceptedOnce' /\ OnlyAppending' /\ ((\E f \in Files : Grab(w, f)) \/ Still)
<1>1. UNCHANGED <<inserting, accepted, messageSet, file, removals, clash>>
  BY DEF FlushStep, Flush, FlushResumes, inserts
<1>2. w \in Drains /\ stage[w] # "appending"
  BY DEF FlushStep, Flush, FlushResumes, Drains
<1>3. CASE FlushStep(w) /\ ~FlushAwaits(w)
  <2>1. \E set, active : Drain(w, set, active)
    BY <1>3 DEF FlushStep, Flush, FlushNow, FlushResumes
  <2> QED BY <1>1, <1>2, <2>1, DrainEffect
<1>4. CASE Flush(w) /\ FlushAwaits(w)
  <2>1. /\ stage' = [stage EXCEPT ![w] =
                       IF stage[activeDrain] = "failed" THEN "failed" ELSE "awaiting"]
        /\ UNCHANGED <<queue, batch, target, crossed>>
    BY <1>4 DEF FlushAwaits
  <2>2. Untouched' /\ Whole' = Whole /\ \A r \in Removals : Looks(r)
    BY <1>1, FilesStay DEF Base
  <2>3. AcceptedOnce' /\ OnlyAppending'
    BY <1>1, <1>2, <2>1 DEF Base, AcceptedOnce, OnlyAppending, NoRepeat, IInv, Types
  <2> QED BY <1>1, <2>1, <2>2, <2>3 DEF Still
<1>5. CASE FlushResumes(w)
  <2>1. \E set, active : Drain(w, set, active)
    BY <1>5 DEF FlushResumes
  <2> QED BY <1>1, <1>2, <2>1, DrainEffect
<1> QED BY <1>3, <1>4, <1>5 DEF FlushStep

LEMMA RemovalEffect ==
  ASSUME Base, NEW r \in Removals, RemovalStep(r), ~clash'
  PROVE  Untouched' /\ AcceptedOnce' /\ OnlyAppending' /\ (TakeOut(r) \/ Still)
<1>1. UNCHANGED <<queue, batch, target, inserting, accepted, messageSet, crossed>>
  BY DEF RemovalStep, Ask, Read, ReadAll, Cut, WriteBack, queues, inserts, drains, ghosts
<1>2. AcceptedOnce' /\ OnlyAppending'
  <2>1. stage' = stage \/ EndRemoval(r)
    BY DEF RemovalStep, Ask, Read, ReadAll, Cut, WriteBack, drains
  <2>2. \A d \in Drains : stage'[d] = stage[d] \/ (stage[d] = "counting" /\ stage'[d] = "done")
    BY <2>1, ResolvedKeeps DEF EndRemoval, Base, IInv
  <2> QED BY <1>1, <2>2 DEF Base, AcceptedOnce, OnlyAppending, NoRepeat
<1>3. Holdings /\ Untouched /\ file[Main] \in Seq(Inserts \cup {Hole}) /\ Main \in Files
  BY TranscriptAssumption DEF Base, Holdings
<1>4. CASE Cut(r)
  BY <1>1, <1>2, <1>3, <1>4, CutThins DEF TakeOut
<1>5. CASE WriteBack(r)
  <2>1. Untouched' /\ Whole' = Whole
    BY <1>3, <1>5, WriteBackKeeps
  <2>2. removing[r] = "cut" /\ removing' = [removing EXCEPT ![r] = "done"] /\ found' = found
    BY <1>5 DEF WriteBack, EndRemoval
  <2>3. \A q \in Removals : Looks(q)
    BY <1>3, <2>2 DEF Looks, Holdings
  <2> QED BY <1>1, <1>2, <2>1, <2>3 DEF Still
<1>6. CASE ~Cut(r) /\ ~WriteBack(r)
  <2>1. UNCHANGED <<file, clash>> /\ ~clash
    BY <1>6 DEF RemovalStep, Ask, Read, ReadAll, ghosts
  <2>2. \A i \in DOMAIN file[Main] : i \in DOMAIN Whole[Main] /\ Whole[Main][i] = file[Main][i]
    <3>1. CASE Cutting = {}
      BY <1>3, <3>1, WholeIs, <2>1 DEF Untouched
    <3>2. CASE Cutting # {}
      <4>1. PICK q \in Cutting : Whole[Main] = file[Main] \o rest[q]
        BY <1>3, <3>2, WholeIs, <2>1 DEF Untouched
      <4>2. rest[q] \in Seq(Inserts \cup {Hole})
        BY <1>3 DEF Cutting, Holdings
      <4> DEFINE s == file[Main]
                 t == rest[q]
      <4>3. s \in Seq(Inserts \cup {Hole}) /\ t \in Seq(Inserts \cup {Hole})
        BY <1>3, <4>2
      <4> HIDE DEF s, t
      <4>4. \A i \in DOMAIN s : i \in DOMAIN (s \o t) /\ (s \o t)[i] = s[i]
        BY <4>3
      <4> QED BY <4>1, <4>4 DEF s, t
    <3> QED BY <3>1, <3>2
  <2>3. Places(file[Main], r) # {} => \E i \in DOMAIN Whole[Main] : Is(Whole[Main][i], Target[r])
    BY <2>2 DEF Places
  <2>4. \A q \in Removals \ {r} : /\ removing'[q] = removing[q] /\ found'[q] = found[q]
                                  /\ keep'[q] = keep[q] /\ rest'[q] = rest[q]
    BY <1>3, <1>6 DEF RemovalStep, Ask, Read, ReadAll, EndRemoval, Holdings
  <2>5. CASE Ask(r)
    <3>1. removing[r] = "none" /\ removing'[r] = "begun"
      BY <1>3, <2>5 DEF Ask, Holdings
    <3>2. Untouched' /\ Whole' = Whole
      BY <1>3, <2>1, <2>4, <3>1, ReadingKeeps
    <3> QED BY <1>1, <1>2, <2>4, <3>1, <3>2 DEF Still, Looks
  <2>6. CASE Read(r)
    <3>1. removing[r] = "begun" /\ found'[r] = (Places(file[Main], r) # {})
      <4>1. removing[r] = "begun" /\ found' = [found EXCEPT ![r] = Places(file[Main], r) # {}]
        BY <2>6 DEF Read
      <4> QED BY <1>3, <4>1, Zenon DEF Holdings
    <3>2. CASE file[Main] = <<>> /\ EndRemoval(r)
      <4>1. removing'[r] = "done"
        BY <1>3, <3>2 DEF EndRemoval, Holdings
      <4>2. ~found'[r]
        <5>1. DOMAIN file[Main] = {}
          BY <3>2
        <5>2. Places(file[Main], r) = {}
          BY <5>1, Zenon DEF Places
        <5> QED BY <3>1, <5>2, Zenon
      <4>3. Untouched' /\ Whole' = Whole
        BY <1>3, <2>1, <2>4, <3>1, <4>1, ReadingKeeps
      <4> QED BY <1>1, <1>2, <2>4, <4>1, <4>2, <4>3 DEF Still, Looks
    <3>3. CASE /\ InWindow(file[Main], r)
               /\ removing' = [removing EXCEPT ![r] = "read"]
               /\ keep' = [keep EXCEPT ![r] = LengthBefore(file[Main], r)]
               /\ rest' = [rest EXCEPT ![r] =
                     SubSeq(file[Main], LastPlace(file[Main], r) + 1, Len(file[Main]))]
      <4>1. /\ removing'[r] = "read" /\ keep'[r] = LengthBefore(file[Main], r)
            /\ rest'[r] = SubSeq(file[Main], LastPlace(file[Main], r) + 1, Len(file[Main]))
        BY <1>3, <3>3 DEF Holdings
      <4>2. /\ keep'[r] <= Len(file[Main])
            /\ Thinned(SubSeq(file[Main], 1, keep'[r]) \o rest'[r], file[Main], Target[r])
        BY <1>3, <3>3, <4>1, ReadHolds
      <4>3. Untouched' /\ Whole' = Whole
        BY <1>3, <2>1, <2>4, <3>1, <4>1, <4>2, ReadingKeeps
      <4> QED BY <1>1, <1>2, <2>3, <2>4, <3>1, <4>1, <4>3 DEF Still, Looks
    <3>4. CASE removing' = [removing EXCEPT ![r] = "looking"]
      <4>1. removing'[r] = "looking"
        BY <1>3, <3>4 DEF Holdings
      <4>2. Untouched' /\ Whole' = Whole
        BY <1>3, <2>1, <2>4, <3>1, <4>1, ReadingKeeps
      <4> QED BY <1>1, <1>2, <2>4, <4>1, <4>2 DEF Still, Looks
    <3> QED BY <2>6, <3>2, <3>3, <3>4 DEF Read
  <2>7. CASE ReadAll(r)
    <3>1. /\ removing[r] = "looking" /\ removing'[r] = "read"
          /\ keep'[r] = 0 /\ rest'[r] = Others(file[Main], r)
          /\ found'[r] = (Places(file[Main], r) # {})
      BY <1>3, <2>7 DEF ReadAll, Holdings
    <3>2. /\ 0 <= Len(file[Main])
          /\ Thinned(SubSeq(file[Main], 1, 0) \o rest'[r], file[Main], Target[r])
      <4> DEFINE s == file[Main]
                 t == rest'[r]
      <4>1. /\ t \in Seq(Inserts \cup {Hole}) /\ s \in Seq(Inserts \cup {Hole})
            /\ Thinned(t, s, Target[r])
        BY <1>3, <3>1, OthersThin
      <4> HIDE DEF s, t
      <4>2. SubSeq(s, 1, 0) \o t = t /\ 0 <= Len(s)
        BY <4>1
      <4> QED BY <4>1, <4>2 DEF s, t
    <3>3. Untouched' /\ Whole' = Whole
      BY <1>3, <2>1, <2>4, <3>1, <3>2, ReadingKeeps
    <3> QED BY <1>1, <1>2, <2>3, <2>4, <3>1, <3>3 DEF Still, Looks
  <2> QED BY <1>6, <2>5, <2>6, <2>7 DEF RemovalStep
<1> QED BY <1>4, <1>5, <1>6

\* What fell into a removal stays recorded.
LEMMA ClashStays == Holdings /\ [Next]_vars /\ ~clash' => ~clash
<1> SUFFICES ASSUME Holdings, [Next]_vars, ~clash' PROVE ~clash
  OBVIOUS
<1>1. CASE UNCHANGED vars
  BY <1>1 DEF vars, ghosts
<1>2. ASSUME NEW c \in Inserts, InsertStep(c) PROVE ~clash
  BY <1>2 DEF InsertStep, InsertEntry, InsertMessage, AppendMessage, ghosts
<1>3. ASSUME NEW d \in Timers, Fire(d) PROVE ~clash
  BY <1>3 DEF Fire
<1>4. ASSUME NEW d \in Drains, DrainStep(d) PROVE ~clash
  BY <1>4 DEF DrainStep, AppendToFile, Fail, Continue
<1>5. ASSUME NEW w \in Flushes, FlushStep(w) PROVE ~clash
  BY <1>5 DEF FlushStep, Flush, FlushResumes
<1>6. ASSUME NEW r \in Removals, RemovalStep(r) PROVE ~clash
  BY <1>6 DEF RemovalStep, Ask, Read, ReadAll, Cut, WriteBack, ghosts
<1> QED BY <1>1, <1>2, <1>3, <1>4, <1>5, <1>6 DEF Next

LEMMA InitBase == Init => Base
<1> SUFFICES ASSUME Init PROVE Base
  OBVIOUS
<1>1. IInv /\ Holdings
  BY InitInv, InitHoldings
<1>2. Cutting = {} /\ \A r \in Removals : removing[r] # "read"
  BY DEF Init, Cutting
<1>3. Untouched
  BY <1>2 DEF Untouched, OneCut, CutAtEnd, ReadStands
<1>4. AcceptedOnce /\ OnlyAppending
  BY DEF Init, AcceptedOnce, OnlyAppending, NoRepeat
<1> QED BY <1>1, <1>3, <1>4 DEF Base

\* As long as nothing falls into a removal every step has one of these effects.
LEMMA NextEffect ==
  ASSUME Base, [Next]_vars, ~clash'
  PROVE  Base' /\ Effect
<1>1. IInv' /\ Holdings'
  BY NextKeeps, NextHoldings DEF Base, IInv
<1>2. CASE UNCHANGED vars
  <2>1. UNCHANGED <<inserting, stage, queue, batch, target, accepted, messageSet, crossed, file, removals, clash>>
    BY <1>2 DEF vars, queues, inserts, drains, ghosts
  <2>2. Untouched' /\ Whole' = Whole /\ \A r \in Removals : Looks(r)
    BY <2>1, FilesStay DEF Base
  <2>3. AcceptedOnce' /\ OnlyAppending'
    BY <2>1 DEF Base, AcceptedOnce, OnlyAppending, NoRepeat
  <2> QED BY <1>1, <2>1, <2>2, <2>3 DEF Base, Effect, Still
<1>3. ASSUME NEW c \in Inserts, InsertStep(c) PROVE Base' /\ Effect
  BY <1>1, <1>3, InsertEffect DEF Base, Effect
<1>4. ASSUME NEW d \in Timers, Fire(d) PROVE Base' /\ Effect
  <2>1. /\ d \in Drains /\ stage[d] # "appending" /\ Drain(d, FALSE, d)
        /\ UNCHANGED <<inserting, accepted, messageSet, file, removals, clash>>
    BY <1>4 DEF Fire, Unused, Drains, inserts
  <2> QED BY <1>1, <2>1, DrainEffect DEF Base, Effect
<1>5. ASSUME NEW d \in Drains, DrainStep(d) PROVE Base' /\ Effect
  BY <1>1, <1>5, DrainStepEffect DEF Base, Effect
<1>6. ASSUME NEW w \in Flushes, FlushStep(w) PROVE Base' /\ Effect
  BY <1>1, <1>6, FlushStepEffect DEF Base, Effect, Drains
<1>7. ASSUME NEW r \in Removals, RemovalStep(r) PROVE Base' /\ Effect
  BY <1>1, <1>7, RemovalEffect DEF Base, Effect
<1> QED BY <1>2, <1>3, <1>4, <1>5, <1>6, <1>7 DEF Next

-----------------------------------------------------------------------------
(* Every entry is in one place, once *)

Apart(s, t) == \A i \in DOMAIN s, j \in DOMAIN t : s[i] # t[j]
OwnOf(s, f) == \A i \in DOMAIN s : s[i] \in ToSet(accepted) /\ FileOf[s[i]] = f

Queued == \A f \in Files : NoRepeat(queue[f]) /\ OwnOf(queue[f], f)
Batched == \A d \in Drains :
    /\ NoRepeat(batch[d]) /\ OwnOf(batch[d], target[d])
    /\ Apart(queue[target[d]], batch[d])
    /\ \A e \in Drains \ {d} : target[e] = target[d] => Apart(batch[e], batch[d])
Stored == \A f \in Files :
    /\ NoRepeat(Whole[f]) /\ OwnOf(Whole[f], f)
    /\ Apart(Whole[f], queue[f])
    /\ \A d \in Drains : target[d] = f => Apart(Whole[f], batch[d])

HeldOnce == Queued /\ Batched /\ Stored

\* A message is recorded when it is queued for the session file, so two
\* insertions that were queued hand in different ones.
HandedInOnce ==
    /\ \A i \in DOMAIN accepted : InMain(accepted[i]) => Message[accepted[i]] \in messageSet
    /\ \A i, j \in DOMAIN accepted :
          InMain(accepted[i]) /\ InMain(accepted[j]) /\ Message[accepted[i]] = Message[accepted[j]]
              => i = j

\* What a step makes of a sequence: something is added to it, or taken out.
LEMMA JoinedAt ==
  ASSUME NEW S, NEW s \in Seq(S), NEW t \in Seq(S)
  PROVE  /\ s \o t \in Seq(S)
         /\ \A i \in DOMAIN s : i \in DOMAIN (s \o t) /\ (s \o t)[i] = s[i]
         /\ \A j \in DOMAIN t : Len(s) + j \in DOMAIN (s \o t) /\ (s \o t)[Len(s) + j] = t[j]
         /\ \A k \in DOMAIN (s \o t) :
              \/ k \in DOMAIN s /\ (s \o t)[k] = s[k]
              \/ \E j \in DOMAIN t : k = Len(s) + j /\ (s \o t)[k] = t[j]
<1> DEFINE u == s \o t
<1>1. u \in Seq(S) /\ DOMAIN u = 1..(Len(s) + Len(t)) /\ DOMAIN s = 1..Len(s) /\ DOMAIN t = 1..Len(t)
      /\ Len(s) \in Nat /\ Len(t) \in Nat
  OBVIOUS
<1>2. \A i \in 1..(Len(s) + Len(t)) : u[i] = IF i <= Len(s) THEN s[i] ELSE t[i - Len(s)]
  OBVIOUS
<1> HIDE DEF u
<1>3. \A i \in DOMAIN s : i \in DOMAIN u /\ u[i] = s[i]
  BY <1>1, <1>2
<1>4. \A j \in DOMAIN t : Len(s) + j \in DOMAIN u /\ u[Len(s) + j] = t[j]
  BY <1>1, <1>2
<1>5. ASSUME NEW k \in DOMAIN u
      PROVE  \/ k \in DOMAIN s /\ u[k] = s[k]
             \/ \E j \in DOMAIN t : k = Len(s) + j /\ u[k] = t[j]
  <2>1. CASE k <= Len(s)
    BY <1>1, <1>2, <2>1
  <2>2. CASE ~(k <= Len(s))
    <3>1. k - Len(s) \in DOMAIN t /\ k = Len(s) + (k - Len(s)) /\ u[k] = t[k - Len(s)]
      BY <1>1, <1>2, <2>2
    <3> QED BY <3>1
  <2> QED BY <2>1, <2>2
<1> QED BY <1>1, <1>3, <1>4, <1>5 DEF u

LEMMA JoinedOnce ==
  ASSUME NEW S, NEW s \in Seq(S), NEW t \in Seq(S), NoRepeat(s), NoRepeat(t), Apart(s, t)
  PROVE  NoRepeat(s \o t)
<1> DEFINE u == s \o t
<1>1. /\ \A k \in DOMAIN u :
              \/ k \in DOMAIN s /\ u[k] = s[k]
              \/ \E j \in DOMAIN t : k = Len(s) + j /\ u[k] = t[j]
  BY JoinedAt
<1> HIDE DEF u
<1> SUFFICES ASSUME NEW k \in DOMAIN u, NEW l \in DOMAIN u, u[k] = u[l] PROVE k = l
  BY DEF NoRepeat, u
<1>2. CASE k \in DOMAIN s /\ u[k] = s[k]
  BY <1>1, <1>2 DEF NoRepeat, Apart
<1>3. CASE \E j \in DOMAIN t : k = Len(s) + j /\ u[k] = t[j]
  BY <1>1, <1>3 DEF NoRepeat, Apart
<1> QED BY <1>1, <1>2, <1>3

LEMMA AppendedAt ==
  ASSUME NEW S, NEW s \in Seq(S), NEW c \in S
  PROVE  /\ Append(s, c) \in Seq(S)
         /\ \A k \in DOMAIN Append(s, c) :
              \/ k \in DOMAIN s /\ Append(s, c)[k] = s[k]
              \/ k = Len(s) + 1 /\ Append(s, c)[k] = c
         /\ \A i \in DOMAIN s : i \in DOMAIN Append(s, c) /\ Append(s, c)[i] = s[i]
         /\ Len(s) + 1 \in DOMAIN Append(s, c) /\ Append(s, c)[Len(s) + 1] = c
OBVIOUS

LEMMA PutHolds ==
  ASSUME Base, HeldOnce, NEW c \in Inserts, Put(c)
  PROVE  HeldOnce'
<1> DEFINE f == FileOf[c]
           q == queue[f]
           p == Append(q, c)
<1>1. /\ f \in Files /\ queue \in [Files -> Seq(Inserts)] /\ q \in Seq(Inserts)
      /\ accepted \in Seq(Inserts) /\ target \in [Drains -> Files]
  BY TranscriptAssumption DEF Base, IInv, Types, Holdings
<1>2. c \notin ToSet(accepted) /\ ToSet(accepted)' = ToSet(accepted) \cup {c}
  <2>1. c \notin ToSet(accepted)
    BY DEF Put, ToSet
  <2> DEFINE a == Append(accepted, c)
  <2>2. /\ \A k \in DOMAIN a : (k \in DOMAIN accepted /\ a[k] = accepted[k]) \/ a[k] = c
        /\ \A i \in DOMAIN accepted : i \in DOMAIN a /\ a[i] = accepted[i]
        /\ Len(accepted) + 1 \in DOMAIN a /\ a[Len(accepted) + 1] = c
    BY <1>1, AppendedAt
  <2> HIDE DEF a
  <2>3. ToSet(a) = ToSet(accepted) \cup {c}
    BY <2>2 DEF ToSet
  <2>4. accepted' = a
    BY DEF Put, a
  <2> QED BY <2>1, <2>3, <2>4 DEF ToSet
<1>3. /\ queue' = [queue EXCEPT ![f] = p]
      /\ UNCHANGED <<batch, target, Whole>>
  BY DEF Put
<1>4. \A k \in DOMAIN p : \/ k \in DOMAIN q /\ p[k] = q[k]
                          \/ k = Len(q) + 1 /\ p[k] = c
  BY <1>1, AppendedAt
<1>5. queue'[f] = p /\ \A g \in Files \ {f} : queue'[g] = queue[g]
  BY <1>1, <1>3
<1> HIDE DEF p
<1>6. NoRepeat(p) /\ \A i \in DOMAIN p : p[i] \in ToSet(accepted)' /\ FileOf[p[i]] = f
  <2>1. NoRepeat(q) /\ OwnOf(q, f)
    BY <1>1 DEF HeldOnce, Queued
  <2>2. \A i \in DOMAIN q : q[i] # c
    BY <1>2, <2>1 DEF OwnOf
  <2>3. NoRepeat(p)
    BY <1>4, <2>1, <2>2 DEF NoRepeat
  <2>4. \A i \in DOMAIN p : p[i] \in ToSet(accepted)' /\ FileOf[p[i]] = f
    BY <1>2, <1>4, <2>1 DEF OwnOf
  <2> QED BY <2>3, <2>4
<1>7. Queued'
  <2> SUFFICES ASSUME NEW g \in Files PROVE NoRepeat(queue'[g]) /\ OwnOf(queue[g], g)'
    BY DEF Queued, NoRepeat, OwnOf
  <2>1. CASE g = f
    BY <1>5, <1>6, <2>1 DEF OwnOf
  <2>2. CASE g # f
    <3>1. NoRepeat(queue[g]) /\ OwnOf(queue[g], g) /\ queue'[g] = queue[g]
      BY <1>5, <2>2 DEF HeldOnce, Queued
    <3> QED BY <1>2, <3>1 DEF OwnOf
  <2> QED BY <2>1, <2>2
<1>8. Batched'
  <2> SUFFICES ASSUME NEW d \in Drains
               PROVE  /\ NoRepeat(batch[d]) /\ OwnOf(batch[d], target[d])'
                      /\ Apart(queue'[target[d]], batch[d])
                      /\ \A e \in Drains \ {d} : target[e] = target[d] => Apart(batch[e], batch[d])
    BY <1>3 DEF Batched, NoRepeat, Apart, OwnOf
  <2>1. /\ NoRepeat(batch[d]) /\ OwnOf(batch[d], target[d])
        /\ Apart(queue[target[d]], batch[d])
        /\ \A e \in Drains \ {d} : target[e] = target[d] => Apart(batch[e], batch[d])
    BY DEF HeldOnce, Batched
  <2>2. \A i \in DOMAIN batch[d] : batch[d][i] # c
    BY <1>2, <2>1 DEF OwnOf
  <2>3. Apart(queue'[target[d]], batch[d])
    <3>1. CASE target[d] = f
      BY <1>4, <1>5, <2>1, <2>2, <3>1 DEF Apart
    <3>2. CASE target[d] # f
      BY <1>1, <1>5, <2>1, <3>2
    <3> QED BY <3>1, <3>2
  <2>4. OwnOf(batch[d], target[d])'
    BY <1>2, <1>3, <2>1 DEF OwnOf
  <2> QED BY <2>1, <2>3, <2>4
<1>9. Stored'
  <2> SUFFICES ASSUME NEW g \in Files
               PROVE  /\ NoRepeat(Whole[g]) /\ OwnOf(Whole[g], g)'
                      /\ Apart(Whole[g], queue'[g])
                      /\ \A d \in Drains : target[d] = g => Apart(Whole[g], batch[d])
    BY <1>3 DEF Stored, NoRepeat, Apart, OwnOf
  <2>1. /\ NoRepeat(Whole[g]) /\ OwnOf(Whole[g], g)
        /\ Apart(Whole[g], queue[g])
        /\ \A d \in Drains : target[d] = g => Apart(Whole[g], batch[d])
    BY DEF HeldOnce, Stored
  <2>2. \A i \in DOMAIN Whole[g] : Whole[g][i] # c
    BY <1>2, <2>1 DEF OwnOf
  <2>3. Apart(Whole[g], queue'[g])
    <3>1. CASE g = f
      BY <1>4, <1>5, <2>1, <2>2, <3>1 DEF Apart
    <3>2. CASE g # f
      BY <1>5, <2>1, <3>2
    <3> QED BY <3>1, <3>2
  <2>4. OwnOf(Whole[g], g)'
    BY <1>2, <1>3, <2>1 DEF OwnOf
  <2> QED BY <2>1, <2>3, <2>4
<1> QED BY <1>7, <1>8, <1>9 DEF HeldOnce

LEMMA GrabHolds ==
  ASSUME Base, HeldOnce, NEW d \in Drains, NEW f \in Files, Grab(d, f)
  PROVE  HeldOnce'
<1>1. /\ queue' = [queue EXCEPT ![f] = <<>>]
      /\ batch' = [batch EXCEPT ![d] = queue[f]]
      /\ target' = [target EXCEPT ![d] = f]
      /\ UNCHANGED <<accepted, Whole>>
  BY DEF Grab
<1>2. /\ queue \in [Files -> Seq(Inserts)] /\ batch \in [Drains -> Seq(Inserts)]
      /\ target \in [Drains -> Files]
  BY DEF Base, IInv, Types, Holdings
<1>3. /\ queue'[f] = <<>> /\ \A g \in Files \ {f} : queue'[g] = queue[g]
      /\ batch'[d] = queue[f] /\ target'[d] = f
      /\ \A e \in Drains \ {d} : batch'[e] = batch[e] /\ target'[e] = target[e]
  BY <1>1, <1>2
<1>4. \A s : NoRepeat(<<>>) /\ Apart(<<>>, s) /\ Apart(s, <<>>)
  BY DEF NoRepeat, Apart
<1>5. \A g : OwnOf(<<>>, g)
  BY DEF OwnOf
<1>6. \A s, t : Apart(s, t) => Apart(t, s)
  BY DEF Apart
<1>7. ToSet(accepted)' = ToSet(accepted)
  BY <1>1 DEF ToSet
<1>8. \A s, g : OwnOf(s, g)' <=> OwnOf(s, g)
  BY <1>7 DEF OwnOf
<1> USE DEF HeldOnce
<1>9. Queued'
  <2> SUFFICES ASSUME NEW g \in Files PROVE NoRepeat(queue'[g]) /\ OwnOf(queue[g], g)'
    BY DEF Queued, NoRepeat, OwnOf
  <2>1. OwnOf(queue'[g], g) /\ NoRepeat(queue'[g])
    BY <1>3, <1>4, <1>5 DEF Queued
  <2> QED BY <1>7, <2>1 DEF OwnOf
<1>10. Batched'
  <2> SUFFICES ASSUME NEW e \in Drains
               PROVE  /\ NoRepeat(batch'[e]) /\ OwnOf(batch[e], target[e])'
                      /\ Apart(queue'[target'[e]], batch'[e])
                      /\ \A w \in Drains \ {e} : target'[w] = target'[e] => Apart(batch'[w], batch'[e])
    BY DEF Batched, NoRepeat, Apart, OwnOf
  <2>1. NoRepeat(batch'[e]) /\ OwnOf(batch'[e], target'[e])
    BY <1>3 DEF Queued, Batched
  <2>2. OwnOf(batch[e], target[e])'
    BY <1>7, <2>1 DEF OwnOf
  <2>3. Apart(queue'[target'[e]], batch'[e])
    BY <1>2, <1>3, <1>4 DEF Batched
  <2>4. ASSUME NEW w \in Drains \ {e}, target'[w] = target'[e] PROVE Apart(batch'[w], batch'[e])
    <3>1. CASE e = d
      BY <1>3, <1>6, <2>4, <3>1 DEF Batched
    <3>2. CASE w = d
      BY <1>3, <2>4, <3>2 DEF Batched
    <3>3. CASE e # d /\ w # d
      BY <1>3, <2>4, <3>3 DEF Batched
    <3> QED BY <3>1, <3>2, <3>3
  <2> QED BY <2>1, <2>2, <2>3, <2>4
<1>11. Stored'
  <2> SUFFICES ASSUME NEW g \in Files
               PROVE  /\ NoRepeat(Whole[g]) /\ OwnOf(Whole[g], g)'
                      /\ Apart(Whole[g], queue'[g])
                      /\ \A e \in Drains : target'[e] = g => Apart(Whole[g], batch'[e])
    BY <1>1 DEF Stored, NoRepeat, Apart, OwnOf
  <2>1. NoRepeat(Whole[g]) /\ OwnOf(Whole[g], g)
    BY DEF Stored
  <2>2. OwnOf(Whole[g], g)'
    BY <1>1, <1>7, <2>1 DEF OwnOf
  <2>3. Apart(Whole[g], queue'[g])
    BY <1>3, <1>4 DEF Stored
  <2>4. \A e \in Drains : target'[e] = g => Apart(Whole[g], batch'[e])
    BY <1>3 DEF Stored
  <2> QED BY <2>1, <2>2, <2>3, <2>4
<1> QED BY <1>9, <1>10, <1>11

\* A batch is emptied.
LEMMA EmptiedHolds ==
  ASSUME Base, HeldOnce, NEW d \in Drains, batch' = [batch EXCEPT ![d] = <<>>],
         UNCHANGED <<queue, target, accepted>>
  PROVE  /\ Queued' /\ Batched'
         /\ Whole' = Whole => Stored'
<1>1. batch \in [Drains -> Seq(Inserts)] /\ target \in [Drains -> Files]
  BY DEF Base, Holdings
<1>2. batch'[d] = <<>> /\ \A e \in Drains \ {d} : batch'[e] = batch[e]
  BY <1>1
<1>3. \A s : NoRepeat(<<>>) /\ Apart(<<>>, s) /\ Apart(s, <<>>)
  BY DEF NoRepeat, Apart
<1>4. \A g : OwnOf(<<>>, g)
  BY DEF OwnOf
<1>5. ToSet(accepted)' = ToSet(accepted)
  BY DEF ToSet
<1>6. Queued'
  BY <1>5 DEF HeldOnce, Queued, NoRepeat, OwnOf
<1>7. Batched'
  <2> SUFFICES ASSUME NEW e \in Drains
               PROVE  /\ NoRepeat(batch'[e]) /\ OwnOf(batch[e], target[e])'
                      /\ Apart(queue[target[e]], batch'[e])
                      /\ \A w \in Drains \ {e} : target[w] = target[e] => Apart(batch'[w], batch'[e])
    BY DEF Batched, NoRepeat, Apart, OwnOf
  <2>1. NoRepeat(batch'[e]) /\ OwnOf(batch'[e], target[e])
    BY <1>2, <1>3, <1>4 DEF HeldOnce, Batched
  <2>2. OwnOf(batch[e], target[e])'
    BY <1>5, <2>1 DEF OwnOf
  <2>3. Apart(queue[target[e]], batch'[e])
    BY <1>2, <1>3 DEF HeldOnce, Batched
  <2>4. \A w \in Drains \ {e} : target[w] = target[e] => Apart(batch'[w], batch'[e])
    BY <1>2, <1>3 DEF HeldOnce, Batched
  <2> QED BY <2>1, <2>2, <2>3, <2>4
<1>8. ASSUME Whole' = Whole PROVE Stored'
  <2> SUFFICES ASSUME NEW g \in Files
               PROVE  /\ NoRepeat(Whole[g]) /\ OwnOf(Whole[g], g)'
                      /\ Apart(Whole[g], queue[g])
                      /\ \A e \in Drains : target[e] = g => Apart(Whole[g], batch'[e])
    BY <1>8 DEF Stored, NoRepeat, Apart, OwnOf
  <2>1. OwnOf(Whole[g], g)'
    BY <1>5, <1>8 DEF HeldOnce, Stored, OwnOf
  <2> QED BY <1>2, <1>3, <2>1 DEF HeldOnce, Stored
<1> QED BY <1>6, <1>7, <1>8

LEMMA StoreHolds ==
  ASSUME Base, HeldOnce, ~clash, NEW d \in Drains, Store(d)
  PROVE  HeldOnce'
<1> DEFINE f == target[d]
           s == Whole[f]
           t == batch[d]
           T == Inserts \cup {Hole}
<1>1. /\ Whole' = [Whole EXCEPT ![f] = s \o t]
      /\ batch' = [batch EXCEPT ![d] = <<>>]
      /\ UNCHANGED <<queue, target, accepted>>
  BY DEF Store
<1>2. f \in Files /\ Whole \in [Files -> Seq(T)] /\ s \in Seq(T)
  BY WholeIs DEF Base, Holdings, Untouched
<1>3. batch \in [Drains -> Seq(Inserts)] /\ t \in Seq(T)
  <2>1. t \in Seq(Inserts) /\ batch \in [Drains -> Seq(Inserts)]
    BY DEF Base, Holdings
  <2> HIDE DEF t
  <2> QED BY <2>1
<1>4. /\ NoRepeat(s) /\ OwnOf(s, f) /\ Apart(s, queue[f])
      /\ NoRepeat(t) /\ OwnOf(t, f) /\ Apart(queue[f], t) /\ Apart(s, t)
  BY <1>2 DEF HeldOnce, Stored, Batched
<1> DEFINE u == s \o t
<1>5. Whole'[f] = u /\ \A g \in Files \ {f} : Whole'[g] = Whole[g]
  BY <1>1, <1>2
<1>6. batch'[d] = <<>> /\ \A e \in Drains \ {d} : batch'[e] = batch[e]
  BY <1>1, <1>3
<1> HIDE DEF f, s, t, T
<1>7. NoRepeat(u)
  BY <1>2, <1>3, <1>4, JoinedOnce
<1>8. \A k \in DOMAIN u :
              \/ k \in DOMAIN s /\ u[k] = s[k]
              \/ \E j \in DOMAIN t : k = Len(s) + j /\ u[k] = t[j]
  BY <1>2, <1>3, JoinedAt
<1> HIDE DEF u
<1>9. OwnOf(u, f) /\ Apart(u, queue[f])
  BY <1>4, <1>8 DEF OwnOf, Apart
<1>10. ASSUME NEW e \in Drains, target[e] = f PROVE Apart(u, batch'[e])
  <2>1. CASE e = d
    BY <1>6, <2>1 DEF Apart
  <2>2. CASE e # d
    <3>1. Apart(s, batch[e]) /\ Apart(t, batch[e])
      BY <1>2, <1>10, <2>2 DEF HeldOnce, Stored, Batched, s, t, f
    <3> QED BY <1>6, <1>8, <2>2, <3>1 DEF Apart
  <2> QED BY <2>1, <2>2
<1>11. ToSet(accepted)' = ToSet(accepted)
  BY <1>1 DEF ToSet
<1>12. Stored'
  <2> SUFFICES ASSUME NEW g \in Files
               PROVE  /\ NoRepeat(Whole'[g]) /\ OwnOf(Whole[g], g)'
                      /\ Apart(Whole'[g], queue[g])
                      /\ \A e \in Drains : target[e] = g => Apart(Whole'[g], batch'[e])
    BY <1>1 DEF Stored, NoRepeat, Apart, OwnOf
  <2>1. OwnOf(Whole'[g], g) /\ NoRepeat(Whole'[g]) /\ Apart(Whole'[g], queue[g])
    BY <1>5, <1>7, <1>9 DEF HeldOnce, Stored
  <2>2. OwnOf(Whole[g], g)'
    BY <1>11, <2>1 DEF OwnOf
  <2>3. \A e \in Drains : target[e] = g => Apart(Whole'[g], batch'[e])
    <3>1. CASE g = f
      BY <1>5, <1>10, <3>1
    <3>2. CASE g # f
      <4>1. \A e \in Drains : target[e] = g => e # d
        BY <3>2 DEF f
      <4> QED BY <1>5, <1>6, <3>2, <4>1 DEF HeldOnce, Stored
    <3> QED BY <3>1, <3>2
  <2> QED BY <2>1, <2>2, <2>3
<1>13. Queued' /\ Batched'
  BY <1>1, EmptiedHolds
<1> QED BY <1>12, <1>13 DEF HeldOnce

\* What is left of a sequence without a message repeats nothing, and is part of it.
LEMMA ThinnedOnce ==
  ASSUME NEW s, NEW t, NEW m, Thinned(t, s, m), DOMAIN t \subseteq Int, DOMAIN s \subseteq Int, NoRepeat(s)
  PROVE  /\ NoRepeat(t)
         /\ \A i \in DOMAIN t : \E p \in DOMAIN s : t[i] = s[p]
<1>1. PICK g \in [DOMAIN t -> DOMAIN s] :
        /\ \A i, j \in DOMAIN t : i < j => g[i] < g[j]
        /\ \A i \in DOMAIN t : t[i] = s[g[i]]
  BY DEF Thinned
<1>2. ASSUME NEW i \in DOMAIN t, NEW j \in DOMAIN t, t[i] = t[j] PROVE i = j
  <2>1. g[i] = g[j]
    BY <1>1, <1>2 DEF NoRepeat
  <2>2. i < j \/ i = j \/ j < i
    OBVIOUS
  <2>3. ~(i < j) /\ ~(j < i)
    <3>1. g[i] \in Int /\ ~(g[i] < g[i])
      BY <1>1
    <3> QED BY <1>1, <2>1, <3>1
  <2> QED BY <2>2, <2>3
<1> QED BY <1>1, <1>2 DEF NoRepeat

LEMMA RemoveHolds ==
  ASSUME Base, HeldOnce, ~clash, NEW r \in Removals, TakeOut(r)
  PROVE  HeldOnce'
<1> DEFINE s == Whole[Main]
           t == Whole'[Main]
           T == Inserts \cup {Hole}
<1>1. /\ Whole' = [Whole EXCEPT ![Main] = t]
      /\ t \in Seq(T) /\ Thinned(t, s, Target[r])
      /\ UNCHANGED <<queue, batch, target, accepted>>
  BY DEF TakeOut, Thin
<1>2. Main \in Files /\ Whole \in [Files -> Seq(T)] /\ s \in Seq(T)
  BY TranscriptAssumption, WholeIs DEF Base, Holdings, Untouched
<1>3. \A g \in Files \ {Main} : Whole'[g] = Whole[g]
  BY <1>1, <1>2
<1>4. /\ NoRepeat(s) /\ OwnOf(s, Main) /\ Apart(s, queue[Main])
      /\ \A e \in Drains : target[e] = Main => Apart(s, batch[e])
  BY <1>2 DEF HeldOnce, Stored
<1> HIDE DEF s, t, T
<1>5. NoRepeat(t) /\ \A i \in DOMAIN t : \E p \in DOMAIN s : t[i] = s[p]
  <2>1. DOMAIN t \subseteq Int /\ DOMAIN s \subseteq Int
    BY <1>1, <1>2
  <2> QED BY <1>1, <1>4, <2>1, ThinnedOnce
<1>6. /\ OwnOf(t, Main) /\ Apart(t, queue[Main])
      /\ \A e \in Drains : target[e] = Main => Apart(t, batch[e])
  BY <1>4, <1>5 DEF OwnOf, Apart
<1>7. ToSet(accepted)' = ToSet(accepted)
  BY <1>1 DEF ToSet
<1>8. Queued' /\ Batched'
  BY <1>1, <1>7 DEF HeldOnce, Queued, Batched, NoRepeat, OwnOf, Apart
<1>9. Stored'
  <2> SUFFICES ASSUME NEW g \in Files
               PROVE  /\ NoRepeat(Whole'[g]) /\ OwnOf(Whole[g], g)'
                      /\ Apart(Whole'[g], queue[g])
                      /\ \A e \in Drains : target[e] = g => Apart(Whole'[g], batch[e])
    BY <1>1 DEF Stored, NoRepeat, Apart, OwnOf
  <2>1. /\ OwnOf(Whole'[g], g) /\ NoRepeat(Whole'[g]) /\ Apart(Whole'[g], queue[g])
        /\ \A e \in Drains : target[e] = g => Apart(Whole'[g], batch[e])
    BY <1>3, <1>5, <1>6 DEF HeldOnce, Stored, t
  <2>2. OwnOf(Whole[g], g)'
    BY <1>7, <2>1 DEF OwnOf
  <2> QED BY <2>1, <2>2
<1> QED BY <1>8, <1>9 DEF HeldOnce

LEMMA StillHolds ==
  ASSUME HeldOnce, Still
  PROVE  HeldOnce'
<1>1. UNCHANGED <<queue, batch, target, accepted, Whole>> /\ ToSet(accepted)' = ToSet(accepted)
  BY DEF Still, ToSet
<1> QED BY <1>1 DEF HeldOnce, Queued, Batched, Stored, NoRepeat, OwnOf, Apart

LEMMA NextHeld ==
  ASSUME Base, HeldOnce, ~clash, Effect
  PROVE  HeldOnce'
<1>1. ASSUME NEW d \in Drains, Drop(d) PROVE HeldOnce'
  BY <1>1, EmptiedHolds DEF Drop, HeldOnce
<1> QED BY <1>1, PutHolds, GrabHolds, StoreHolds, RemoveHolds, StillHolds DEF Effect

-----------------------------------------------------------------------------
(* A message is in one place *)

\* Two entries of the session file that hand in the same message are one.
LEMMA SameMessage ==
  ASSUME HandedInOnce, NEW x \in ToSet(accepted), NEW y \in ToSet(accepted),
         FileOf[x] = Main, FileOf[y] = Main, NEW m, Is(x, m), Is(y, m)
  PROVE  x = y /\ m \in messageSet
<1>1. PICK i \in DOMAIN accepted : x = accepted[i]
  BY DEF ToSet
<1>2. PICK j \in DOMAIN accepted : y = accepted[j]
  BY DEF ToSet
<1>3. InMain(x) /\ InMain(y) /\ Message[x] = Message[y] /\ Message[x] = m
  BY DEF InMain, Is
<1> QED BY <1>1, <1>2, <1>3 DEF HandedInOnce

LEMMA NextHandedIn ==
  ASSUME Base, HandedInOnce, Effect
  PROVE  HandedInOnce'
<1>1. ASSUME NEW c \in Inserts, Put(c) PROVE HandedInOnce'
  <2> DEFINE a == Append(accepted, c)
  <2>1. accepted' = a /\ accepted \in Seq(Inserts)
    BY <1>1 DEF Put, Base, IInv, Types
  <2>2. \A k \in DOMAIN a : \/ k \in DOMAIN accepted /\ a[k] = accepted[k]
                            \/ k = Len(accepted) + 1 /\ a[k] = c
    BY <2>1, AppendedAt
  <2> HIDE DEF a
  <2>3. \A k \in DOMAIN a : InMain(a[k]) => Message[a[k]] \in messageSet'
    BY <1>1, <2>2 DEF HandedInOnce, Put
  <2>4. ASSUME NEW k \in DOMAIN a, NEW l \in DOMAIN a,
               InMain(a[k]), InMain(a[l]), Message[a[k]] = Message[a[l]]
        PROVE  k = l
    BY <1>1, <2>2, <2>4 DEF HandedInOnce, Put
  <2> QED BY <2>1, <2>3, <2>4 DEF HandedInOnce, InMain
<1>2. CASE UNCHANGED <<accepted, messageSet>>
  BY <1>2 DEF HandedInOnce, InMain
<1> QED BY <1>1, <1>2 DEF Effect, Grab, Store, Drop, TakeOut, Still

LEMMA AtMostOne ==
  ASSUME NEW C, IsFiniteSet(C), \A i, j \in C : i = j
  PROVE  Cardinality(C) <= 1
<1>1. CASE C = {}
  <2>1. Cardinality(C) = 0
    BY <1>1, FS_EmptySet
  <2> QED BY <2>1
<1>2. CASE C # {}
  <2>1. PICK x \in C : TRUE
    BY <1>2
  <2>2. C = {x}
    BY <2>1
  <2>3. Cardinality(C) = 1
    BY <2>2, FS_Singleton
  <2> QED BY <2>3
<1> QED BY <1>1, <1>2

\* What the session file holds is at the beginning of what it stands for.
LEMMA FileIsWhole ==
  ASSUME Holdings, OneCut
  PROVE  \A f \in Files : \A i \in DOMAIN file[f] : i \in DOMAIN Whole[f] /\ Whole[f][i] = file[f][i]
<1> SUFFICES ASSUME NEW f \in Files, NEW i \in DOMAIN file[f]
             PROVE  i \in DOMAIN Whole[f] /\ Whole[f][i] = file[f][i]
  OBVIOUS
<1>1. CASE f # Main \/ Cutting = {}
  BY <1>1, WholeIs
<1>2. CASE f = Main /\ Cutting # {}
  <2>1. PICK q \in Cutting : Whole[Main] = file[Main] \o rest[q]
    BY <1>2, WholeIs
  <2> DEFINE s == file[Main]
             t == rest[q]
  <2>2. s \in Seq(Inserts \cup {Hole}) /\ t \in Seq(Inserts \cup {Hole})
    BY <1>2, <2>1 DEF Holdings, Cutting
  <2> HIDE DEF s, t
  <2>3. \A k \in DOMAIN s : k \in DOMAIN (s \o t) /\ (s \o t)[k] = s[k]
    BY <2>2, JoinedAt
  <2> QED BY <1>2, <2>1, <2>3 DEF s, t
<1> QED BY <1>1, <1>2

\* Two places of the session file that hold the same message are one place.
LEMMA OnePlace ==
  ASSUME HeldOnce, HandedInOnce, NEW m,
         NEW i \in DOMAIN Whole[Main], Is(Whole[Main][i], m),
         NEW j \in DOMAIN Whole[Main], Is(Whole[Main][j], m)
  PROVE  i = j
<1>1. NoRepeat(Whole[Main]) /\ OwnOf(Whole[Main], Main)
  BY TranscriptAssumption DEF HeldOnce, Stored
<1>2. Whole[Main][i] = Whole[Main][j]
  BY <1>1, SameMessage DEF OwnOf
<1> QED BY <1>1, <1>2 DEF NoRepeat

LEMMA OnceWritten ==
  ASSUME Base, HeldOnce, HandedInOnce, ~clash
  PROVE  WrittenOnce
<1> SUFFICES ASSUME NEW m PROVE Cardinality(Copies(file[Main], m)) <= 1
  BY DEF WrittenOnce
<1>1. Main \in Files /\ file[Main] \in Seq(Inserts \cup {Hole})
  BY TranscriptAssumption DEF Base, Holdings
<1>2. \A i, j \in Copies(file[Main], m) : i = j
  BY <1>1, FileIsWhole, OnePlace DEF Copies, Base, Untouched
<1>3. IsFiniteSet(Copies(file[Main], m))
  <2>1. Len(file[Main]) \in Nat /\ DOMAIN file[Main] = 1..Len(file[Main])
    BY <1>1
  <2>2. Copies(file[Main], m) \in SUBSET (1..Len(file[Main]))
    BY <2>1 DEF Copies
  <2>3. IsFiniteSet(1..Len(file[Main]))
    BY <2>1, FS_Interval
  <2> QED BY <2>2, <2>3, FS_Subset
<1> QED BY <1>2, <1>3, AtMostOne

-----------------------------------------------------------------------------
(* What is removed stays away *)

\* A message that a removal has found is not on its way any more, and is recorded.
Arrived(m) ==
    /\ m \in messageSet
    /\ \A i \in DOMAIN queue[Main] : ~Is(queue[Main][i], m)
    /\ \A d \in Drains : target[d] = Main => \A i \in DOMAIN batch[d] : ~Is(batch[d][i], m)
Absent(m) == \A i \in DOMAIN Whole[Main] : ~Is(Whole[Main][i], m)

Gone == \A r \in Removals :
    /\ removing[r] \in {"read", "cut", "done"} /\ found[r] => Arrived(Target[r])
    /\ removing[r] = "cut" \/ (removing[r] = "done" /\ found[r]) => Absent(Target[r])

\* What is in the session file has arrived.
LEMMA InFileArrived ==
  ASSUME HeldOnce, HandedInOnce, NEW m, NEW i \in DOMAIN Whole[Main], Is(Whole[Main][i], m)
  PROVE  Arrived(m)
<1> DEFINE x == Whole[Main][i]
<1>1. Main \in Files
  BY TranscriptAssumption
<1>2. x \in ToSet(accepted) /\ FileOf[x] = Main
  BY <1>1 DEF HeldOnce, Stored, OwnOf
<1>3. m \in messageSet
  BY <1>2, SameMessage
<1>4. \A k \in DOMAIN queue[Main] : ~Is(queue[Main][k], m)
  <2> SUFFICES ASSUME NEW k \in DOMAIN queue[Main], Is(queue[Main][k], m) PROVE FALSE
    OBVIOUS
  <2>1. queue[Main][k] \in ToSet(accepted) /\ FileOf[queue[Main][k]] = Main
    BY <1>1 DEF HeldOnce, Queued, OwnOf
  <2>2. queue[Main][k] = x
    BY <1>2, <2>1, SameMessage
  <2> QED BY <1>1, <2>2 DEF HeldOnce, Stored, Apart
<1>5. ASSUME NEW d \in Drains, target[d] = Main, NEW k \in DOMAIN batch[d], Is(batch[d][k], m)
      PROVE  FALSE
  <2>1. batch[d][k] \in ToSet(accepted) /\ FileOf[batch[d][k]] = Main
    BY <1>5 DEF HeldOnce, Batched, OwnOf
  <2>2. batch[d][k] = x
    BY <1>2, <1>5, <2>1, SameMessage
  <2> QED BY <1>1, <1>5, <2>2 DEF HeldOnce, Stored, Apart
<1> QED BY <1>3, <1>4, <1>5 DEF Arrived

LEMMA ArrivedStays ==
  ASSUME Base, HeldOnce, Effect, NEW m, Arrived(m)
  PROVE  Arrived(m)'
<1>0. /\ Main \in Files /\ queue \in [Files -> Seq(Inserts)] /\ batch \in [Drains -> Seq(Inserts)]
      /\ target \in [Drains -> Files]
  BY TranscriptAssumption DEF Base, IInv, Types, Holdings
<1>1. ASSUME NEW c \in Inserts, Put(c) PROVE Arrived(m)'
  <2>1. UNCHANGED <<batch, target>> /\ m \in messageSet'
    BY <1>1 DEF Put, Arrived
  <2>2. CASE FileOf[c] = Main
    <3>1. queue'[Main] = Append(queue[Main], c)
      BY <1>0, <1>1, <2>2 DEF Put
    <3>2. ~Is(c, m)
      BY <1>1, <2>2 DEF Put, Is, InMain, Arrived
    <3>3. \A k \in DOMAIN Append(queue[Main], c) :
            \/ k \in DOMAIN queue[Main] /\ Append(queue[Main], c)[k] = queue[Main][k]
            \/ k = Len(queue[Main]) + 1 /\ Append(queue[Main], c)[k] = c
      BY <1>0, AppendedAt
    <3>4. \A k \in DOMAIN queue'[Main] : ~Is(queue'[Main][k], m)
      BY <3>1, <3>2, <3>3 DEF Arrived
    <3> QED BY <2>1, <3>4 DEF Arrived
  <2>3. CASE FileOf[c] # Main
    <3>1. queue'[Main] = queue[Main]
      BY <1>0, <1>1, <2>3, TranscriptAssumption DEF Put
    <3> QED BY <2>1, <3>1 DEF Arrived
  <2> QED BY <2>2, <2>3
<1>2. ASSUME NEW d \in Drains, NEW f \in Files, Grab(d, f) PROVE Arrived(m)'
  <2>1. /\ queue'[f] = <<>> /\ \A g \in Files \ {f} : queue'[g] = queue[g]
        /\ batch'[d] = queue[f] /\ target'[d] = f
        /\ \A e \in Drains \ {d} : batch'[e] = batch[e] /\ target'[e] = target[e]
        /\ messageSet' = messageSet
    BY <1>0, <1>2 DEF Grab
  <2>2. \A i \in DOMAIN queue'[Main] : ~Is(queue'[Main][i], m)
    BY <1>0, <2>1 DEF Arrived
  <2>3. \A e \in Drains : target'[e] = Main => \A i \in DOMAIN batch'[e] : ~Is(batch'[e][i], m)
    BY <2>1 DEF Arrived
  <2> QED BY <2>1, <2>2, <2>3 DEF Arrived
<1>3. ASSUME NEW d \in Drains, Store(d) \/ Drop(d) PROVE Arrived(m)'
  <2>1. /\ batch'[d] = <<>> /\ \A e \in Drains \ {d} : batch'[e] = batch[e]
        /\ UNCHANGED <<queue, target, messageSet>>
    BY <1>0, <1>3 DEF Store, Drop
  <2>2. \A e \in Drains : target[e] = Main => \A i \in DOMAIN batch'[e] : ~Is(batch'[e][i], m)
    BY <2>1 DEF Arrived
  <2> QED BY <2>1, <2>2 DEF Arrived
<1>4. CASE UNCHANGED <<queue, batch, target, messageSet>>
  BY <1>4 DEF Arrived
<1> QED BY <1>1, <1>2, <1>3, <1>4 DEF Effect, TakeOut, Still

LEMMA NextGone ==
  ASSUME Base, HeldOnce, HandedInOnce, Gone, ~clash, Effect
  PROVE  Gone'
<1> SUFFICES ASSUME NEW r \in Removals
             PROVE  /\ removing'[r] \in {"read", "cut", "done"} /\ found'[r] => Arrived(Target[r])'
                    /\ removing'[r] = "cut" \/ (removing'[r] = "done" /\ found'[r])
                          => Absent(Target[r])'
  BY DEF Gone
<1> DEFINE m == Target[r]
<1>1. Arrived(m) => Arrived(m)'
  BY ArrivedStays
<1>2. CASE removing'[r] = removing[r] /\ found'[r] = found[r] /\ Whole'[Main] = Whole[Main]
  BY <1>1, <1>2 DEF Gone, Absent
<1>3. ASSUME NEW d \in Drains, Store(d)
      PROVE  /\ removing'[r] = removing[r] /\ found'[r] = found[r]
             /\ (removing[r] = "cut" \/ (removing[r] = "done" /\ found[r])) => Absent(m)'
  <2>0. Main \in Files /\ Whole \in [Files -> Seq(Inserts \cup {Hole})] /\ target[d] \in Files
    BY TranscriptAssumption, WholeIs DEF Base, Untouched, Holdings
  <2>1. /\ Whole' = [Whole EXCEPT ![target[d]] = @ \o batch[d]]
        /\ UNCHANGED <<removing, found>>
    BY <1>3 DEF Store
  <2>2. CASE target[d] # Main
    BY <2>0, <2>1, <2>2 DEF Gone, Absent
  <2>3. CASE target[d] = Main
    <3>1. removing[r] # "cut"
      BY <1>3, <2>3 DEF Store, Cutting
    <3>2. ASSUME removing[r] = "done", found[r] PROVE Absent(m)'
      <4> DEFINE s == Whole[Main]
                 t == batch[d]
      <4>1. (\A i \in DOMAIN s : ~Is(s[i], m)) /\ (\A i \in DOMAIN t : ~Is(t[i], m))
        BY <2>3, <3>2 DEF Gone, Absent, Arrived
      <4>2. s \in Seq(Inserts \cup {Hole}) /\ t \in Seq(Inserts \cup {Hole})
        <5>1. t \in Seq(Inserts)
          BY DEF Base, Holdings
        <5> HIDE DEF t
        <5> QED BY <2>0, <5>1
      <4>3. Whole'[Main] = s \o t
        BY <2>0, <2>1, <2>3
      <4> HIDE DEF s, t
      <4>4. \A k \in DOMAIN (s \o t) : ~Is((s \o t)[k], m)
        BY <4>1, <4>2, JoinedAt
      <4> QED BY <4>3, <4>4 DEF Absent
    <3> QED BY <2>1, <3>1, <3>2
  <2> QED BY <2>2, <2>3
<1>4. ASSUME NEW q \in Removals, TakeOut(q)
      PROVE  /\ removing'[r] \in {"read", "cut", "done"} /\ found'[r] => Arrived(m)'
             /\ removing'[r] = "cut" \/ (removing'[r] = "done" /\ found'[r]) => Absent(m)'
  <2>0. Main \in Files /\ Whole \in [Files -> Seq(Inserts \cup {Hole})]
    BY TranscriptAssumption, WholeIs DEF Base, Untouched
  <2>1. PICK g \in [DOMAIN Whole'[Main] -> DOMAIN Whole[Main]] :
          /\ \A i \in DOMAIN Whole'[Main] : Whole'[Main][i] = Whole[Main][g[i]]
          /\ \A i \in DOMAIN Whole'[Main] : Is(Whole'[Main][i], Target[q])
                => \E p \in DOMAIN Whole[Main] : p # g[i] /\ Is(Whole[Main][p], Target[q])
    BY <1>4 DEF TakeOut, Thin, Thinned
  <2>2. CASE q = r
    <3>1. removing[r] = "read" /\ found'[r] = found[r]
      BY <1>4, <2>2 DEF TakeOut, Thin
    <3>2. Absent(m)'
      <4> SUFFICES ASSUME NEW i \in DOMAIN Whole'[Main], Is(Whole'[Main][i], m) PROVE FALSE
        BY DEF Absent
      <4>1. PICK p \in DOMAIN Whole[Main] : p # g[i] /\ Is(Whole[Main][p], m)
        BY <2>1, <2>2
      <4>2. g[i] \in DOMAIN Whole[Main] /\ Is(Whole[Main][g[i]], m)
        BY <2>1
      <4> QED BY <4>1, <4>2, OnePlace
    <3> QED BY <1>1, <3>1, <3>2 DEF Gone
  <2>3. CASE q # r
    <3>1. removing'[r] = removing[r] /\ found'[r] = found[r]
      BY <1>4, <2>3 DEF TakeOut, Thin
    <3>2. Absent(m) => Absent(m)'
      BY <2>1 DEF Absent
    <3> QED BY <1>1, <3>1, <3>2 DEF Gone
  <2> QED BY <2>2, <2>3
<1>5. CASE Still
  <2>1. Looks(r) /\ Whole' = Whole
    BY <1>5 DEF Still
  <2>2. Absent(m) => Absent(m)'
    BY <2>1 DEF Absent
  <2>3. CASE removing'[r] = "read" /\ (found'[r] => \E i \in DOMAIN Whole[Main] : Is(Whole[Main][i], Target[r]))
    BY <1>1, <2>3, InFileArrived
  <2> QED BY <1>1, <2>1, <2>2, <2>3 DEF Gone, Looks
<1> QED BY <1>1, <1>2, <1>3, <1>4, <1>5 DEF Effect, Put, Grab, Drop, Gone

LEMMA GoneIsRemoved ==
  ASSUME Base, Gone, ~clash
  PROVE  RemovedIsGone
<1> SUFFICES ASSUME NEW r \in Removals, removing[r] = "done", found[r]
             PROVE  Copies(file[Main], Target[r]) = {}
  BY DEF RemovedIsGone
<1>1. Main \in Files /\ Absent(Target[r])
  BY TranscriptAssumption DEF Gone
<1> QED BY <1>1, FileIsWhole DEF Copies, Absent, Base, Untouched

-----------------------------------------------------------------------------
(* Nothing is lost between the queue and the file *)

\* A removal was asked for it, or it is in its file, or in what is to be written back.
Removed(c) == FileOf[c] = Main /\ \E r \in Removals : removing[r] # "none" /\ Is(c, Target[r])
InFile(c) == c \in ToSet(Whole[FileOf[c]])

Kept == failures = 0 =>
    \A c \in ToSet(accepted) : OnItsWay(c) \/ InFile(c) \/ Removed(c)

\* A failure stays counted.
LEMMA FailureStays ==
  ASSUME Types, [Next]_vars, failures' = 0
  PROVE  failures = 0
<1>1. CASE UNCHANGED vars
  BY <1>1 DEF vars, ghosts
<1>2. ASSUME NEW c \in Inserts, InsertStep(c) PROVE failures = 0
  BY <1>2 DEF InsertStep, InsertEntry, InsertMessage, AppendMessage, ghosts
<1>3. ASSUME NEW d \in Timers, Fire(d) PROVE failures = 0
  BY <1>3 DEF Fire
<1>4. ASSUME NEW d \in Drains, DrainStep(d) PROVE failures = 0
  <2>1. failures' = failures \/ failures' = failures + 1
    BY <1>4 DEF DrainStep, AppendToFile, Fail, Continue
  <2>2. failures \in Nat
    BY DEF Types
  <2> QED BY <2>1, <2>2
<1>5. ASSUME NEW w \in Flushes, FlushStep(w) PROVE failures = 0
  BY <1>5 DEF FlushStep, Flush, FlushResumes
<1>6. ASSUME NEW r \in Removals, RemovalStep(r) PROVE failures = 0
  BY <1>6 DEF RemovalStep, Ask, Read, ReadAll, Cut, WriteBack, ghosts
<1> QED BY <1>1, <1>2, <1>3, <1>4, <1>5, <1>6 DEF Next

LEMMA RemovedStays ==
  ASSUME Effect, NEW c \in Inserts, Removed(c)
  PROVE  Removed(c)'
<1>1. PICK r \in Removals : removing[r] # "none" /\ Is(c, Target[r])
  BY DEF Removed
<1>2. CASE UNCHANGED removing
  BY <1>2 DEF Removed
<1>3. ASSUME NEW q \in Removals, TakeOut(q) PROVE Removed(c)'
  <2>1. removing'[r] # "none"
    BY <1>1, <1>3 DEF TakeOut, Thin
  <2> QED BY <1>1, <2>1 DEF Removed
<1>4. CASE Still
  <2>1. removing'[r] # "none"
    BY <1>1, <1>4 DEF Still, Looks
  <2> QED BY <1>1, <2>1 DEF Removed
<1> QED BY <1>2, <1>3, <1>4 DEF Effect, Put, Grab, Store, Drop

LEMMA InFileStays ==
  ASSUME Base, ~clash, Effect, NEW c \in Inserts, InFile(c)
  PROVE  InFile(c)' \/ Removed(c)'
<1> DEFINE f == FileOf[c]
           T == Inserts \cup {Hole}
<1>0. f \in Files /\ Main \in Files /\ Whole \in [Files -> Seq(T)]
  BY TranscriptAssumption, WholeIs DEF Base, Untouched
<1>1. PICK i \in DOMAIN Whole[f] : Whole[f][i] = c
  BY DEF InFile, ToSet
<1>2. CASE Whole' = Whole
  BY <1>2 DEF InFile, ToSet
<1>3. ASSUME NEW d \in Drains, Store(d) PROVE InFile(c)'
  <2> DEFINE s == Whole[f]
             t == batch[d]
  <2>1. Whole' = [Whole EXCEPT ![target[d]] = @ \o t] /\ target[d] \in Files
    BY <1>3 DEF Store, Base, Holdings
  <2>2. CASE target[d] # f
    BY <1>0, <2>1, <2>2 DEF InFile, ToSet
  <2>3. CASE target[d] = f
    <3>1. Whole'[f] = s \o t
      BY <1>0, <2>1, <2>3
    <3>2. s \in Seq(T) /\ t \in Seq(T)
      <4>1. t \in Seq(Inserts)
        BY DEF Base, Holdings
      <4> HIDE DEF t
      <4> QED BY <1>0, <4>1
    <3>3. i \in DOMAIN s /\ s[i] = c
      BY <1>1
    <3> HIDE DEF s, t
    <3>4. i \in DOMAIN (s \o t) /\ (s \o t)[i] = c
      BY <3>2, <3>3, JoinedAt
    <3> QED BY <3>1, <3>4 DEF InFile, ToSet
  <2> QED BY <2>2, <2>3
<1>4. ASSUME NEW r \in Removals, TakeOut(r) PROVE InFile(c)' \/ Removed(c)'
  <2>1. /\ removing[r] = "read" /\ removing'[r] \in {"cut", "done"}
        /\ Whole' = [Whole EXCEPT ![Main] = Whole'[Main]]
        /\ Thinned(Whole'[Main], Whole[Main], Target[r])
    BY <1>4 DEF TakeOut, Thin
  <2>2. CASE f # Main
    BY <1>0, <2>1, <2>2 DEF InFile, ToSet
  <2>3. CASE f = Main /\ Is(c, Target[r])
    <3>1. removing'[r] # "none"
      BY <2>1
    <3> QED BY <2>3, <3>1 DEF Removed
  <2>4. CASE f = Main /\ ~Is(c, Target[r])
    <3>1. PICK g \in [DOMAIN Whole'[Main] -> DOMAIN Whole[Main]] :
            /\ \A k \in DOMAIN Whole'[Main] : Whole'[Main][k] = Whole[Main][g[k]]
            /\ \A p \in DOMAIN Whole[Main] : ~Is(Whole[Main][p], Target[r])
                  => \E k \in DOMAIN Whole'[Main] : g[k] = p
      BY <2>1 DEF Thinned
    <3>2. PICK k \in DOMAIN Whole'[Main] : g[k] = i
      BY <1>1, <2>4, <3>1
    <3>3. Whole'[Main][k] = c
      BY <1>1, <2>4, <3>1, <3>2
    <3> QED BY <2>4, <3>3 DEF InFile, ToSet
  <2> QED BY <2>2, <2>3, <2>4
<1> QED BY <1>2, <1>3, <1>4 DEF Effect, Put, Grab, Drop, Still

LEMMA WayGoesOn ==
  ASSUME Base, ~clash, Effect, failures' = 0, NEW c \in Inserts, OnItsWay(c)
  PROVE  OnItsWay(c)' \/ InFile(c)'
<1> DEFINE f == FileOf[c]
           T == Inserts \cup {Hole}
<1>0. /\ f \in Files /\ queue \in [Files -> Seq(Inserts)]
      /\ batch \in [Drains -> Seq(Inserts)] /\ target \in [Drains -> Files]
  BY TranscriptAssumption DEF Base, IInv, Types, Holdings
<1>1. ASSUME NEW b \in Inserts, Put(b) PROVE OnItsWay(c)'
  <2>1. UNCHANGED <<batch, target>> /\ queue' = [queue EXCEPT ![FileOf[b]] = Append(@, b)]
    BY <1>1 DEF Put
  <2>2. CASE c \in ToSet(queue[f])
    <3>1. PICK i \in DOMAIN queue[f] : queue[f][i] = c
      BY <2>2 DEF ToSet
    <3>2. i \in DOMAIN Append(queue[f], b) /\ Append(queue[f], b)[i] = c
      BY <1>0, <3>1, AppendedAt
    <3>3. queue'[f] \in {queue[f], Append(queue[f], b)}
      BY <1>0, <2>1
    <3>4. i \in DOMAIN queue'[f] /\ queue'[f][i] = c
      BY <3>1, <3>2, <3>3
    <3> QED BY <3>4 DEF OnItsWay, ToSet
  <2>3. CASE \E d \in Drains : target[d] = f /\ c \in ToSet(batch[d])
    BY <2>1, <2>3 DEF OnItsWay
  <2> QED BY <2>2, <2>3 DEF OnItsWay
<1>2. ASSUME NEW d \in Drains, NEW g \in Files, Grab(d, g) PROVE OnItsWay(c)'
  <2>1. /\ batch[d] = <<>>
        /\ \A h \in Files \ {g} : queue'[h] = queue[h]
        /\ batch'[d] = queue[g] /\ target'[d] = g
        /\ \A e \in Drains \ {d} : batch'[e] = batch[e] /\ target'[e] = target[e]
    BY <1>0, <1>2 DEF Grab
  <2>2. CASE c \in ToSet(queue[f])
    <3>1. CASE f = g
      BY <2>1, <2>2, <3>1 DEF OnItsWay
    <3>2. CASE f # g
      BY <1>0, <2>1, <2>2, <3>2 DEF OnItsWay
    <3> QED BY <3>1, <3>2
  <2>3. ASSUME NEW e \in Drains, target[e] = f, c \in ToSet(batch[e]) PROVE OnItsWay(c)'
    <3>1. e # d
      BY <2>1, <2>3 DEF ToSet
    <3>2. target'[e] = f /\ c \in ToSet(batch'[e])
      BY <2>1, <2>3, <3>1
    <3> QED BY <3>2 DEF OnItsWay
  <2> QED BY <2>2, <2>3 DEF OnItsWay
<1>3. ASSUME NEW d \in Drains, Store(d) PROVE OnItsWay(c)' \/ InFile(c)'
  <2>1. /\ Whole' = [Whole EXCEPT ![target[d]] = @ \o batch[d]]
        /\ \A e \in Drains \ {d} : batch'[e] = batch[e]
        /\ UNCHANGED <<queue, target>>
    BY <1>0, <1>3 DEF Store
  <2>2. CASE c \in ToSet(queue[f])
    BY <2>1, <2>2 DEF OnItsWay
  <2>3. ASSUME NEW e \in Drains \ {d}, target[e] = f, c \in ToSet(batch[e]) PROVE OnItsWay(c)'
    <3>1. target'[e] = f /\ c \in ToSet(batch'[e])
      BY <2>1, <2>3
    <3> QED BY <3>1 DEF OnItsWay
  <2>4. CASE target[d] = f /\ c \in ToSet(batch[d])
    <3> DEFINE s == Whole[f]
               t == batch[d]
    <3>1. s \in Seq(T) /\ t \in Seq(T)
      <4>1. t \in Seq(Inserts) /\ s \in Seq(T)
        BY <1>0, WholeIs DEF Base, Untouched
      <4> HIDE DEF t
      <4> QED BY <4>1
    <3>2. Whole'[f] = s \o t
      <4>1. Whole \in [Files -> Seq(T)]
        BY WholeIs DEF Base, Untouched
      <4> QED BY <1>0, <2>1, <2>4, <4>1
    <3>3. PICK i \in DOMAIN t : t[i] = c
      BY <2>4 DEF ToSet
    <3> HIDE DEF s, t
    <3>4. Len(s) + i \in DOMAIN (s \o t) /\ (s \o t)[Len(s) + i] = c
      BY <3>1, <3>3, JoinedAt
    <3> QED BY <3>2, <3>4 DEF InFile, ToSet
  <2> QED BY <2>2, <2>3, <2>4 DEF OnItsWay
<1>4. CASE UNCHANGED <<queue, batch, target>>
  BY <1>4 DEF OnItsWay
<1> QED BY <1>1, <1>2, <1>3, <1>4 DEF Effect, Drop, TakeOut, Still

LEMMA NextKept ==
  ASSUME Base, Kept, ~clash, [Next]_vars, Effect
  PROVE  Kept'
<1> SUFFICES ASSUME failures' = 0, NEW c \in ToSet(accepted')
             PROVE  OnItsWay(c)' \/ InFile(c)' \/ Removed(c)'
  BY DEF Kept
<1>1. failures = 0 /\ accepted \in Seq(Inserts)
  BY FailureStays DEF Base, IInv, Types
<1>2. CASE c \in ToSet(accepted)
  <2>1. c \in Inserts
    BY <1>1, <1>2 DEF ToSet
  <2>2. OnItsWay(c) \/ InFile(c) \/ Removed(c)
    BY <1>1, <1>2 DEF Kept
  <2> QED BY <2>1, <2>2, WayGoesOn, InFileStays, RemovedStays
<1>3. CASE c \notin ToSet(accepted)
  <2>1. PICK b \in Inserts : Put(b)
    BY <1>3 DEF Effect, Grab, Store, Drop, TakeOut, Still
  <2>2. c = b
    <3>1. PICK k \in DOMAIN accepted' : accepted'[k] = c
      BY DEF ToSet
    <3>2. accepted' = Append(accepted, b)
      BY <2>1 DEF Put
    <3>3. (k \in DOMAIN accepted /\ accepted'[k] = accepted[k]) \/ accepted'[k] = b
      BY <1>1, <3>1, <3>2, AppendedAt
    <3> QED BY <1>3, <3>1, <3>3 DEF ToSet
  <2>3. FileOf[b] \in Files /\ queue \in [Files -> Seq(Inserts)]
    BY TranscriptAssumption DEF Base, IInv, Types
  <2>4. queue'[FileOf[b]] = Append(queue[FileOf[b]], b)
    BY <2>1, <2>3 DEF Put
  <2>5. b \in ToSet(queue'[FileOf[b]])
    BY <2>3, <2>4, AppendedAt DEF ToSet
  <2> QED BY <2>2, <2>5 DEF OnItsWay
<1> QED BY <1>2, <1>3

\* What a file stands for is in it, or held by a removal that has cut it.
LEMMA InFileIsSaved ==
  ASSUME Base, ~clash, NEW c \in Inserts, InFile(c) \/ Removed(c)
  PROVE  Saved(c) \/ TakenOut(c)
<1> DEFINE f == FileOf[c]
<1>0. f \in Files /\ OneCut /\ Holdings
  BY TranscriptAssumption DEF Base, Untouched
<1>1. CASE Removed(c)
  BY <1>1 DEF Removed, TakenOut
<1>2. CASE InFile(c) /\ (f # Main \/ Cutting = {})
  BY <1>0, <1>2, WholeIs DEF InFile, Saved
<1>3. CASE InFile(c) /\ f = Main /\ Cutting # {}
  <2>1. PICK r \in Cutting : Whole[Main] = file[Main] \o rest[r]
    BY <1>0, <1>3, WholeIs
  <2> DEFINE s == file[Main]
             t == rest[r]
             T == Inserts \cup {Hole}
  <2>2. s \in Seq(T) /\ t \in Seq(T)
    BY <1>0, <1>3, <2>1 DEF Holdings, Cutting
  <2>3. PICK k \in DOMAIN Whole[Main] : Whole[Main][k] = c
    BY <1>3 DEF InFile, ToSet
  <2>4. Whole[Main] = s \o t
    BY <2>1
  <2> HIDE DEF s, t, T
  <2>5. c \in ToSet(s) \/ c \in ToSet(t)
    BY <2>2, <2>3, <2>4, JoinedAt DEF ToSet
  <2> QED BY <1>3, <2>1, <2>5 DEF Saved, TakenOut, Cutting, s, t
<1> QED BY <1>1, <1>2, <1>3

LEMMA KeptIsNotLost ==
  ASSUME Base, Kept, ~clash
  PROVE  NothingLost
<1> SUFFICES ASSUME failures = 0, NEW c \in ToSet(accepted)
             PROVE  OnItsWay(c) \/ Saved(c) \/ TakenOut(c)
  BY DEF NothingLost
<1>1. c \in Inserts
  BY DEF Base, IInv, Types, ToSet
<1> QED BY <1>1, InFileIsSaved DEF Kept

-----------------------------------------------------------------------------
(* A file is written in the order in which its entries were queued *)

\* x is before y in a; s is in the order of a; all of s is before all of t.
Earlier(a, x, y) == \E i, j \in DOMAIN a : i < j /\ a[i] = x /\ a[j] = y
Rising(a, s) == \A i, j \in DOMAIN s : i < j => Earlier(a, s[i], s[j])
Follows(a, s, t) == \A i \in DOMAIN s, j \in DOMAIN t : Earlier(a, s[i], t[j])

\* Only one drain has a batch for f, the file comes before it and it before the queue.
OneBatch(f) == \A d, e \in Drains :
    target[d] = f /\ target[e] = f /\ batch[d] # <<>> /\ batch[e] # <<>> => d = e

LineUp(f) ==
    /\ OneBatch(f)
    /\ Rising(accepted, Whole[f]) /\ Follows(accepted, Whole[f], queue[f])
    /\ \A d \in Drains : target[d] = f =>
          /\ Rising(accepted, batch[d])
          /\ Follows(accepted, Whole[f], batch[d])
          /\ Follows(accepted, batch[d], queue[f])

InLine ==
    /\ \A f \in Files : Rising(accepted, queue[f])
    /\ \A f \in Files \ crossed : LineUp(f)

LEMMA EmptyLines ==
  \A a, s : Rising(a, <<>>) /\ Follows(a, s, <<>>) /\ Follows(a, <<>>, s)
BY DEF Rising, Follows

\* What is accepted later comes after everything that was there.
LEMMA EarlierStays ==
  ASSUME NEW S, NEW a \in Seq(S), NEW c \in S
  PROVE  /\ \A x, y : Earlier(a, x, y) => Earlier(Append(a, c), x, y)
         /\ \A x \in ToSet(a) : Earlier(Append(a, c), x, c)
<1> DEFINE b == Append(a, c)
<1>1. /\ \A i \in DOMAIN a : i \in DOMAIN b /\ b[i] = a[i]
      /\ Len(a) + 1 \in DOMAIN b /\ b[Len(a) + 1] = c
      /\ \A i \in DOMAIN a : i < Len(a) + 1
  <2>1. \A i \in DOMAIN a : i < Len(a) + 1
    OBVIOUS
  <2> QED BY <2>1, AppendedAt
<1> HIDE DEF b
<1>2. \A x, y : Earlier(a, x, y) => Earlier(b, x, y)
  BY <1>1, Zenon DEF Earlier
<1>3. ASSUME NEW x \in ToSet(a) PROVE Earlier(b, x, c)
  <2>1. PICK i \in DOMAIN a : a[i] = x
    BY DEF ToSet
  <2> QED BY <1>1, <2>1 DEF Earlier
<1> QED BY <1>2, <1>3 DEF b

\* A sequence of what was accepted, to which the new entry is added.
LEMMA AppendLines ==
  ASSUME NEW S, NEW a \in Seq(S), NEW c \in S, NEW s \in Seq(S), NEW t \in Seq(S),
         \A i \in DOMAIN s : s[i] \in ToSet(a)
  PROVE  /\ Rising(a, s) => Rising(Append(a, c), s) /\ Rising(Append(a, c), Append(s, c))
         /\ Follows(a, s, t) => /\ Follows(Append(a, c), s, t)
                                /\ Follows(Append(a, c), s, Append(t, c))
<1> DEFINE b == Append(a, c)
           u == Append(s, c)
           v == Append(t, c)
<1>1. /\ \A x, y : Earlier(a, x, y) => Earlier(b, x, y)
      /\ \A x \in ToSet(a) : Earlier(b, x, c)
  BY EarlierStays
<1>2. /\ \A k \in DOMAIN u : (k \in DOMAIN s /\ u[k] = s[k]) \/ (k = Len(s) + 1 /\ u[k] = c)
      /\ \A k \in DOMAIN v : (k \in DOMAIN t /\ v[k] = t[k]) \/ (k = Len(t) + 1 /\ v[k] = c)
  BY AppendedAt
<1>3. DOMAIN s = 1..Len(s) /\ Len(s) \in Nat
  OBVIOUS
<1> HIDE DEF b, u, v
<1>4. ASSUME Rising(a, s) PROVE Rising(b, s)
  BY <1>1, <1>4, Zenon DEF Rising
<1>5. ASSUME Rising(a, s), NEW i \in DOMAIN u, NEW j \in DOMAIN u, i < j
      PROVE  Earlier(b, u[i], u[j])
  <2>1. i \in DOMAIN s /\ u[i] = s[i]
    BY <1>2, <1>3, <1>5
  <2>2. CASE j \in DOMAIN s /\ u[j] = s[j]
    BY <1>1, <1>5, <2>1, <2>2 DEF Rising
  <2>3. CASE u[j] = c
    BY <1>1, <2>1, <2>3
  <2> QED BY <1>2, <2>2, <2>3
<1>6. ASSUME Follows(a, s, t) PROVE Follows(b, s, t)
  BY <1>1, <1>6, Zenon DEF Follows
<1>7. ASSUME Follows(a, s, t), NEW i \in DOMAIN s, NEW j \in DOMAIN v
      PROVE  Earlier(b, s[i], v[j])
  <2>1. CASE j \in DOMAIN t /\ v[j] = t[j]
    BY <1>1, <1>7, <2>1 DEF Follows
  <2>2. CASE v[j] = c
    BY <1>1, <2>2
  <2> QED BY <1>2, <2>1, <2>2
<1> QED BY <1>4, <1>5, <1>6, <1>7 DEF Rising, Follows, b, u, v

\* Two sequences, one behind the other.
LEMMA JoinedLines ==
  ASSUME NEW S, NEW s \in Seq(S), NEW t \in Seq(S), NEW a
  PROVE  /\ Rising(a, s) /\ Rising(a, t) /\ Follows(a, s, t) => Rising(a, s \o t)
         /\ \A q : Follows(a, s, q) /\ Follows(a, t, q) => Follows(a, s \o t, q)
<1> DEFINE u == s \o t
<1>1. \A k \in DOMAIN u :
              \/ k \in DOMAIN s /\ u[k] = s[k]
              \/ \E j \in DOMAIN t : k = Len(s) + j /\ u[k] = t[j]
  BY JoinedAt
<1>2. DOMAIN s = 1..Len(s) /\ DOMAIN t = 1..Len(t) /\ Len(s) \in Nat /\ Len(t) \in Nat
  OBVIOUS
<1> HIDE DEF u
<1>3. ASSUME Rising(a, s), Rising(a, t), Follows(a, s, t),
             NEW k \in DOMAIN u, NEW l \in DOMAIN u, k < l
      PROVE  Earlier(a, u[k], u[l])
  <2>1. CASE l \in DOMAIN s /\ u[l] = s[l]
    <3>1. k \in DOMAIN s /\ u[k] = s[k]
      BY <1>1, <1>2, <1>3, <2>1
    <3> QED BY <1>3, <2>1, <3>1 DEF Rising
  <2>2. ASSUME NEW j \in DOMAIN t, l = Len(s) + j, u[l] = t[j] PROVE Earlier(a, u[k], u[l])
    <3>1. CASE k \in DOMAIN s /\ u[k] = s[k]
      BY <1>3, <2>2, <3>1 DEF Follows
    <3>2. ASSUME NEW i \in DOMAIN t, k = Len(s) + i, u[k] = t[i] PROVE Earlier(a, u[k], u[l])
      <4>1. i < j
        BY <1>2, <1>3, <2>2, <3>2
      <4> QED BY <1>3, <2>2, <3>2, <4>1 DEF Rising
    <3> QED BY <1>1, <3>1, <3>2
  <2> QED BY <1>1, <2>1, <2>2
<1>4. ASSUME NEW q, Follows(a, s, q), Follows(a, t, q), NEW k \in DOMAIN u, NEW l \in DOMAIN q
      PROVE  Earlier(a, u[k], q[l])
  BY <1>1, <1>4 DEF Follows
<1> QED BY <1>3, <1>4 DEF Rising, Follows, u

\* What is left of a sequence is in its order.
LEMMA ThinnedLines ==
  ASSUME NEW s, NEW t, NEW m, NEW a, Thinned(t, s, m)
  PROVE  /\ Rising(a, s) => Rising(a, t)
         /\ \A q : Follows(a, s, q) => Follows(a, t, q)
<1>1. PICK g \in [DOMAIN t -> DOMAIN s] :
        /\ \A i, j \in DOMAIN t : i < j => g[i] < g[j]
        /\ \A i \in DOMAIN t : t[i] = s[g[i]]
  BY DEF Thinned
<1>2. \A i \in DOMAIN t : g[i] \in DOMAIN s /\ t[i] = s[g[i]]
  BY <1>1
<1>3. ASSUME Rising(a, s), NEW i \in DOMAIN t, NEW j \in DOMAIN t, i < j
      PROVE  Earlier(a, t[i], t[j])
  <2>1. g[i] < g[j]
    BY <1>1, <1>3
  <2> QED BY <1>2, <1>3, <2>1 DEF Rising
<1>4. ASSUME NEW q, Follows(a, s, q), NEW i \in DOMAIN t, NEW j \in DOMAIN q
      PROVE  Earlier(a, t[i], q[j])
  BY <1>2, <1>4 DEF Follows
<1> QED BY <1>3, <1>4 DEF Rising, Follows

LEMMA PutInLine ==
  ASSUME Base, HeldOnce, InLine, ~clash, NEW c \in Inserts, Put(c)
  PROVE  InLine'
<1> DEFINE a == accepted
           b == Append(a, c)
           T == Inserts \cup {Hole}
<1>1. /\ accepted \in Seq(Inserts) /\ queue \in [Files -> Seq(Inserts)]
      /\ batch \in [Drains -> Seq(Inserts)] /\ Whole \in [Files -> Seq(T)]
  BY WholeIs DEF Base, IInv, Types, Holdings, Untouched
<1>2. /\ accepted' = b
      /\ \A g \in Files : queue'[g] \in {queue[g], Append(queue[g], c)}
      /\ UNCHANGED <<batch, target, Whole, crossed>>
  BY <1>1 DEF Put
<1>4. \A s \in Seq(Inserts) : s \in Seq(T)
  OBVIOUS
<1>5. a \in Seq(T) /\ c \in T
  BY <1>1, <1>4
<1> HIDE DEF a, b, T
<1>6. ASSUME NEW g \in Files PROVE Rising(b, queue'[g])
  <2>1. /\ Rising(a, queue[g]) /\ \A i \in DOMAIN queue[g] : queue[g][i] \in ToSet(a)
        /\ queue[g] \in Seq(T)
    BY <1>1, <1>4 DEF InLine, HeldOnce, Queued, OwnOf, a
  <2> DEFINE q == queue[g]
  <2>2. q \in Seq(T) /\ Rising(a, q) /\ \A i \in DOMAIN q : q[i] \in ToSet(a)
    BY <2>1
  <2>3. queue'[g] \in {q, Append(q, c)}
    BY <1>2
  <2> HIDE DEF q
  <2>4. Rising(b, q) /\ Rising(b, Append(q, c))
    BY <1>5, <2>2, AppendLines DEF b
  <2> QED BY <2>3, <2>4
<1>7. ASSUME NEW g \in Files \ crossed PROVE LineUp(g)'
  <2> DEFINE s == Whole[g]
             q == queue[g]
  <2>1. /\ LineUp(g) /\ OwnOf(s, g)
        /\ \A d \in Drains : target[d] = g => OwnOf(batch[d], g)
    BY DEF InLine, HeldOnce, Stored, Batched
  <2>2. s \in Seq(T) /\ q \in Seq(T) /\ queue'[g] \in {q, Append(q, c)}
    BY <1>1, <1>2, <1>4
  <2>3. /\ Rising(a, s) /\ Follows(a, s, q) /\ \A i \in DOMAIN s : s[i] \in ToSet(a)
    BY <2>1 DEF LineUp, OwnOf, a
  <2>4. ASSUME NEW d \in Drains, target[d] = g
        PROVE  /\ batch[d] \in Seq(T) /\ Rising(a, batch[d]) /\ Follows(a, s, batch[d])
               /\ Follows(a, batch[d], q) /\ \A i \in DOMAIN batch[d] : batch[d][i] \in ToSet(a)
    BY <1>1, <1>4, <2>1, <2>4 DEF LineUp, OwnOf, a
  <2> HIDE DEF s, q
  <2>5. Rising(b, s) /\ Follows(b, s, queue'[g])
    <3>1. Rising(b, s) /\ Follows(b, s, q) /\ Follows(b, s, Append(q, c))
      BY <1>5, <2>2, <2>3, AppendLines DEF b
    <3> QED BY <2>2, <3>1
  <2>6. ASSUME NEW d \in Drains, target[d] = g
        PROVE  Rising(b, batch[d]) /\ Follows(b, s, batch[d]) /\ Follows(b, batch[d], queue'[g])
    <3> DEFINE t == batch[d]
    <3>1. /\ t \in Seq(T) /\ Rising(a, t) /\ Follows(a, s, t)
          /\ Follows(a, t, q) /\ \A i \in DOMAIN t : t[i] \in ToSet(a)
      BY <2>4, <2>6
    <3> HIDE DEF t
    <3>2. Rising(b, t) /\ Follows(b, t, q) /\ Follows(b, t, Append(q, c))
      BY <1>5, <2>2, <3>1, AppendLines DEF b
    <3>3. Follows(b, s, t)
      BY <1>5, <2>2, <2>3, <3>1, AppendLines DEF b
    <3> QED BY <2>2, <3>2, <3>3 DEF t
  <2>7. OneBatch(g)'
    BY <1>2, <2>1 DEF LineUp, OneBatch
  <2> QED BY <1>2, <2>5, <2>6, <2>7 DEF LineUp, s
<1> QED BY <1>2, <1>6, <1>7 DEF InLine

LEMMA GrabInLine ==
  ASSUME Base, InLine, NEW d \in Drains, NEW f \in Files, Grab(d, f)
  PROVE  InLine'
<1>1. /\ queue \in [Files -> Seq(Inserts)] /\ batch \in [Drains -> Seq(Inserts)]
      /\ target \in [Drains -> Files]
  BY DEF Base, IInv, Types, Holdings
<1>2. /\ queue'[f] = <<>> /\ \A g \in Files \ {f} : queue'[g] = queue[g]
      /\ batch'[d] = queue[f] /\ target'[d] = f
      /\ \A e \in Drains \ {d} : batch'[e] = batch[e] /\ target'[e] = target[e]
      /\ crossed \subseteq crossed' /\ UNCHANGED <<accepted, Whole>>
      /\ f \notin crossed' => \A e \in Drains \ {d} : target[e] = f => batch[e] = <<>>
  BY <1>1 DEF Grab
<1>3. \A g \in Files : Rising(accepted, queue'[g])
  BY <1>2, EmptyLines DEF InLine
<1>4. ASSUME NEW g \in Files \ crossed' PROVE LineUp(g)'
  <2>1. LineUp(g) /\ Rising(accepted, queue[g])
    BY <1>2 DEF InLine
  <2>2. OneBatch(g)'
    <3>1. CASE g = f
      BY <1>2, <1>4, <3>1 DEF OneBatch
    <3>2. CASE g # f
      BY <1>2, <2>1, <3>2 DEF LineUp, OneBatch
    <3> QED BY <3>1, <3>2
  <2>3. Follows(accepted, Whole[g], queue'[g])
    BY <1>2, <2>1, EmptyLines DEF LineUp
  <2>4. ASSUME NEW e \in Drains, target'[e] = g
        PROVE  /\ Rising(accepted, batch'[e])
               /\ Follows(accepted, Whole[g], batch'[e])
               /\ Follows(accepted, batch'[e], queue'[g])
    <3>1. CASE e = d
      BY <1>2, <2>1, <2>4, <3>1, EmptyLines DEF LineUp
    <3>2. CASE e # d /\ g = f
      BY <1>2, <1>4, <2>4, <3>2, EmptyLines
    <3>3. CASE e # d /\ g # f
      BY <1>2, <2>1, <2>4, <3>3 DEF LineUp
    <3> QED BY <3>1, <3>2, <3>3
  <2> QED BY <1>2, <2>1, <2>2, <2>3, <2>4 DEF LineUp
<1> QED BY <1>2, <1>3, <1>4 DEF InLine

LEMMA DropInLine ==
  ASSUME Base, InLine, NEW d \in Drains, Drop(d)
  PROVE  InLine'
<1>1. /\ batch'[d] = <<>> /\ \A e \in Drains \ {d} : batch'[e] = batch[e]
      /\ UNCHANGED <<queue, target, accepted, Whole, crossed>>
  BY DEF Drop, Base, Holdings
<1>2. ASSUME NEW g \in Files \ crossed PROVE LineUp(g)'
  <2>1. LineUp(g)
    BY DEF InLine
  <2>2. OneBatch(g)'
    BY <1>1, <2>1 DEF LineUp, OneBatch
  <2>3. \A e \in Drains : target[e] = g =>
               /\ Rising(accepted, batch'[e])
               /\ Follows(accepted, Whole[g], batch'[e])
               /\ Follows(accepted, batch'[e], queue[g])
    BY <1>1, <2>1, EmptyLines DEF LineUp
  <2> QED BY <1>1, <2>1, <2>2, <2>3 DEF LineUp
<1> QED BY <1>1, <1>2 DEF InLine

LEMMA StoreInLine ==
  ASSUME Base, InLine, ~clash, NEW d \in Drains, Store(d)
  PROVE  InLine'
<1> DEFINE T == Inserts \cup {Hole}
           f == target[d]
<1>1. /\ batch \in [Drains -> Seq(Inserts)] /\ Whole \in [Files -> Seq(T)] /\ f \in Files
  BY WholeIs DEF Base, Holdings, Untouched
<1>2. /\ batch'[d] = <<>> /\ \A e \in Drains \ {d} : batch'[e] = batch[e]
      /\ Whole'[f] = Whole[f] \o batch[d] /\ \A g \in Files \ {f} : Whole'[g] = Whole[g]
      /\ UNCHANGED <<queue, target, accepted, crossed>>
  BY <1>1 DEF Store
<1> HIDE DEF T
<1>3. ASSUME NEW g \in Files \ crossed PROVE LineUp(g)'
  <2>1. LineUp(g)
    BY DEF InLine
  <2>2. OneBatch(g)'
    BY <1>2, <2>1 DEF LineUp, OneBatch
  <2>3. CASE g # f
    <3>1. \A e \in Drains : target[e] = g => batch'[e] = batch[e]
      BY <1>2, <2>3
    <3> QED BY <1>2, <2>1, <2>2, <2>3, <3>1 DEF LineUp
  <2>4. CASE g = f
    <3> DEFINE s == Whole[f]
               t == batch[d]
    <3>1. s \in Seq(T) /\ t \in Seq(T)
      <4>1. t \in Seq(Inserts)
        BY <1>1
      <4> HIDE DEF t
      <4> QED BY <1>1, <4>1 DEF T
    <3>2. /\ Rising(accepted, s) /\ Follows(accepted, s, queue[f])
          /\ Rising(accepted, t) /\ Follows(accepted, s, t) /\ Follows(accepted, t, queue[f])
      BY <2>1, <2>4 DEF LineUp
    <3>3. ASSUME NEW e \in Drains \ {d}, target[e] = f
          PROVE  /\ Rising(accepted, batch[e]) /\ Follows(accepted, batch[e], queue[f])
                 /\ Follows(accepted, s, batch[e]) /\ Follows(accepted, t, batch[e])
      <4>1. t = <<>> \/ batch[e] = <<>>
        BY <2>1, <2>4, <3>3 DEF LineUp, OneBatch
      <4> QED BY <2>1, <2>4, <3>3, <4>1, EmptyLines DEF LineUp
    <3> HIDE DEF s, t
    <3>4. /\ Rising(accepted, s \o t)
          /\ \A q : Follows(accepted, s, q) /\ Follows(accepted, t, q)
                       => Follows(accepted, s \o t, q)
      BY <3>1, <3>2, JoinedLines
    <3> DEFINE u == s \o t
    <3>5. Whole'[f] = u
      BY <1>2 DEF s, t
    <3>6. Rising(accepted, u) /\ Follows(accepted, u, queue[f])
      BY <3>2, <3>4
    <3>7. ASSUME NEW e \in Drains, target[e] = f
          PROVE  /\ Rising(accepted, batch'[e]) /\ Follows(accepted, u, batch'[e])
                 /\ Follows(accepted, batch'[e], queue[f])
      <4>1. CASE e = d
        BY <1>2, <4>1, EmptyLines
      <4>2. CASE e # d
        BY <1>2, <3>3, <3>4, <3>7, <4>2
      <4> QED BY <4>1, <4>2
    <3> HIDE DEF u
    <3> QED BY <1>2, <2>2, <2>4, <3>5, <3>6, <3>7 DEF LineUp
  <2> QED BY <2>3, <2>4
<1> QED BY <1>2, <1>3 DEF InLine

LEMMA RemoveInLine ==
  ASSUME Base, InLine, ~clash, NEW r \in Removals, TakeOut(r)
  PROVE  InLine'
<1>1. Main \in Files /\ Whole \in [Files -> Seq(Inserts \cup {Hole})]
  BY TranscriptAssumption, WholeIs DEF Base, Untouched
<1>2. /\ \A g \in Files \ {Main} : Whole'[g] = Whole[g]
      /\ Thinned(Whole'[Main], Whole[Main], Target[r])
      /\ UNCHANGED <<queue, batch, target, accepted, crossed>>
  BY <1>1 DEF TakeOut, Thin
<1>3. /\ Rising(accepted, Whole[Main]) => Rising(accepted, Whole'[Main])
      /\ \A q : Follows(accepted, Whole[Main], q) => Follows(accepted, Whole'[Main], q)
  BY <1>2, ThinnedLines
<1>4. ASSUME NEW g \in Files \ crossed PROVE LineUp(g)'
  <2>1. LineUp(g)
    BY DEF InLine
  <2>2. OneBatch(g)'
    BY <1>2, <2>1 DEF LineUp, OneBatch
  <2> QED BY <1>2, <1>3, <2>1, <2>2 DEF LineUp
<1> QED BY <1>2, <1>4 DEF InLine

LEMMA NextInLine ==
  ASSUME Base, HeldOnce, InLine, ~clash, Effect
  PROVE  InLine'
<1>1. CASE Still
  BY <1>1 DEF Still, InLine, LineUp, OneBatch
<1> QED BY <1>1, PutInLine, GrabInLine, DropInLine, StoreInLine, RemoveInLine DEF Effect

LEMMA LineIsInOrder ==
  ASSUME Base, InLine, ~clash
  PROVE  InOrder
<1> SUFFICES ASSUME NEW f \in Files \ crossed, NEW i \in DOMAIN file[f], NEW j \in DOMAIN file[f], i < j
             PROVE  Position(file[f][i]) < Position(file[f][j])
  BY DEF InOrder
<1>1. Earlier(accepted, file[f][i], file[f][j])
  <2>1. Rising(accepted, Whole[f])
    BY DEF InLine, LineUp
  <2>2. /\ i \in DOMAIN Whole[f] /\ Whole[f][i] = file[f][i]
        /\ j \in DOMAIN Whole[f] /\ Whole[f][j] = file[f][j]
    BY FileIsWhole DEF Base, Untouched
  <2> QED BY <2>1, <2>2 DEF Rising
<1>2. PICK k \in DOMAIN accepted, l \in DOMAIN accepted :
         k < l /\ accepted[k] = file[f][i] /\ accepted[l] = file[f][j]
  BY <1>1 DEF Earlier
<1>3. \A n \in DOMAIN accepted : Position(accepted[n]) = n
  BY DEF Base, AcceptedOnce, NoRepeat, Position
<1>4. Position(file[f][i]) = k /\ Position(file[f][j]) = l
  BY <1>2, <1>3, Zenon
<1> QED BY <1>2, <1>4

-----------------------------------------------------------------------------
(* What a flush that no other drain runs beside has drained *)

FlushTypes ==
    /\ before \in [Drains -> SUBSET Inserts]
    /\ awaited \in [Drains -> Drains \cup {None}]

LEMMA DrainStage ==
  ASSUME Types, NEW d \in Drains, NEW set, NEW active, Drain(d, set, active)
  PROVE  /\ \A e \in Drains \ {d} : stage'[e] = stage[e]
         /\ stage'[d] \in {"appending", "counting", "done"}
<1>1. EndOf(d) \in {"counting", "done"}
  BY DEF EndOf
<1>2. CASE Take(d, set, active)
  <2>1. stage' = [stage EXCEPT ![d] = "appending"]
    BY <1>2 DEF Take
  <2> QED BY <2>1 DEF Types
<1>3. CASE Finish(d, set, active)
  <2>1. stage' = [stage EXCEPT ![d] = EndOf(d)]
    BY <1>3 DEF Finish
  <2> QED BY <1>1, <2>1 DEF Types
<1> QED BY <1>2, <1>3 DEF Drain

LEMMA InitFlushTypes == Init => FlushTypes
BY DEF Init, FlushTypes

LEMMA NextFlushTypes ==
  ASSUME Types, FlushTypes, [Next]_vars
  PROVE  FlushTypes'
<1>0. ToSet(accepted) \in SUBSET Inserts
  BY DEF Types, ToSet
<1>1. CASE UNCHANGED <<before, awaited>>
  BY <1>1 DEF FlushTypes
<1>2. ASSUME NEW w \in Flushes, Flush(w) PROVE FlushTypes'
  <2>1. before' = [before EXCEPT ![w] = ToSet(accepted)]
    BY <1>2 DEF Flush
  <2>2. awaited' = awaited \/ awaited' = [awaited EXCEPT ![w] = activeDrain]
    BY <1>2 DEF Flush, FlushNow, FlushAwaits
  <2>3. activeDrain \in Drains \cup {None}
    BY DEF Types, Drains
  <2> QED BY <1>0, <2>1, <2>2, <2>3 DEF FlushTypes
<1>3. ASSUME NEW w \in Flushes, FlushResumes(w) PROVE FlushTypes'
  <2>1. before' = before /\ awaited' = [awaited EXCEPT ![w] = None]
    BY <1>3 DEF FlushResumes
  <2> QED BY <2>1 DEF FlushTypes
<1>4. CASE UNCHANGED vars
  BY <1>1, <1>4 DEF vars, drains, ghosts
<1>5. ASSUME NEW c \in Inserts, InsertStep(c) PROVE FlushTypes'
  BY <1>1, <1>5 DEF InsertStep, InsertEntry, InsertMessage, AppendMessage, drains, ghosts
<1>6. ASSUME NEW d \in Timers, Fire(d) PROVE FlushTypes'
  BY <1>1, <1>6 DEF Fire
<1>7. ASSUME NEW d \in Drains, DrainStep(d) PROVE FlushTypes'
  BY <1>1, <1>7 DEF DrainStep, AppendToFile, Fail, Continue
<1>8. ASSUME NEW r \in Removals, RemovalStep(r) PROVE FlushTypes'
  BY <1>1, <1>8 DEF RemovalStep, Ask, Read, ReadAll, Cut, WriteBack, drains, ghosts
<1> QED BY <1>2, <1>3, <1>4, <1>5, <1>6, <1>7, <1>8 DEF Next, FlushStep

\* While such a flush waits only the drain it waits for is under way, and then
\* only the flush itself.
AloneAt(w) ==
    /\ stage[w] = "awaiting" => \A d \in Drains : Busy(d) => d = awaited[w]
    /\ Busy(w) => \A d \in Drains : Busy(d) => d = w

Alone == \A w \in Flushes \ beside : AloneAt(w)

LEMMA QuietAlone ==
  ASSUME Alone, beside \subseteq beside',
         \A d \in Drains : Busy(d)' => Busy(d),
         \A w \in Flushes : stage'[w] = "awaiting"
            => stage[w] = "awaiting" /\ awaited'[w] = awaited[w]
  PROVE  Alone'
<1> SUFFICES ASSUME NEW w \in Flushes \ beside' PROVE AloneAt(w)'
  BY DEF Alone
<1>1. AloneAt(w) /\ w \in Drains
  BY DEF Alone, Drains
<1> QED BY <1>1 DEF AloneAt

LEMMA DrainAlone ==
  ASSUME Types, Alone, NEW d \in Drains, NEW set, NEW active, Drain(d, set, active),
         beside \cup Disturbed(d) \subseteq beside',
         \A w \in Flushes \ {d} : awaited'[w] = awaited[w],
         d \notin beside' => \A e \in Drains : Busy(e) => e = d
  PROVE  Alone'
<1>1. /\ \A e \in Drains \ {d} : stage'[e] = stage[e]
      /\ stage'[d] \in {"appending", "counting", "done"}
  BY DrainStage
<1>2. \A e \in Drains \ {d} : Busy(e)' <=> Busy(e)
  BY <1>1 DEF Busy
<1> SUFFICES ASSUME NEW w \in Flushes \ beside' PROVE AloneAt(w)'
  BY DEF Alone
<1>3. AloneAt(w) /\ w \in Drains
  BY DEF Alone, Drains
<1>4. CASE w = d
  BY <1>1, <1>2, <1>4 DEF AloneAt
<1>5. CASE w # d
  <2>1. ~Busy(w) /\ (stage[w] = "awaiting" => awaited[w] = d)
    BY <1>5 DEF Disturbed
  <2>2. ~Busy(w)'
    BY <1>2, <1>3, <1>5, <2>1
  <2> QED BY <1>1, <1>2, <1>3, <1>5, <2>1, <2>2 DEF AloneAt
<1> QED BY <1>4, <1>5

\* What a tracked operation does to the stages when it ends.
LEMMA ResolvedBusy ==
  ASSUME Types, NEW ins, NEW rem, stage' = stage \/ stage' = Resolved(ins, rem)
  PROVE  \A d \in Drains : /\ stage'[d] = stage[d] \/ (stage[d] = "counting" /\ stage'[d] = "done")
                           /\ Busy(d)' <=> Busy(d)
<1>1. \A d \in Drains : stage'[d] = stage[d] \/ (stage[d] = "counting" /\ stage'[d] = "done")
  BY ResolvedKeeps
<1> QED BY <1>1 DEF Busy

\* What insertions and removals do to the drains.
LEMMA ApartFromDrains ==
  ASSUME Types, \/ UNCHANGED vars
                \/ \E c \in Inserts : InsertStep(c)
                \/ \E r \in Removals : RemovalStep(r)
  PROVE  /\ \A d \in Drains :
               /\ stage'[d] = stage[d] \/ (stage[d] = "counting" /\ stage'[d] = "done")
               /\ Busy(d)' <=> Busy(d)
         /\ UNCHANGED <<batch, target, passed, awaited, before, beside>>
<1>1. UNCHANGED <<batch, target, passed, awaited, before, beside>>
  BY DEF vars, InsertStep, InsertEntry, InsertMessage, AppendMessage, RemovalStep, Ask, Read,
         ReadAll, Cut, WriteBack, drains, ghosts
<1>2. \E ins, rem : stage' = stage \/ stage' = Resolved(ins, rem)
  <2>1. CASE UNCHANGED vars
    BY <2>1 DEF vars, drains
  <2>2. ASSUME NEW c \in Inserts, InsertStep(c)
        PROVE  \E ins, rem : stage' = stage \/ stage' = Resolved(ins, rem)
    BY <2>2 DEF InsertStep, InsertEntry, InsertMessage, AppendMessage, drains
  <2>3. ASSUME NEW r \in Removals, RemovalStep(r)
        PROVE  \E ins, rem : stage' = stage \/ stage' = Resolved(ins, rem)
    BY <2>3 DEF RemovalStep, Ask, Read, ReadAll, Cut, WriteBack, EndRemoval, drains
  <2> QED BY <2>1, <2>2, <2>3
<1>3. PICK ins, rem : stage' = stage \/ stage' = Resolved(ins, rem)
  BY <1>2
<1> QED BY <1>1, <1>3, ResolvedBusy

LEMMA NextAlone ==
  ASSUME Types, FlushTypes, Alone, [Next]_vars
  PROVE  Alone'
<1>1. CASE \/ UNCHANGED vars
           \/ \E c \in Inserts : InsertStep(c)
           \/ \E r \in Removals : RemovalStep(r)
  <2>1. /\ \A d \in Drains :
             /\ stage'[d] = stage[d] \/ (stage[d] = "counting" /\ stage'[d] = "done")
             /\ Busy(d)' => Busy(d)
        /\ UNCHANGED <<awaited, beside>>
    BY <1>1, ApartFromDrains
  <2>2. \A w \in Flushes : w \in Drains
    BY DEF Drains
  <2>3. \A w \in Flushes : stage'[w] = "awaiting" => stage[w] = "awaiting" /\ awaited'[w] = awaited[w]
    BY <2>1, <2>2
  <2> QED BY <2>1, <2>3, QuietAlone
<1>2. ASSUME NEW d \in Timers, Fire(d) PROVE Alone'
  <2>1. d \in Drains /\ ~Busy(d)
    BY <1>2 DEF Drains, Fire, Unused, Busy
  <2>2. Drain(d, FALSE, d) /\ beside' = beside \cup Disturbed(d) /\ awaited' = awaited
    BY <1>2 DEF Fire
  <2>3. d \notin Flushes
    BY TranscriptAssumption
  <2>4. /\ \A e \in Drains \ {d} : stage'[e] = stage[e]
        /\ stage'[d] \in {"appending", "counting", "done"}
    BY <2>1, <2>2, DrainStage
  <2>5. ASSUME NEW w \in Flushes \ beside' PROVE AloneAt(w)'
    <3>1. AloneAt(w) /\ w \in Drains /\ w # d
      BY <2>2, <2>3 DEF Alone, Drains
    <3>2. ~Busy(w) /\ (stage[w] = "awaiting" => awaited[w] = d)
      BY <2>2, <3>1 DEF Disturbed
    <3> QED BY <2>2, <2>4, <3>1, <3>2 DEF AloneAt, Busy
  <2> QED BY <2>5 DEF Alone
<1>3. ASSUME NEW d \in Drains, DrainStep(d) PROVE Alone'
  <2>1. CASE AppendToFile(d)
    <3>1. stage[d] = "appending" /\ stage' = [stage EXCEPT ![d] = "appended"] /\ UNCHANGED <<awaited, beside>>
      BY <2>1 DEF AppendToFile
    <3>2. \A w \in Flushes : w \in Drains
      BY DEF Drains
    <3> QED BY <3>1, <3>2, QuietAlone DEF Types, Busy
  <2>2. CASE Fail(d)
    <3>1. /\ stage' = [w \in Drains |->
                   IF w = d \/ (stage[w] = "awaiting" /\ awaited[w] = d)
                   THEN "failed" ELSE stage[w]]
          /\ UNCHANGED <<awaited, beside>>
      BY <2>2 DEF Fail
    <3>2. \A w \in Flushes : w \in Drains
      BY DEF Drains
    <3> QED BY <3>1, <3>2, QuietAlone DEF Busy
  <2>3. CASE Continue(d)
    <3>1. /\ Busy(d) /\ Drain(d, timer, activeDrain)
          /\ beside' = beside \cup Disturbed(d) /\ awaited' = awaited
      BY <2>3 DEF Continue, Busy
    <3>2. CASE d \in Flushes
      <4>1. d \notin beside' => \A e \in Drains : Busy(e) => e = d
        BY <3>1, <3>2 DEF Alone, AloneAt
      <4> QED BY <3>1, <4>1, DrainAlone
    <3>3. CASE d \notin Flushes
      <4>1. /\ \A e \in Drains \ {d} : stage'[e] = stage[e]
            /\ stage'[d] \in {"appending", "counting", "done"}
        BY <3>1, DrainStage
      <4>2. ASSUME NEW w \in Flushes \ beside' PROVE AloneAt(w)'
        <5>1. AloneAt(w) /\ w \in Drains /\ w # d
          BY <3>1, <3>3 DEF Alone, Drains
        <5>2. ~Busy(w) /\ (stage[w] = "awaiting" => awaited[w] = d)
          BY <3>1, <5>1 DEF Disturbed
        <5> QED BY <3>1, <4>1, <5>1, <5>2 DEF AloneAt, Busy
      <4> QED BY <4>2 DEF Alone
    <3> QED BY <3>2, <3>3
  <2> QED BY <1>3, <2>1, <2>2, <2>3 DEF DrainStep
<1>4. ASSUME NEW w \in Flushes, Flush(w) PROVE Alone'
  <2>1. /\ stage[w] = "idle" /\ w \in Drains
        /\ beside' = beside \cup Disturbed(w) \cup BesideNow(w)
    BY <1>4 DEF Flush, Drains
  <2>2. w \notin beside' => \A e \in Drains : Busy(e) => e = activeDrain
    BY <2>1 DEF BesideNow
  <2>3. CASE FlushNow(w)
    <3>1. Drain(w, FALSE, activeDrain) /\ awaited' = awaited /\ activeDrain = None
      BY <2>3 DEF FlushNow, MustWait
    <3>2. \A e \in Drains : e # None
      BY TranscriptAssumption DEF Drains
    <3>3. w \notin beside' => \A e \in Drains : Busy(e) => e = w
      BY <2>2, <3>1, <3>2
    <3> QED BY <2>1, <3>1, <3>3, DrainAlone
  <2>4. CASE FlushAwaits(w)
    <3>1. /\ stage' = [stage EXCEPT ![w] =
                         IF stage[activeDrain] = "failed" THEN "failed" ELSE "awaiting"]
          /\ awaited' = [awaited EXCEPT ![w] = activeDrain]
      BY <2>4 DEF FlushAwaits
    <3>2. \A e \in Drains : Busy(e)' => Busy(e)
      BY <2>1, <3>1 DEF Types, Busy
    <3>3. ASSUME NEW v \in Flushes \ beside' PROVE AloneAt(v)'
      <4>1. AloneAt(v) /\ v \in Drains
        BY <2>1 DEF Alone, Drains
      <4>2. CASE v = w
        <5>1. ~Busy(w)' /\ awaited'[w] = activeDrain
          BY <2>1, <3>1 DEF Types, FlushTypes, Busy
        <5> QED BY <2>2, <3>2, <4>2, <5>1 DEF AloneAt
      <4>3. CASE v # w
        <5>1. stage'[v] = stage[v] /\ awaited'[v] = awaited[v]
          BY <2>1, <3>1, <4>1, <4>3 DEF Types, FlushTypes
        <5>2. Busy(v)' <=> Busy(v)
          BY <5>1 DEF Busy
        <5> QED BY <3>2, <4>1, <5>1, <5>2 DEF AloneAt
      <4> QED BY <4>2, <4>3
    <3> QED BY <3>3 DEF Alone
  <2> QED BY <1>4, <2>3, <2>4 DEF Flush
<1>5. ASSUME NEW w \in Flushes, FlushResumes(w) PROVE Alone'
  <2>1. /\ stage[w] = "awaiting" /\ stage[awaited[w]] = "done" /\ w \in Drains
        /\ Drain(w, timer, activeDrain) /\ awaited' = [awaited EXCEPT ![w] = None]
        /\ beside' = beside \cup Disturbed(w)
    BY <1>5 DEF FlushResumes, Drains
  <2>2. w \notin beside' => \A e \in Drains : Busy(e) => e = w
    BY <2>1 DEF Alone, AloneAt, Busy
  <2>3. \A v \in Flushes \ {w} : awaited'[v] = awaited[v]
    BY <2>1 DEF FlushTypes, Drains
  <2> QED BY <2>1, <2>2, <2>3, DrainAlone
<1> QED BY <1>1, <1>2, <1>3, <1>4, <1>5 DEF Next, FlushStep

\* The iteration of a flush has not passed an entry that was there when it began,
\* and when it is over they are all in their files.
Covers(w) ==
    /\ before[w] \subseteq ToSet(accepted)
    /\ Busy(w) => \A c \in before[w] :
          c \in ToSet(queue[FileOf[c]]) => FileOf[c] \notin passed[w]
    /\ stage[w] \in {"counting", "done"} => \A c \in before[w] : InFile(c) \/ Removed(c)

Covered == failures = 0 => \A w \in Flushes \ beside : Covers(w)

LEMMA AcceptedStays ==
  ASSUME Base, Effect
  PROVE  ToSet(accepted) \subseteq ToSet(accepted')
<1>1. CASE accepted' = accepted
  BY <1>1
<1>2. ASSUME NEW c \in Inserts, Put(c) PROVE ToSet(accepted) \subseteq ToSet(accepted')
  <2>1. accepted' = Append(accepted, c) /\ accepted \in Seq(Inserts)
    BY <1>2 DEF Put, Base, IInv, Types
  <2>2. \A i \in DOMAIN accepted : i \in DOMAIN accepted' /\ accepted'[i] = accepted[i]
    BY <2>1, AppendedAt
  <2> QED BY <2>2 DEF ToSet
<1> QED BY <1>1, <1>2 DEF Effect, Grab, Store, Drop, TakeOut, Still

LEMMA ThereStays ==
  ASSUME Base, ~clash, Effect, NEW c \in ToSet(accepted), InFile(c) \/ Removed(c)
  PROVE  (InFile(c) \/ Removed(c))'
<1>1. c \in Inserts
  BY DEF Base, IInv, Types, ToSet
<1> QED BY <1>1, InFileStays, RemovedStays

\* A step that is not one of the flush.
LEMMA OtherCovers ==
  ASSUME Base, ~clash, Effect, NEW w \in Flushes, Covers(w), before'[w] = before[w],
         Busy(w)' => /\ Busy(w) /\ passed'[w] = passed[w]
                     /\ \A c \in before[w] : c \in ToSet(queue'[FileOf[c]])
                                                => c \in ToSet(queue[FileOf[c]]),
         stage'[w] \in {"counting", "done"} => stage[w] \in {"counting", "done"}
  PROVE  Covers(w)'
<1>1. before'[w] \subseteq ToSet(accepted')
  BY AcceptedStays DEF Covers
<1>2. ASSUME Busy(w)', NEW c \in before'[w], c \in ToSet(queue'[FileOf[c]])
      PROVE  FileOf[c] \notin passed'[w]
  BY <1>2 DEF Covers
<1>3. ASSUME stage'[w] \in {"counting", "done"}, NEW c \in before'[w]
      PROVE  (InFile(c) \/ Removed(c))'
  <2>1. c \in ToSet(accepted) /\ (InFile(c) \/ Removed(c))
    BY <1>3 DEF Covers
  <2> QED BY <2>1, ThereStays
<1> QED BY <1>1, <1>2, <1>3 DEF Covers

\* A step of the flush: nothing waits or is on its way but what it still comes to.
LEMMA OwnCovers ==
  ASSUME Base, Kept, failures = 0, ~clash, Effect, NEW w \in Flushes, w \in Drains,
         NEW set, NEW active, Drain(w, set, active),
         before'[w] \subseteq ToSet(accepted),
         \A d \in Drains : batch[d] = <<>>,
         \A c \in before'[w] : c \in ToSet(queue[FileOf[c]]) => FileOf[c] \notin passed[w]
  PROVE  Covers(w)'
<1>0. /\ queue \in [Files -> Seq(Inserts)] /\ passed \in [Drains -> SUBSET Files]
      /\ since \in [Files -> Nat] /\ stage \in [Drains -> Stages]
      /\ \A c \in ToSet(accepted) : c \in Inserts /\ FileOf[c] \in Files
  BY TranscriptAssumption DEF Base, IInv, Types, ToSet
<1>1. before'[w] \subseteq ToSet(accepted')
  BY AcceptedStays
<1>2. CASE Take(w, set, active)
  <2> DEFINE f == NextKey(w)
  <2>1. f \in Waiting(w) /\ \A g \in Waiting(w) : since[f] <= since[g]
    BY <1>2, NextKeyWaits DEF Take, Base, IInv
  <2>2. /\ stage' = [stage EXCEPT ![w] = "appending"]
        /\ queue' = [queue EXCEPT ![f] = <<>>]
        /\ passed' = [passed EXCEPT ![w] = @ \cup {g \in Keys : since[g] <= since[f]}]
    BY <1>2 DEF Take, Emptied
  <2> HIDE DEF f
  <2>3. stage'[w] = "appending"
    BY <1>0, <2>2
  <2>4. ASSUME NEW c \in before'[w], c \in ToSet(queue'[FileOf[c]]), FileOf[c] \in passed'[w]
        PROVE  FALSE
    <3> DEFINE g == FileOf[c]
    <3>1. f \in Files /\ since[f] # 0 /\ g \in Files
      BY <1>0, <2>1 DEF Waiting, Keys
    <3>2. g # f
      <4>1. queue'[f] = <<>>
        BY <1>0, <2>2, <3>1
      <4> QED BY <2>4, <4>1 DEF ToSet
    <3>3. queue'[g] = queue[g]
      BY <1>0, <2>2, <3>1, <3>2
    <3>4. queue[g] # <<>> /\ g \notin passed[w]
      BY <2>4, <3>3 DEF ToSet
    <3>5. g \in Waiting(w)
      BY <3>1, <3>4 DEF Waiting, Keys, Base, IInv, Keyed
    <3>6. since[g] <= since[f]
      BY <1>0, <2>2, <2>4, <3>1, <3>4
    <3>7. since[f] <= since[g]
      BY <2>1, <3>5
    <3>8. since[g] = since[f]
      BY <1>0, <3>1, <3>6, <3>7
    <3> QED BY <3>1, <3>2, <3>8 DEF Base, IInv, Ordered
  <2> QED BY <1>1, <2>3, <2>4 DEF Covers
<1>3. CASE Finish(w, set, active)
  <2>1. Waiting(w) = {} /\ stage' = [stage EXCEPT ![w] = EndOf(w)]
    BY <1>3 DEF Finish
  <2>2. ~Busy(w)'
    BY <1>0, <2>1 DEF EndOf, Busy
  <2>3. ASSUME NEW c \in before'[w] PROVE (InFile(c) \/ Removed(c))'
    <3>1. c \in ToSet(accepted) /\ FileOf[c] \in Files
      BY <1>0
    <3>2. c \notin ToSet(queue[FileOf[c]])
      <4> SUFFICES ASSUME c \in ToSet(queue[FileOf[c]]) PROVE FALSE
        OBVIOUS
      <4>1. queue[FileOf[c]] # <<>>
        BY DEF ToSet
      <4>2. FileOf[c] \in Waiting(w)
        BY <3>1, <4>1 DEF Waiting, Keys, Base, IInv, Keyed
      <4> QED BY <2>1, <4>2
    <3>3. ~OnItsWay(c)
      BY <3>2 DEF OnItsWay, ToSet
    <3>4. InFile(c) \/ Removed(c)
      BY <3>1, <3>3 DEF Kept
    <3> QED BY <3>1, <3>4, ThereStays
  <2> QED BY <1>1, <2>2, <2>3 DEF Covers
<1> QED BY <1>2, <1>3 DEF Drain

\* What a drain does to the flushes that it does not run beside.
LEMMA DrainCovers ==
  ASSUME Base, Covered, failures = 0, ~clash, Effect, NEW d \in Drains, NEW set, NEW active,
         Drain(d, set, active), beside \cup Disturbed(d) \subseteq beside',
         NEW w \in Flushes \ beside', w # d, before'[w] = before[w]
  PROVE  Covers(w)'
<1>1. w \in Drains /\ ~Busy(w) /\ Covers(w)
  BY DEF Drains, Disturbed, Covered
<1>2. stage'[w] = stage[w]
  BY <1>1, DrainStage DEF Base, IInv
<1> QED BY <1>1, <1>2, OtherCovers DEF Busy

LEMMA NextCovered ==
  ASSUME Base, FlushTypes, Kept, Alone, Covered, ~clash, ~clash', Effect, [Next]_vars
  PROVE  Covered'
<1> SUFFICES ASSUME failures' = 0, NEW w \in Flushes \ beside' PROVE Covers(w)'
  BY DEF Covered
<1>1. failures = 0 /\ Types /\ w \in Drains
  BY FailureStays DEF Base, IInv, Drains
<1>2. ASSUME \/ UNCHANGED vars
             \/ \E c \in Inserts : InsertStep(c)
             \/ \E r \in Removals : RemovalStep(r)
      PROVE  Covers(w)'
  <2>1. /\ stage'[w] = stage[w] \/ (stage[w] = "counting" /\ stage'[w] = "done")
        /\ Busy(w)' <=> Busy(w)
        /\ UNCHANGED <<passed, before, beside>>
    BY <1>1, <1>2, ApartFromDrains
  <2>2. Covers(w)
    BY <1>1, <2>1 DEF Covered
  <2>3. \A c \in before[w] : c \in ToSet(queue'[FileOf[c]]) => c \in ToSet(queue[FileOf[c]])
    <3>1. CASE queue' = queue
      BY <3>1
    <3>2. ASSUME NEW b \in Inserts, Put(b), NEW c \in before[w], c \in ToSet(queue'[FileOf[c]])
          PROVE  c \in ToSet(queue[FileOf[c]])
      <4>1. c \in ToSet(accepted) /\ b \notin ToSet(accepted)
        BY <2>2, <3>2 DEF Covers, Put, ToSet
      <4>2. /\ queue \in [Files -> Seq(Inserts)] /\ FileOf[c] \in Files
            /\ queue' = [queue EXCEPT ![FileOf[b]] = Append(@, b)]
        BY <3>2, <4>1, TranscriptAssumption DEF Base, IInv, Types, ToSet, Put
      <4> DEFINE q == queue[FileOf[c]]
      <4>3. q \in Seq(Inserts) /\ queue'[FileOf[c]] \in {q, Append(q, b)}
        BY <4>2
      <4> HIDE DEF q
      <4>4. PICK k \in DOMAIN queue'[FileOf[c]] : queue'[FileOf[c]][k] = c
        BY <3>2 DEF ToSet
      <4>5. (k \in DOMAIN q /\ q[k] = c) \/ b = c
        BY <4>3, <4>4, AppendedAt
      <4> QED BY <4>1, <4>5 DEF q, ToSet
    <3>3. queue' = queue \/ \E b \in Inserts : Put(b)
      <4>1. CASE UNCHANGED vars
        BY <4>1 DEF vars, queues
      <4>2. ASSUME NEW c \in Inserts, InsertStep(c) PROVE queue' = queue \/ \E b \in Inserts : Put(b)
        BY <4>2, InsertEffect DEF Still
      <4>3. ASSUME NEW r \in Removals, RemovalStep(r) PROVE queue' = queue
        BY <4>3 DEF RemovalStep, Ask, Read, ReadAll, Cut, WriteBack, queues
      <4> QED BY <1>2, <4>1, <4>2, <4>3
    <3> QED BY <3>1, <3>2, <3>3
  <2> QED BY <2>1, <2>2, <2>3, OtherCovers
<1>3. ASSUME NEW d \in Timers, Fire(d) PROVE Covers(w)'
  <2>1. /\ Drain(d, FALSE, d) /\ beside' = beside \cup Disturbed(d) /\ before' = before
        /\ d \in Drains
    BY <1>3 DEF Fire, Drains
  <2>2. w # d
    BY TranscriptAssumption
  <2> QED BY <1>1, <2>1, <2>2, DrainCovers
<1>4. ASSUME NEW d \in Drains, DrainStep(d) PROVE Covers(w)'
  <2>1. CASE AppendToFile(d)
    <3>1. /\ stage[d] = "appending" /\ stage' = [stage EXCEPT ![d] = "appended"]
          /\ UNCHANGED <<queue, passed, before, beside>>
      BY <2>1 DEF AppendToFile, queues
    <3>2. Covers(w)
      BY <1>1, <3>1 DEF Covered
    <3>3. /\ Busy(w)' => Busy(w)
          /\ stage'[w] \in {"counting", "done"} => stage[w] \in {"counting", "done"}
      BY <1>1, <3>1 DEF Types, Busy
    <3> QED BY <3>1, <3>2, <3>3, OtherCovers
  <2>2. CASE Fail(d)
    BY <1>1, <2>2 DEF Fail
  <2>3. CASE Continue(d)
    <3>1. /\ stage[d] = "appended" /\ Drain(d, timer, activeDrain)
          /\ beside' = beside \cup Disturbed(d) /\ before' = before
      BY <2>3 DEF Continue
    <3>2. CASE w # d
      BY <1>1, <3>1, <3>2, DrainCovers
    <3>3. CASE w = d
      <4>1. Covers(w) /\ AloneAt(w) /\ Busy(w)
        BY <1>1, <3>1, <3>3 DEF Covered, Alone, Busy
      <4>2. \A e \in Drains : batch[e] = <<>>
        BY <3>1, <3>3, <4>1 DEF AloneAt, Base, OnlyAppending, Busy
      <4>3. /\ before'[w] \subseteq ToSet(accepted)
            /\ \A c \in before'[w] : c \in ToSet(queue[FileOf[c]]) => FileOf[c] \notin passed[w]
        BY <3>1, <4>1 DEF Covers
      <4> QED BY <1>1, <3>1, <3>3, <4>2, <4>3, OwnCovers
    <3> QED BY <3>2, <3>3
  <2> QED BY <1>4, <2>1, <2>2, <2>3 DEF DrainStep
<1>5. ASSUME NEW v \in Flushes, Flush(v) PROVE Covers(w)'
  <2>1. /\ stage[v] = "idle" /\ v \in Drains
        /\ before' = [before EXCEPT ![v] = ToSet(accepted)]
        /\ beside' = beside \cup Disturbed(v) \cup BesideNow(v)
    BY <1>5 DEF Flush, Drains
  <2>2. w # v => before'[w] = before[w]
    BY <1>1, <2>1 DEF FlushTypes
  <2>3. before'[v] = ToSet(accepted)
    BY <2>1 DEF FlushTypes
  <2>4. CASE FlushNow(v)
    <3>1. Drain(v, FALSE, activeDrain) /\ activeDrain = None
      BY <2>4 DEF FlushNow, MustWait
    <3>2. CASE w # v
      BY <1>1, <2>1, <2>2, <3>1, <3>2, DrainCovers
    <3>3. CASE w = v
      <4>1. \A e \in Drains : ~Busy(e)
        <5>1. \A e \in Drains : e # None
          BY TranscriptAssumption DEF Drains
        <5> QED BY <2>1, <3>1, <3>3, <5>1 DEF BesideNow
      <4>2. \A e \in Drains : batch[e] = <<>>
        BY <4>1 DEF Base, OnlyAppending, Busy
      <4>3. passed[w] = {}
        BY <1>1, <4>1 DEF Base, IInv, IdleStartsOver
      <4> QED BY <1>1, <2>3, <3>1, <3>3, <4>2, <4>3, OwnCovers
    <3> QED BY <3>2, <3>3
  <2>5. CASE FlushAwaits(v)
    <3>1. /\ stage' = [stage EXCEPT ![v] =
                         IF stage[activeDrain] = "failed" THEN "failed" ELSE "awaiting"]
          /\ UNCHANGED <<queue, passed>>
      BY <2>5 DEF FlushAwaits
    <3>2. CASE w # v
      <4>1. Covers(w) /\ stage'[w] = stage[w] /\ (Busy(w)' <=> Busy(w))
        BY <1>1, <2>1, <3>1, <3>2 DEF Covered, Types, Busy
      <4> QED BY <2>2, <3>1, <3>2, <4>1, OtherCovers
    <3>3. CASE w = v
      <4>1. stage'[w] \in {"failed", "awaiting"} /\ ~Busy(w)'
        BY <1>1, <3>1, <3>3 DEF Types, Busy
      <4>2. before'[w] \subseteq ToSet(accepted')
        BY <2>3, <3>3, AcceptedStays
      <4> QED BY <4>1, <4>2 DEF Covers
    <3> QED BY <3>2, <3>3
  <2> QED BY <1>5, <2>4, <2>5 DEF Flush
<1>6. ASSUME NEW v \in Flushes, FlushResumes(v) PROVE Covers(w)'
  <2>1. /\ stage[v] = "awaiting" /\ stage[awaited[v]] = "done" /\ v \in Drains
        /\ Drain(v, timer, activeDrain)
        /\ beside' = beside \cup Disturbed(v) /\ before' = before
    BY <1>6 DEF FlushResumes, Drains
  <2>2. CASE w # v
    BY <1>1, <2>1, <2>2, DrainCovers
  <2>3. CASE w = v
    <3>1. Covers(w) /\ AloneAt(w)
      BY <1>1, <2>1 DEF Covered, Alone
    <3>2. \A e \in Drains : ~Busy(e)
      BY <2>1, <2>3, <3>1 DEF AloneAt, Busy
    <3>3. \A e \in Drains : batch[e] = <<>>
      BY <3>2 DEF Base, OnlyAppending, Busy
    <3>4. passed[w] = {}
      BY <1>1, <3>2 DEF Base, IInv, IdleStartsOver
    <3>5. before'[w] \subseteq ToSet(accepted)
      BY <2>1, <3>1 DEF Covers
    <3> QED BY <1>1, <2>1, <2>3, <3>3, <3>4, <3>5, OwnCovers
  <2> QED BY <2>2, <2>3
<1> QED BY <1>2, <1>3, <1>4, <1>5, <1>6 DEF Next, FlushStep

LEMMA CoveredIsSaved ==
  ASSUME Base, Covered, ~clash
  PROVE  FlushCovers
<1> SUFFICES ASSUME failures = 0, NEW w \in Flushes \ beside, stage[w] \in {"counting", "done"},
                    NEW c \in before[w]
             PROVE  Saved(c) \/ TakenOut(c)
  BY DEF FlushCovers
<1>1. c \in ToSet(accepted) /\ (InFile(c) \/ Removed(c))
  BY DEF Covered, Covers
<1>2. c \in Inserts
  BY <1>1 DEF Base, IInv, Types, ToSet
<1> QED BY <1>1, <1>2, InFileIsSaved

-----------------------------------------------------------------------------
(* The theorems *)

\* Everything the steps preserve as long as nothing falls into a removal.
Undisturbed == Base /\ HeldOnce /\ HandedInOnce /\ Gone /\ Kept /\ InLine /\ Covered

TInv == IInv /\ Holdings /\ FlushTypes /\ Alone /\ (~clash => Undisturbed)

LEMMA InitTInv == Init => TInv
<1> SUFFICES ASSUME Init PROVE TInv
  OBVIOUS
<1>1. Base /\ FlushTypes
  BY InitBase, InitFlushTypes
<1>2. Main \in Files /\ Cutting = {} /\ OneCut /\ Holdings
  BY <1>1, TranscriptAssumption DEF Init, Cutting, OneCut, Base
<1>3. /\ \A f \in Files : queue[f] = <<>> /\ Whole[f] = <<>>
      /\ \A d \in Drains : batch[d] = <<>> /\ stage[d] = "idle" /\ before[d] = {}
      /\ accepted = <<>> /\ \A r \in Removals : removing[r] = "none"
  BY <1>2, WholeIs DEF Init
<1>4. \A w \in Flushes : w \in Drains
  BY DEF Drains
<1>5. Alone
  BY <1>3, <1>4 DEF Alone, AloneAt, Busy
<1>6. target \in [Drains -> Files]
  BY <1>2 DEF Holdings
<1>7. HeldOnce
  BY <1>3, <1>6 DEF HeldOnce, Queued, Batched, Stored, NoRepeat, OwnOf, Apart
<1>8. HandedInOnce
  BY <1>3 DEF HandedInOnce
<1>9. Gone
  BY <1>3 DEF Gone
<1>10. Kept
  BY <1>3 DEF Kept, ToSet
<1>11. InLine
  BY <1>3, EmptyLines DEF InLine, LineUp, OneBatch
<1>12. Covered
  BY <1>3, <1>4 DEF Covered, Covers, Busy
<1> QED BY <1>1, <1>2, <1>5, <1>7, <1>8, <1>9, <1>10, <1>11, <1>12 DEF TInv, Undisturbed, Base

LEMMA NextTInv == TInv /\ [Next]_vars => TInv'
<1> SUFFICES ASSUME TInv, [Next]_vars PROVE TInv'
  OBVIOUS
<1>1. IInv' /\ Holdings' /\ FlushTypes' /\ Alone'
  BY NextKeeps, NextHoldings, NextFlushTypes, NextAlone DEF TInv, IInv
<1>2. ASSUME ~clash' PROVE Undisturbed'
  <2>1. ~clash /\ Undisturbed
    BY <1>2, ClashStays DEF TInv
  <2>2. Base' /\ Effect
    BY <1>2, <2>1, NextEffect DEF Undisturbed
  <2>3. HeldOnce' /\ HandedInOnce' /\ Gone'
    BY <2>1, <2>2, NextHeld, NextHandedIn, NextGone DEF Undisturbed
  <2>4. Kept' /\ InLine'
    BY <2>1, <2>2, NextKept, NextInLine DEF Undisturbed
  <2>5. Covered'
    BY <1>2, <2>1, <2>2, NextCovered DEF Undisturbed, TInv
  <2> QED BY <2>2, <2>3, <2>4, <2>5 DEF Undisturbed
<1> QED BY <1>1, <1>2 DEF TInv

\* Everything the writer holds is what its code takes it for: the queues, the
\* batches and the files hold entries, and a removal has one of its stages.
THEOREM TypesAlways == Spec => [](Types /\ Holdings /\ FlushTypes)
<1>1. TInv => Types /\ Holdings /\ FlushTypes
  BY DEF TInv, IInv
<1> QED BY InitTInv, NextTInv, <1>1, PTL DEF Spec

\* A message that is handed in twice while the first one is on its way through a
\* queue and a drain is written to the session file once.
THEOREM OneCopy == Spec => []WrittenOnce
<1>1. TInv => WrittenOnce
  <2>1. CASE clash
    BY <2>1 DEF WrittenOnce
  <2>2. CASE ~clash
    BY <2>2, OnceWritten DEF TInv, Undisturbed
  <2> QED BY <2>1, <2>2
<1> QED BY InitTInv, NextTInv, <1>1, PTL DEF Spec

\* Every entry that was queued is in its queue, in the batch of a drain or in its
\* file, unless an append failed or something fell into a removal.
THEOREM NothingIsLost == Spec => []NothingLost
<1>1. TInv => NothingLost
  <2>1. CASE clash
    BY <2>1 DEF NothingLost
  <2>2. CASE ~clash
    BY <2>2, KeptIsNotLost DEF TInv, Undisturbed
  <2> QED BY <2>1, <2>2
<1> QED BY InitTInv, NextTInv, <1>1, PTL DEF Spec

\* The entries of a file are in the order in which they were queued, as long as
\* two drains never had a batch for it at once.
THEOREM OrderIsKept == Spec => []InOrder
<1>1. TInv => InOrder
  <2>1. CASE clash
    BY <2>1 DEF InOrder
  <2>2. CASE ~clash
    BY <2>2, LineIsInOrder DEF TInv, Undisturbed
  <2> QED BY <2>1, <2>2
<1> QED BY InitTInv, NextTInv, <1>1, PTL DEF Spec

\* A flush that no other drain ran beside has saved all that was queued before it.
THEOREM FlushesCover == Spec => []FlushCovers
<1>1. TInv => FlushCovers
  <2>1. CASE clash
    BY <2>1 DEF FlushCovers
  <2>2. CASE ~clash
    BY <2>2, CoveredIsSaved DEF TInv, Undisturbed
  <2> QED BY <2>1, <2>2
<1> QED BY InitTInv, NextTInv, <1>1, PTL DEF Spec

\* A removal that has found its message has taken it out of the session file for
\* good, whatever is appended and removed afterwards.
THEOREM GoneForGood == Spec => []RemovedIsGone
<1>1. TInv => RemovedIsGone
  <2>1. CASE clash
    BY <2>1 DEF RemovedIsGone
  <2>2. CASE ~clash
    BY <2>2, GoneIsRemoved DEF TInv, Undisturbed
  <2> QED BY <2>1, <2>2
<1> QED BY InitTInv, NextTInv, <1>1, PTL DEF Spec
==============================================================================
