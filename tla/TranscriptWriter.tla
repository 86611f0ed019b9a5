--------------------------- MODULE TranscriptWriter ---------------------------
(***************************************************************************)
(* How the entries of a session reach its transcript: class Project of     *)
(* utils/sessionStorage.ts.  An entry is queued for a file, a timer drains *)
(* the queues, flush() drains them at once, and the removal of a message   *)
(* cuts an entry out of the session file.                                  *)
(*                                                                         *)
(* A step is what the event loop runs between two awaits, or one operation *)
(* of the file system.  A file is the sequence of the entries it holds.    *)
(* An insertion stands for the entry that it hands in, since a message may *)
(* be handed in twice.                                                     *)
(*                                                                         *)
(* The process may die at any moment and leaves the files as they are, so  *)
(* what the invariants say of the files they say of a crash as well.       *)
(*                                                                         *)
(* Left out: the entries that are kept back until the session file exists, *)
(* the metadata that is appended synchronously, chunks of 100 MB, the part *)
(* of a batch that a failed append may have written, files too large to be *)
(* searched for a message, and the different lengths of entries: what is  *)
(* written over an entry replaces it.                                      *)
(***************************************************************************)
EXTENDS Integers, Sequences, FiniteSets, SequencesExt, Selection

CONSTANTS
    Inserts,        \* insertions of entries
    Messages,       \* those of messages; the others are of other entries
    Message,        \* the message that each of these hands in
    Files, Main,    \* transcript files; the file of the session
    FileOf,         \* the file that each insertion writes to
    Timers,         \* bound: timer callbacks that drain side by side
    Flushes,        \* calls of flush()
    Removals,       \* calls of removeMessageByUuid()
    Target,         \* the message that each of them removes
    Window,         \* entries at the end of a file that a removal reads
    MaxFailures,    \* bound: drains that fail
    None,           \* no drain
    Hole            \* the bytes that truncating a shorter file fills in

ASSUME TranscriptAssumption ==
    /\ Main \in Files
    /\ Messages \subseteq Inserts
    /\ FileOf \in [Inserts -> Files]
    /\ Timers \cap Flushes = {}
    /\ Window \in Nat
    /\ MaxFailures \in Nat
    /\ None \notin Timers \cup Flushes
    /\ Hole \notin Inserts

Drains == Timers \cup Flushes

VARIABLES
    queue,          \* writeQueues: what waits for each file
    since,          \* when the key of each file came into the map (0: it is not there)
    timer,          \* whether flushTimer is set
    activeDrain,    \* the drain the last timer started, or None
    inserting,      \* stage of each insertion
    messageSet,     \* messages recorded for the session
    stage,          \* of each drain
    batch,          \* what each drain is appending
    target,         \* the file it appends that to
    passed,         \* the keys its iteration has passed
    awaited,        \* the drain that each flush waits for
    removing,       \* stage of each removal
    found,          \* history: whether the message was there to be removed
    keep, rest,     \* what each leaves in place and what it writes back
    file,           \* the files
    accepted,       \* history: the insertions that were queued, in order
    before,         \* history: those queued before each flush began
    beside,         \* history: the flushes another drain ran beside
    crossed,        \* history: files that two drains had a batch for at once
    clash,          \* history: an append or a removal fell into a removal
    failures        \* history: drains that failed

queues == <<queue, since, timer, activeDrain>>
inserts == <<inserting, messageSet>>
drains == <<stage, batch, target, passed, awaited>>
removals == <<removing, found, keep, rest>>
ghosts == <<accepted, before, beside, crossed, clash, failures>>
vars == <<queues, inserts, drains, removals, file, ghosts>>

Init ==
    /\ queue = [f \in Files |-> <<>>]
    /\ since = [f \in Files |-> 0]
    /\ timer = FALSE
    /\ activeDrain = None
    /\ inserting = [c \in Inserts |-> "none"]
    /\ messageSet = {}
    /\ stage = [d \in Drains |-> "idle"]
    /\ batch = [d \in Drains |-> <<>>]
    /\ target = [d \in Drains |-> Main]
    /\ passed = [d \in Drains |-> {}]
    /\ awaited = [d \in Drains |-> None]
    /\ removing = [r \in Removals |-> "none"]
    /\ found = [r \in Removals |-> FALSE]
    /\ keep = [r \in Removals |-> 0]
    /\ rest = [r \in Removals |-> <<>>]
    /\ file = [f \in Files |-> <<>>]
    /\ accepted = <<>>
    /\ before = [d \in Drains |-> {}]
    /\ beside = {}
    /\ crossed = {}
    /\ clash = FALSE
    /\ failures = 0

-----------------------------------------------------------------------------
(* Tracked operations: pendingWriteCount and flushResolvers *)

Pending(ins, rem) ==
    \/ \E c \in Inserts : ins[c] = "begun"
    \/ \E r \in Removals : rem[r] \notin {"none", "done"}

\* When the last tracked operation ends, the flushes that wait for it return.
Resolved(ins, rem) ==
    IF Pending(ins, rem) THEN stage
    ELSE [d \in Drains |-> IF stage[d] = "counting" THEN "done" ELSE stage[d]]

-----------------------------------------------------------------------------
(* Insertions *)

\* enqueueWrite(): the timer is set if none is.
EnqueueWrite(c) ==
    LET f == FileOf[c] IN
    /\ queue' = [queue EXCEPT ![f] = Append(@, c)]
    /\ since' = [since EXCEPT ![f] = IF @ = 0 THEN Len(accepted) + 1 ELSE @]
    /\ timer' = TRUE
    /\ accepted' = Append(accepted, c)

\* A snapshot or a record of replacements is queued at once.
InsertEntry(c) ==
    /\ inserting[c] = "none" /\ c \notin Messages
    /\ inserting' = [inserting EXCEPT ![c] = "done"]
    /\ EnqueueWrite(c)
    /\ UNCHANGED <<activeDrain, messageSet, drains, removals, file,
                   before, beside, crossed, clash, failures>>

\* insertMessageChain() is counted and awaits the branch and the messages of
\* the session.
InsertMessage(c) ==
    /\ inserting[c] = "none" /\ c \in Messages
    /\ inserting' = [inserting EXCEPT ![c] = "begun"]
    /\ UNCHANGED <<queues, messageSet, drains, removals, file, ghosts>>

Sidechain(c) == FileOf[c] # Main
IsNew(c) == Sidechain(c) \/ Message[c] \notin messageSet

\* Mutant: nothing is recorded.
RecordedNever(c) == messageSet
Recorded(c) == IF Sidechain(c) THEN messageSet ELSE messageSet \cup {Message[c]}

\* The rest of appendEntry(): a message is written to the session file once,
\* to the file of a subagent always.
AppendMessage(c) ==
    /\ inserting[c] = "begun"
    /\ inserting' = [inserting EXCEPT ![c] = "done"]
    /\ stage' = Resolved(inserting', removing)
    /\ \/ /\ IsNew(c)
          /\ EnqueueWrite(c)
          /\ messageSet' = Recorded(c)
       \/ /\ ~IsNew(c)
          /\ UNCHANGED <<queue, since, timer, messageSet, accepted>>
    /\ UNCHANGED <<activeDrain, batch, target, passed, awaited, removals, file,
                   before, beside, crossed, clash, failures>>

-----------------------------------------------------------------------------
(* Drains *)

Busy(d) == stage[d] \in {"appending", "appended"}

\* The flushes that another drain d, not the one they wait for, runs beside.
Disturbed(d) ==
    {w \in Flushes \ {d} :
        \/ stage[w] = "awaiting" /\ awaited[w] # d
        \/ Busy(w)}

\* The iteration of d goes on to the next queue with entries, and takes them.
Keys == {f \in Files : since[f] # 0}
Waiting(d) == {f \in Keys \ passed[d] : queue[f] # <<>>}
NextKey(d) == CHOOSE f \in Waiting(d) : \A g \in Waiting(d) : since[f] <= since[g]

\* Mutants: the queue is copied where splice(0) empties it; all are emptied.
Copied(f) == queue
AllEmptied(f) == [g \in Files |-> <<>>]
Emptied(f) == [queue EXCEPT ![f] = <<>>]

Take(d, set, active) ==
    /\ Waiting(d) # {}
    /\ LET f == NextKey(d) IN
       /\ stage' = [stage EXCEPT ![d] = "appending"]
       /\ batch' = [batch EXCEPT ![d] = queue[f]]
       /\ target' = [target EXCEPT ![d] = f]
       /\ queue' = Emptied(f)
       /\ passed' = [passed EXCEPT ![d] = @ \cup {g \in Keys : since[g] <= since[f]}]
       /\ crossed' = crossed \cup
            {g \in {f} : \E w \in Drains \ {d} : stage[w] = "appending" /\ target[w] = g}
    /\ timer' = set
    /\ activeDrain' = active
    /\ UNCHANGED since

\* Mutant: the cleanup clears the map.
Nothing == [f \in Files |-> 0]
Left == [f \in Files |-> IF queue[f] = <<>> THEN 0 ELSE since[f]]

\* The iteration is over and empty queues leave the map.  flush() then waits
\* for the tracked operations.  The callback of a timer forgets the active
\* drain, whichever it is, and sets a new timer if more has arrived.
EndOf(d) ==
    IF d \in Flushes /\ Pending(inserting, removing) THEN "counting" ELSE "done"

Finish(d, set, active) ==
    /\ Waiting(d) = {}
    /\ since' = Left
    /\ passed' = [w \in Drains |->
                    IF w = d THEN {} ELSE passed[w] \cap {f \in Files : queue[f] # <<>>}]
    /\ stage' = [stage EXCEPT ![d] = EndOf(d)]
    /\ timer' = (set \/ (d \in Timers /\ \E f \in Files : Left[f] # 0))
    /\ activeDrain' = IF d \in Timers THEN None ELSE active
    /\ UNCHANGED <<queue, batch, target, crossed>>

\* What a drain does up to its next await, with the timer and the active
\* drain that its caller leaves.
Drain(d, set, active) == Take(d, set, active) \/ Finish(d, set, active)

\* The timer fires: its callback starts a drain and records it.
Unused(d) ==
    /\ stage[d] \in {"idle", "done", "failed"}
    /\ activeDrain # d
    /\ \A w \in Flushes : stage[w] = "awaiting" => awaited[w] # d

Fire(d) ==
    /\ timer
    /\ Unused(d)
    /\ Drain(d, FALSE, d)
    /\ beside' = beside \cup Disturbed(d)
    /\ UNCHANGED <<inserts, awaited, removals, file, accepted, before, clash, failures>>

\* appendToFile(): the whole batch goes to the end of the file.
Within(r) == removing[r] \in {"read", "cut"}
Disturbs(R, f) == f = Main /\ \E r \in R : Within(r)

AppendToFile(d) ==
    /\ stage[d] = "appending"
    /\ stage' = [stage EXCEPT ![d] = "appended"]
    /\ file' = [file EXCEPT ![target[d]] = @ \o batch[d]]
    /\ batch' = [batch EXCEPT ![d] = <<>>]
    /\ clash' = (clash \/ Disturbs(Removals, target[d]))
    /\ UNCHANGED <<queues, inserts, target, passed, awaited, removals,
                   accepted, before, beside, crossed, failures>>

\* Its second attempt has failed as well: the drain throws, with its batch.
\* The callback of a timer ends there and leaves activeDrain rejected.
Fail(d) ==
    /\ stage[d] = "appending"
    /\ failures < MaxFailures
    /\ failures' = failures + 1
    /\ stage' = [w \in Drains |->
                   IF w = d \/ (stage[w] = "awaiting" /\ awaited[w] = d)
                   THEN "failed" ELSE stage[w]]
    /\ batch' = [batch EXCEPT ![d] = <<>>]
    /\ passed' = [passed EXCEPT ![d] = {}]
    /\ UNCHANGED <<queues, inserts, target, awaited, removals, file,
                   accepted, before, beside, crossed, clash>>

Continue(d) ==
    /\ stage[d] = "appended"
    /\ Drain(d, timer, activeDrain)
    /\ beside' = beside \cup Disturbed(d)
    /\ UNCHANGED <<inserts, awaited, removals, file, accepted, before, clash, failures>>

-----------------------------------------------------------------------------
(* flush() *)

\* It clears the timer, and waits for the active drain before its own.  An
\* active drain that has failed makes it fail before it drains anything.
\* Mutant: it does not wait.
NeverWait == FALSE
MustWait == activeDrain # None

BesideNow(w) == {v \in {w} : \E d \in Drains \ {activeDrain} : Busy(d)}

FlushNow(w) ==
    /\ ~MustWait
    /\ Drain(w, FALSE, activeDrain)
    /\ UNCHANGED awaited

FlushAwaits(w) ==
    /\ MustWait
    /\ stage' = [stage EXCEPT ![w] =
                   IF stage[activeDrain] = "failed" THEN "failed" ELSE "awaiting"]
    /\ awaited' = [awaited EXCEPT ![w] = activeDrain]
    /\ timer' = FALSE
    /\ UNCHANGED <<queue, since, activeDrain, batch, target, passed, crossed>>

Flush(w) ==
    /\ stage[w] = "idle"
    /\ FlushNow(w) \/ FlushAwaits(w)
    /\ before' = [before EXCEPT ![w] = ToSet(accepted)]
    /\ beside' = beside \cup Disturbed(w) \cup BesideNow(w)
    /\ UNCHANGED <<inserts, removals, file, accepted, clash, failures>>

\* The drain it waited for is over.
FlushResumes(w) ==
    /\ stage[w] = "awaiting"
    /\ stage[awaited[w]] = "done"
    /\ Drain(w, timer, activeDrain)
    /\ awaited' = [awaited EXCEPT ![w] = None]
    /\ beside' = beside \cup Disturbed(w)
    /\ UNCHANGED <<inserts, removals, file, accepted, before, clash, failures>>

-----------------------------------------------------------------------------
(* removeMessageByUuid() *)

Ask(r) ==
    /\ removing[r] = "none"
    /\ removing' = [removing EXCEPT ![r] = "begun"]
    /\ UNCHANGED <<queues, inserts, drains, found, keep, rest, file, ghosts>>

Is(e, m) == e \in Messages /\ Message[e] = m
Places(s, r) == {i \in DOMAIN s : Is(s[i], Target[r])}
LastPlace(s, r) == CHOOSE i \in Places(s, r) : \A j \in Places(s, r) : j <= i

\* Mutant: the place is taken for the length to keep.
UpTo(s, r) == LastPlace(s, r)
LengthBefore(s, r) == LastPlace(s, r) - 1
InWindow(s, r) == Places(s, r) # {} /\ LastPlace(s, r) > Len(s) - Window

EndRemoval(r) ==
    /\ removing' = [removing EXCEPT ![r] = "done"]
    /\ stage' = Resolved(inserting, removing')

\* It reads the end of the file and looks for the message there.
Read(r) ==
    /\ removing[r] = "begun"
    /\ found' = [found EXCEPT ![r] = Places(file[Main], r) # {}]
    /\ LET s == file[Main] IN
       \/ /\ s = <<>>
          /\ EndRemoval(r)
          /\ UNCHANGED <<keep, rest>>
       \/ /\ s # <<>>
          /\ InWindow(s, r)
          /\ removing' = [removing EXCEPT ![r] = "read"]
          /\ keep' = [keep EXCEPT ![r] = LengthBefore(s, r)]
          /\ rest' = [rest EXCEPT ![r] = SubSeq(s, LastPlace(s, r) + 1, Len(s))]
          /\ UNCHANGED stage
       \/ /\ s # <<>>
          /\ ~InWindow(s, r)
          /\ removing' = [removing EXCEPT ![r] = "looking"]
          /\ UNCHANGED <<keep, rest, stage>>
    /\ UNCHANGED <<queues, inserts, batch, target, passed, awaited, file, ghosts>>

\* It reads the whole file, to write back all but the message.
Others(s, r) == Selected(s, DOMAIN s \ Places(s, r))

ReadAll(r) ==
    /\ removing[r] = "looking"
    /\ removing' = [removing EXCEPT ![r] = "read"]
    /\ keep' = [keep EXCEPT ![r] = 0]
    /\ rest' = [rest EXCEPT ![r] = Others(file[Main], r)]
    /\ found' = [found EXCEPT ![r] = Places(file[Main], r) # {}]
    /\ UNCHANGED <<queues, inserts, drains, file, ghosts>>

\* The file is truncated, or extended to that length if it has become shorter.
Truncated(s, n) == [i \in 1..n |-> IF i <= Len(s) THEN s[i] ELSE Hole]

Cut(r) ==
    /\ removing[r] = "read"
    /\ file' = [file EXCEPT ![Main] = Truncated(@, keep[r])]
    /\ clash' = (clash \/ Disturbs(Removals \ {r}, Main))
    /\ IF rest[r] = <<>> THEN EndRemoval(r)
       ELSE removing' = [removing EXCEPT ![r] = "cut"] /\ UNCHANGED stage
    /\ UNCHANGED <<queues, inserts, batch, target, passed, awaited, found, keep, rest,
                   accepted, before, beside, crossed, failures>>

\* The rest is written at that place, over what has been appended meanwhile.
Overwritten(s, n, t) ==
    [i \in 1..(IF n + Len(t) > Len(s) THEN n + Len(t) ELSE Len(s)) |->
        IF i > n /\ i <= n + Len(t) THEN t[i - n]
        ELSE IF i <= Len(s) THEN s[i] ELSE Hole]

WriteBack(r) ==
    /\ removing[r] = "cut"
    /\ file' = [file EXCEPT ![Main] = Overwritten(@, keep[r], rest[r])]
    /\ clash' = (clash \/ Disturbs(Removals \ {r}, Main))
    /\ EndRemoval(r)
    /\ UNCHANGED <<queues, inserts, batch, target, passed, awaited, found, keep, rest,
                   accepted, before, beside, crossed, failures>>

-----------------------------------------------------------------------------

InsertStep(c) == InsertEntry(c) \/ InsertMessage(c) \/ AppendMessage(c)
DrainStep(d) == AppendToFile(d) \/ Fail(d) \/ Continue(d)
FlushStep(w) == Flush(w) \/ FlushResumes(w)
RemovalStep(r) == Ask(r) \/ Read(r) \/ ReadAll(r) \/ Cut(r) \/ WriteBack(r)

Next ==
    \/ \E c \in Inserts : InsertStep(c)
    \/ \E d \in Timers : Fire(d)
    \/ \E d \in Drains : DrainStep(d)
    \/ \E w \in Flushes : FlushStep(w)
    \/ \E r \in Removals : RemovalStep(r)

Spec == Init /\ [][Next]_vars

\* The event loop stays alive while a timer is set or an operation is under way;
\* nobody has to insert, flush or remove anything.
Progress ==
    \/ \E d \in Timers : Fire(d)
    \/ \E d \in Drains : DrainStep(d)
    \/ \E w \in Flushes : FlushResumes(w)
    \/ \E c \in Inserts : AppendMessage(c)
    \/ \E r \in Removals : Read(r) \/ ReadAll(r) \/ Cut(r) \/ WriteBack(r)

FairSpec == Spec /\ WF_vars(Progress)

-----------------------------------------------------------------------------
(* Properties *)

Stages == {"idle", "awaiting", "appending", "appended", "counting", "done", "failed"}

OnItsWay(c) ==
    \/ c \in ToSet(queue[FileOf[c]])
    \/ \E d \in Drains : target[d] = FileOf[c] /\ c \in ToSet(batch[d])

Saved(c) == c \in ToSet(file[FileOf[c]])

\* A removal is asked for the message, or holds it between its two writes.
TakenOut(c) ==
    /\ FileOf[c] = Main
    /\ \E r \in Removals :
          \/ removing[r] # "none" /\ Is(c, Target[r])
          \/ removing[r] = "cut" /\ c \in ToSet(rest[r])

\* The same message, handed in twice while the first one is on its way, is in
\* the session file at most once.
Copies(s, m) == {i \in DOMAIN s : Is(s[i], m)}

WrittenOnce ==
    \A m \in {Message[c] : c \in Messages} :
        ~clash => Cardinality(Copies(file[Main], m)) <= 1

\* No entry is dropped on the way from the queue to its file: as long as no
\* append failed and nothing fell into a removal, it is in the queue, in the
\* batch of a drain or in the file, whoever drains beside whom.
NothingLost ==
    failures = 0 /\ ~clash =>
        \A c \in ToSet(accepted) : OnItsWay(c) \/ Saved(c) \/ TakenOut(c)

\* Entries reach a file in the order they were queued, unless two drains had
\* a batch for that file at once.
Position(c) == CHOOSE i \in DOMAIN accepted : accepted[i] = c

InOrder ==
    ~clash => \A f \in Files \ crossed : \A i, j \in DOMAIN file[f] :
        i < j /\ file[f][i] # Hole /\ file[f][j] # Hole
            => Position(file[f][i]) < Position(file[f][j])

\* A flush that returns has saved every entry queued before it, unless a drain
\* that it does not wait for ran beside it.
FlushCovers ==
    failures = 0 /\ ~clash =>
        \A w \in Flushes \ beside : stage[w] \in {"counting", "done"} =>
            \A c \in before[w] : Saved(c) \/ TakenOut(c)

\* A removal that has found its message takes it out of the session file for
\* good, unless an append or another removal falls into it; one that is still on
\* its way is not found, and stays.
RemovedIsGone ==
    ~clash => \A r \in Removals : removing[r] = "done" /\ found[r]
        => Copies(file[Main], Target[r]) = {}

\* What waits in a queue has somebody to drain it: a timer, a flush that waits
\* for its turn, or a drain that has not passed the queue.  (So the callback of
\* a timer need not look whether more has arrived: whoever queues an entry while
\* it drains has set a timer of his own.)
WillDrain(d, f) ==
    \/ stage[d] = "awaiting"
    \/ Busy(d) /\ f \notin passed[d]

NeverStranded ==
    failures = 0 => \A f \in Files :
        queue[f] # <<>> => timer \/ \E d \in Drains : WillDrain(d, f)

\* Again and again everything that was accepted is saved, unless an append fails
\* or a removal interferes.
EventuallyWritten ==
    []<>(failures = 0 /\ ~clash =>
            \A c \in ToSet(accepted) : Saved(c) \/ TakenOut(c))

=============================================================================
