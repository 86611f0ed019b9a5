------------------------------ MODULE TaskList ------------------------------
(***************************************************************************)
(* The task list that the sessions of a team share (utils/tasks.ts): one   *)
(* JSON file per task, a high water mark file, a lock on the list and one  *)
(* lock per task file.  Every session is a process; a call of the module   *)
(* is a sequence of steps, one per awaited file operation, and the steps   *)
(* of different sessions interleave freely.                                *)
(*                                                                         *)
(* writeFile is two steps: it truncates the file and then fills it.  In    *)
(* between the file is torn: getTask finds no JSON in it and answers null, *)
(* readHighWaterMark finds no number and answers 0.                        *)
(*                                                                         *)
(* Left out: task texts, metadata and notifyTasksUpdated; the lock         *)
(* library's loss of a lock whose live holder stalls for its stale time.   *)
(***************************************************************************)
EXTENDS Integers, Sequences, FiniteSets, Functions, TLC

CONSTANTS
    Procs,          \* the sessions; a session claims under its own name
    NoProc,         \* no owner, no holder
    Menu,           \* the operations the sessions call
    Initial,        \* tasks 1..Initial exist at the start
    MaxCalls,       \* bound: calls made by all the sessions together
    MaxCrashes      \* bound: sessions that die in the middle of a call

Operations == {"create", "update", "reset", "autoclear", "delete",
               "block", "claim", "busyclaim", "unassign"}

ASSUME TaskListAssumption ==
    /\ NoProc \notin Procs
    /\ Menu \subseteq Operations
    /\ Initial \in Nat /\ MaxCalls \in Nat /\ MaxCrashes \in Nat

MaxId == Initial + MaxCalls       \* no more ids than that can be handed out
Ids == 1..MaxId
Unknown == 0 - 1                  \* a number that has not been read yet

Statuses == {"pending", "in_progress", "completed"}
Task == [owner: Procs \cup {NoProc}, status: Statuses,
         blocks: SUBSET Ids, blockedBy: SUBSET Ids]
NewTask == [owner |-> NoProc, status |-> "pending",
            blocks |-> {}, blockedBy |-> {}]

VARIABLES
    there,      \* ids with a task file in the directory
    torn,       \* those whose file is truncated and not yet filled
    task,       \* the content last written to each file
    mark,       \* the number last written to .highwatermark (0: no file)
    markTorn,   \* .highwatermark is truncated and not yet filled
    listLock,   \* who holds the lock on the list
    taskLock,   \* who holds the lock on each task file
    pc,         \* what each session does next
    call,       \* the call it is in
    todo,       \* the updateTask calls it still has to make
    unread,     \* task files of a listing it still has to read or unlink
    snap,       \* the tasks it has read
    high,       \* the highest id it has found in the directory
    seenMark,   \* the high water mark it has read
    target,     \* the task file it writes
    buf,        \* what it writes to it
    linked,     \* the file it has open is still in the directory
    issued,     \* history: ids that were given to a task
    holder,     \* history: who was told it has the task
    overlapped, \* history: two calls were under way at once, or one failed
    callsLeft, crashesLeft

files == <<there, torn, task>>
marks == <<mark, markTorn>>
locks == <<listLock, taskLock>>
reads == <<unread, snap, high, seenMark>>
writes == <<target, buf, linked>>
ghosts == <<issued, holder, overlapped>>
bounds == <<callsLeft, crashesLeft>>
vars == <<files, marks, locks, pc, call, todo, reads, writes, ghosts, bounds>>

NoCall == [op |-> "none"]

Init ==
    /\ there = 1..Initial
    /\ torn = {}
    /\ task = [i \in Ids |-> NewTask]
    /\ mark = 0
    /\ markTorn = FALSE
    /\ listLock = NoProc
    /\ taskLock = [i \in Ids |-> NoProc]
    /\ pc = [p \in Procs |-> "idle"]
    /\ call = [p \in Procs |-> NoCall]
    /\ todo = [p \in Procs |-> <<>>]
    /\ unread = [p \in Procs |-> {}]
    /\ snap = [p \in Procs |-> <<>>]
    /\ high = [p \in Procs |-> Unknown]
    /\ seenMark = [p \in Procs |-> Unknown]
    /\ target = [p \in Procs |-> 0]
    /\ buf = [p \in Procs |-> NewTask]
    /\ linked = [p \in Procs |-> FALSE]
    /\ issued = 1..Initial
    /\ holder = [i \in Ids |-> NoProc]
    /\ overlapped = FALSE
    /\ callsLeft = MaxCalls
    /\ crashesLeft = MaxCrashes

-----------------------------------------------------------------------------
(* Reading the files.                                                      *)

Readable(i) == i \in there \ torn                     \* getTask # null
Content(i) == [j \in {i} |-> task[j]]                 \* what it returns
Highest == CHOOSE n \in there \cup {0} : \A i \in there : i <= n  \* by file name
Mark == IF markTorn THEN 0 ELSE mark
Larger(m, n) == IF m > n THEN m ELSE n

(* { ...existing, ...updates } *)
Merge(patch, old) == [x \in DOMAIN patch \cup DOMAIN old |->
                        IF x \in DOMAIN patch THEN patch[x] ELSE old[x]]

Goto(p, l) == pc' = [pc EXCEPT ![p] = l]

(* Mutant: returns with the lock of the list. *)
ResumeLocked(p, us) == IF us # <<>> THEN "check" ELSE "idle"

(* Where a call goes when it has the updates us left: it makes the next,   *)
(* or releases the list (only the busy claim still holds it), or returns.  *)
Resume(p, us) == IF us # <<>> THEN "check"
                 ELSE IF listLock = p THEN "unlockList" ELSE "idle"

-----------------------------------------------------------------------------
(* A session makes a call.  It knows the ids that were given to it; whom   *)
(* to unassign and what to update is up to the caller.                     *)

(* The watchers take up or release a task without a look at it.            *)
(* TaskUpdate reads it first, without a lock, and sets what is asked for   *)
(* and not so yet; a session that takes up a task that it read as nobody's *)
(* is named its owner.                                                     *)
Updates(i) ==
    LET owners == Procs \ {task[i].owner}
        statuses == Statuses \ {task[i].status}
    IN  {[status |-> "in_progress"], [owner |-> NoProc]}
        \cup (IF ~Readable(i) THEN {} ELSE
                {[owner |-> q] : q \in owners}
                \cup {[status |-> s] : s \in statuses}
                \cup {[owner |-> q, status |-> s] : q \in owners, s \in statuses})

Start(p, c, l) ==
    /\ pc[p] = "idle"
    /\ c.op \in Menu
    /\ callsLeft > 0
    /\ callsLeft' = callsLeft - 1
    /\ call' = [call EXCEPT ![p] = c]
    /\ snap' = [snap EXCEPT ![p] = <<>>]
    /\ high' = [high EXCEPT ![p] = Unknown]
    /\ seenMark' = [seenMark EXCEPT ![p] = Unknown]
    /\ Goto(p, l)
    /\ overlapped' = (overlapped \/ \E q \in Procs : pc[q] # "idle")
    /\ UNCHANGED <<files, marks, locks, writes, issued, holder, crashesLeft>>

StartWhole(p) ==
    /\ \/ \E op \in {"create", "reset"} : Start(p, [op |-> op], "lockList")
       \/ Start(p, [op |-> "autoclear"], "list")
       \/ \E q \in Procs : Start(p, [op |-> "unassign", who |-> q], "list")
    /\ UNCHANGED <<todo, unread>>

StartOnTask(p) ==
    \E i \in issued :
       \/ /\ \/ Start(p, [op |-> "delete", id |-> i], "readMark")
             \/ \E op \in {"claim", "busyclaim"} :
                    Start(p, [op |-> op, id |-> i], "claimCheck")
          /\ UNCHANGED <<todo, unread>>
       \/ \E u \in Updates(i) :
             /\ Start(p, [op |-> "update", id |-> i], "check")
             /\ todo' = [todo EXCEPT ![p] = <<[id |-> i, patch |-> u]>>]
             /\ UNCHANGED unread
       \/ \E j \in issued \ {i} :
             /\ Start(p, [op |-> "block", from |-> i, to |-> j], "reading")
             /\ unread' = [unread EXCEPT ![p] = {i, j}]
             /\ UNCHANGED todo

-----------------------------------------------------------------------------
(* The locks.  A caller retries for 2.6 seconds and then throws; a lock    *)
(* left behind by a dead session becomes stale and is taken from it.       *)

LockList(p) ==
    /\ pc[p] = "lockList"
    /\ listLock = NoProc
    /\ listLock' = p
    /\ Goto(p, CASE call[p].op = "create"               -> "scan"
                 [] call[p].op \in {"reset", "autoclear"} -> "readHigh"
                 [] call[p].op = "busyclaim"            -> "list")
    /\ UNCHANGED <<files, marks, taskLock, call, todo, reads, writes, ghosts, bounds>>

ListLockFails(p) ==
    /\ pc[p] = "lockList"
    /\ listLock # NoProc
    /\ Goto(p, "idle")
    /\ UNCHANGED <<files, marks, locks, call, todo, reads, writes, ghosts, bounds>>

UnlockList(p) ==
    /\ pc[p] = "unlockList"
    /\ listLock' = IF listLock = p THEN NoProc ELSE listLock
    /\ Goto(p, "idle")
    /\ UNCHANGED <<files, marks, taskLock, call, todo, reads, writes, ghosts, bounds>>

(* The task whose lock a session is after. *)
Locking(p) == IF call[p].op = "claim" THEN call[p].id ELSE Head(todo[p]).id

(* Mutant: does not wait for the lock. *)
LockTaskAnyway(p) ==
    /\ pc[p] = "lockTask"
    /\ taskLock' = [taskLock EXCEPT ![Locking(p)] = p]
    /\ Goto(p, IF call[p].op = "claim" THEN "inspect" ELSE "reread")
    /\ UNCHANGED <<files, marks, listLock, call, todo, reads, writes, ghosts, bounds>>

LockTask(p) ==
    /\ pc[p] = "lockTask"
    /\ taskLock[Locking(p)] = NoProc
    /\ taskLock' = [taskLock EXCEPT ![Locking(p)] = p]
    /\ Goto(p, IF call[p].op = "claim" THEN "inspect" ELSE "reread")
    /\ UNCHANGED <<files, marks, listLock, call, todo, reads, writes, ghosts, bounds>>

(* The lock is held for too long, or the file to lock is gone: the call    *)
(* throws and makes none of the updates it still had.                      *)
TaskLockFails(p) ==
    /\ pc[p] = "lockTask"
    /\ taskLock[Locking(p)] # NoProc \/ Locking(p) \notin there
    /\ todo' = [todo EXCEPT ![p] = <<>>]
    /\ Goto(p, Resume(p, <<>>))
    /\ UNCHANGED <<files, marks, locks, call, reads, writes, ghosts, bounds>>

Claims(p) == call[p].op \in {"claim", "busyclaim"}

(* A claim that got as far as its update answers success, even when        *)
(* updateTask has found nothing to write to.                               *)
Told(p) == IF Claims(p) /\ todo[p] # <<>>
           THEN [holder EXCEPT ![call[p].id] = p] ELSE holder

UnlockTask(p) ==
    /\ pc[p] = "unlockTask"
    /\ holder' = Told(p)
    /\ taskLock' = [taskLock EXCEPT
                      ![Locking(p)] = IF @ = p THEN NoProc ELSE @]
    /\ LET rest == IF todo[p] = <<>> THEN <<>> ELSE Tail(todo[p])
       IN  /\ todo' = [todo EXCEPT ![p] = rest]
           /\ Goto(p, Resume(p, rest))
    /\ UNCHANGED <<files, marks, listLock, call, reads, writes, issued, overlapped, bounds>>

LockExpires ==
    /\ \/ /\ listLock \in Procs /\ pc[listLock] = "dead"
          /\ listLock' = NoProc
          /\ UNCHANGED taskLock
       \/ \E i \in Ids :
             /\ taskLock[i] \in Procs /\ pc[taskLock[i]] = "dead"
             /\ taskLock' = [taskLock EXCEPT ![i] = NoProc]
             /\ UNCHANGED listLock
    /\ UNCHANGED <<files, marks, pc, call, todo, reads, writes, ghosts, bounds>>

(* The session's process dies; what it had on disk stays as it is. *)
Crash(p) ==
    /\ pc[p] \notin {"idle", "dead"}
    /\ crashesLeft > 0
    /\ crashesLeft' = crashesLeft - 1
    /\ Goto(p, "dead")
    /\ UNCHANGED <<files, marks, locks, call, todo, reads, writes, ghosts, callsLeft>>

-----------------------------------------------------------------------------
(* createTask and updateTask.                                              *)

(* findHighestTaskId reads the directory and the mark in parallel. *)
ScanDir(p) ==
    /\ pc[p] = "scan"
    /\ high[p] = Unknown
    /\ high' = [high EXCEPT ![p] = Highest]
    /\ UNCHANGED <<files, marks, locks, pc, call, todo, unread, snap, seenMark,
                   writes, ghosts, bounds>>

ScanMark(p) ==
    /\ pc[p] = "scan"
    /\ seenMark[p] = Unknown
    /\ seenMark' = [seenMark EXCEPT ![p] = Mark]
    /\ UNCHANGED <<files, marks, locks, pc, call, todo, unread, snap, high,
                   writes, ghosts, bounds>>

(* Mutant: forgets the mark. *)
NewIdFromFiles(p) == high[p] + 1

NewId(p) == Larger(high[p], seenMark[p]) + 1

Open(p, i) ==
    /\ there' = there \cup {i}
    /\ torn' = torn \cup {i}
    /\ linked' = [linked EXCEPT ![p] = TRUE]
    /\ Goto(p, "fill")
    /\ UNCHANGED <<task, marks, locks, call, todo, reads, holder, overlapped, bounds>>

OpenNew(p) ==
    /\ pc[p] = "scan"
    /\ high[p] # Unknown /\ seenMark[p] # Unknown
    /\ NewId(p) \in Ids                  \* bound: there are ids for every call
    /\ Open(p, NewId(p))
    /\ target' = [target EXCEPT ![p] = NewId(p)]
    /\ buf' = [buf EXCEPT ![p] = NewTask]
    /\ issued' = issued \cup {NewId(p)}

(* updateTask asks for the task before it locks its file ... *)
Check(p) ==
    /\ pc[p] = "check"
    /\ \/ /\ Readable(Head(todo[p]).id)
          /\ Goto(p, "lockTask")
          /\ UNCHANGED <<todo, holder>>
       \/ /\ ~Readable(Head(todo[p]).id)
          /\ todo' = [todo EXCEPT ![p] = Tail(@)]
          /\ Goto(p, Resume(p, Tail(todo[p])))
          /\ holder' = Told(p)
    /\ UNCHANGED <<files, marks, locks, call, reads, writes, issued, overlapped, bounds>>

(* ... and reads it again under the lock: updateTaskUnsafe. *)
Reread(p) ==
    /\ pc[p] = "reread"
    /\ LET i == Head(todo[p]).id
       IN  \/ /\ Readable(i)
              /\ target' = [target EXCEPT ![p] = i]
              /\ buf' = [buf EXCEPT ![p] = Merge(Head(todo[p]).patch, task[i])]
              /\ Goto(p, "open")
           \/ /\ ~Readable(i)
              /\ Goto(p, "unlockTask")
              /\ UNCHANGED <<target, buf>>
    /\ UNCHANGED <<files, marks, locks, call, todo, reads, linked, ghosts, bounds>>

OpenOld(p) ==
    /\ pc[p] = "open"
    /\ Open(p, target[p])
    /\ UNCHANGED <<target, buf, issued>>

(* An update that names an owner, or nobody, by somebody who did not claim *)
(* the task: whoever was told it has the task has it no more.              *)
Reassigns(p) == ~Claims(p) /\ todo[p] # <<>> /\ "owner" \in DOMAIN Head(todo[p]).patch

(* What is written to a file that was unlinked meanwhile is lost. *)
Fill(p) ==
    /\ pc[p] = "fill"
    /\ LET i == target[p]
       IN  IF linked[p]
           THEN /\ task' = [task EXCEPT ![i] = buf[p]]
                /\ torn' = torn \ {i}
                /\ holder' = [holder EXCEPT ![i] =
                                IF Reassigns(p) THEN NoProc ELSE @]
           ELSE UNCHANGED <<task, torn, holder>>
    /\ linked' = [linked EXCEPT ![p] = FALSE]
    /\ Goto(p, IF call[p].op = "create" THEN "unlockList" ELSE "unlockTask")
    /\ UNCHANGED <<there, marks, locks, call, todo, reads, target, buf, issued, overlapped, bounds>>

-----------------------------------------------------------------------------
(* listTasks, and what its callers do with the tasks.                      *)

(* Only the blockers of the task matter to a plain claim. *)
Wanted(p) == IF call[p].op = "claim" THEN snap[p][call[p].id].blockedBy ELSE Ids

List(p) ==
    /\ pc[p] = "list"
    /\ unread' = [unread EXCEPT ![p] = there \cap Wanted(p)]
    /\ Goto(p, "reading")
    /\ UNCHANGED <<files, marks, locks, call, todo, snap, high, seenMark,
                   writes, ghosts, bounds>>

ReadTask(p, i) ==
    /\ pc[p] = "reading"
    /\ i \in unread[p]
    /\ unread' = [unread EXCEPT ![p] = @ \ {i}]
    /\ snap' = [snap EXCEPT ![p] = IF Readable(i) THEN Merge(Content(i), @) ELSE @]
    /\ UNCHANGED <<files, marks, locks, pc, call, todo, high, seenMark,
                   writes, ghosts, bounds>>

Listed(p) == DOMAIN snap[p]
OpenTasks(p) == {i \in Listed(p) : snap[p][i].status # "completed"}

(* Mutant: forgets the owner. *)
ClaimableOwned(p, t) == t.status # "completed"

(* claimTask's checks of the task as it read it. *)
Claimable(p, t) == t.owner \in {NoProc, p} /\ t.status # "completed"
Unblocked(p, t) == t.blockedBy \cap OpenTasks(p) = {}

Read(p, op) == pc[p] = "reading" /\ unread[p] = {} /\ call[p].op = op

Then(p, us, l) ==
    /\ todo' = [todo EXCEPT ![p] = us]
    /\ Goto(p, l)
    /\ UNCHANGED <<files, marks, locks, call, reads, writes, ghosts, bounds>>

(* The claim writes under the task lock it holds. *)
DecideClaim(p) ==
    /\ Read(p, "claim")
    /\ LET i == call[p].id
       IN  IF Unblocked(p, snap[p][i])
           THEN Then(p, <<[id |-> i, patch |-> [owner |-> p]]>>, "reread")
           ELSE Then(p, <<>>, "unlockTask")

(* The busy claim checks under the lock of the list, and writes through    *)
(* updateTask.                                                             *)
DecideBusyClaim(p) ==
    /\ Read(p, "busyclaim")
    /\ LET i == call[p].id
       IN  IF /\ i \in Listed(p)
              /\ Claimable(p, snap[p][i]) /\ Unblocked(p, snap[p][i])
              /\ \A j \in OpenTasks(p) \ {i} : snap[p][j].owner # p
           THEN Then(p, <<[id |-> i, patch |-> [owner |-> p]]>>, "check")
           ELSE Then(p, <<>>, "unlockList")

(* One update for each task that a patch is for, in the order in which the *)
(* directory happened to be listed.                                        *)
UpdateEach(p, patches) ==
    LET ids == DOMAIN patches
    IN  \E order \in Bijection(1..Cardinality(ids), ids) :
           LET us == [k \in DOMAIN order |->
                        [id |-> order[k], patch |-> patches[order[k]]]]
           IN  Then(p, us, Resume(p, us))

(* Mutant: leaves the references to the deleted task. *)
DecideDeleteOnly(p) == Read(p, "delete") /\ Then(p, <<>>, "idle")

DecideDelete(p) ==
    /\ Read(p, "delete")
    /\ LET d == call[p].id
           t == snap[p]
           linkedTo == {i \in Listed(p) : d \in t[i].blocks \cup t[i].blockedBy}
       IN  UpdateEach(p, [i \in linkedTo |-> [blocks    |-> t[i].blocks \ {d},
                                              blockedBy |-> t[i].blockedBy \ {d}]])

DecideUnassign(p) ==
    /\ Read(p, "unassign")
    /\ LET theirs == {i \in OpenTasks(p) : snap[p][i].owner = call[p].who}
       IN  UpdateEach(p, [i \in theirs |-> [owner |-> NoProc, status |-> "pending"]])

DecideBlock(p) ==
    /\ Read(p, "block")
    /\ LET a == call[p].from
           b == call[p].to
           t == snap[p]
           us == IF ~({a, b} \subseteq Listed(p)) THEN <<>> ELSE
                 (IF b \in t[a].blocks THEN <<>> ELSE
                    <<[id |-> a, patch |-> [blocks |-> t[a].blocks \cup {b}]]>>)
                 \o (IF a \in t[b].blockedBy THEN <<>> ELSE
                    <<[id |-> b, patch |-> [blockedBy |-> t[b].blockedBy \cup {a}]]>>)
       IN  Then(p, us, Resume(p, us))

(* The display clears a list whose tasks are all completed. *)
DecideAutoclear(p) ==
    /\ Read(p, "autoclear")
    /\ Then(p, <<>>, IF Listed(p) # {} /\ OpenTasks(p) = {}
                     THEN "lockList" ELSE "idle")

ClaimCheck(p) ==
    /\ pc[p] = "claimCheck"
    /\ Goto(p, IF ~Readable(call[p].id) THEN "idle"
               ELSE IF call[p].op = "claim" THEN "lockTask" ELSE "lockList")
    /\ UNCHANGED <<files, marks, locks, call, todo, reads, writes, ghosts, bounds>>

Inspect(p) ==
    /\ pc[p] = "inspect"
    /\ LET i == call[p].id
       IN  IF Readable(i) /\ Claimable(p, task[i])
           THEN snap' = [snap EXCEPT ![p] = Content(i)] /\ Goto(p, "list")
           ELSE UNCHANGED snap /\ Goto(p, "unlockTask")
    /\ UNCHANGED <<files, marks, locks, call, todo, unread, high, seenMark,
                   writes, ghosts, bounds>>

-----------------------------------------------------------------------------
(* resetTaskList and deleteTask: the mark first, then the files.           *)

ReadHigh(p) ==
    /\ pc[p] = "readHigh"
    /\ high' = [high EXCEPT ![p] = Highest]
    /\ Goto(p, IF Highest > 0 THEN "readMark" ELSE "sweepList")
    /\ UNCHANGED <<files, marks, locks, call, todo, unread, snap, seenMark,
                   writes, ghosts, bounds>>

(* The number that the mark must reach. *)
Wants(p) == IF call[p].op = "delete" THEN call[p].id ELSE high[p]
Marked(p) == IF call[p].op = "delete" THEN "remove" ELSE "sweepList"

(* Mutant: compares the wrong way round. *)
ReadMarkSwapped(p) ==
    /\ pc[p] = "readMark"
    /\ Goto(p, IF Wants(p) < Mark THEN "openMark" ELSE Marked(p))
    /\ UNCHANGED <<files, marks, locks, call, todo, reads, writes, ghosts, bounds>>

ReadMark(p) ==
    /\ pc[p] = "readMark"
    /\ Goto(p, IF Wants(p) > Mark THEN "openMark" ELSE Marked(p))
    /\ UNCHANGED <<files, marks, locks, call, todo, reads, writes, ghosts, bounds>>

OpenMark(p) ==
    /\ pc[p] = "openMark"
    /\ markTorn' = TRUE
    /\ Goto(p, "fillMark")
    /\ UNCHANGED <<files, mark, locks, call, todo, reads, writes, ghosts, bounds>>

FillMark(p) ==
    /\ pc[p] = "fillMark"
    /\ mark' = Wants(p)
    /\ markTorn' = FALSE
    /\ Goto(p, Marked(p))
    /\ UNCHANGED <<files, locks, call, todo, reads, writes, ghosts, bounds>>

SweepList(p) ==
    /\ pc[p] = "sweepList"
    /\ unread' = [unread EXCEPT ![p] = there]
    /\ Goto(p, "sweep")
    /\ UNCHANGED <<files, marks, locks, call, todo, snap, high, seenMark,
                   writes, ghosts, bounds>>

Unlink(i) ==
    /\ there' = there \ {i}
    /\ torn' = torn \ {i}
    /\ linked' = [q \in Procs |-> linked[q] /\ target[q] # i]
    /\ holder' = [holder EXCEPT ![i] = NoProc]
    /\ UNCHANGED <<task, target, buf, issued, overlapped>>

Sweep(p, i) ==
    /\ pc[p] = "sweep"
    /\ i \in unread[p]
    /\ Unlink(i)
    /\ unread' = [unread EXCEPT ![p] = @ \ {i}]
    /\ UNCHANGED <<marks, locks, pc, call, todo, snap, high, seenMark, bounds>>

Swept(p) ==
    /\ pc[p] = "sweep"
    /\ unread[p] = {}
    /\ Goto(p, "unlockList")
    /\ UNCHANGED <<files, marks, locks, call, todo, reads, writes, ghosts, bounds>>

RemoveFile(p) ==
    /\ pc[p] = "remove"
    /\ \/ /\ call[p].id \in there
          /\ Unlink(call[p].id)
          /\ Goto(p, "list")
       \/ /\ call[p].id \notin there
          /\ Goto(p, "idle")
          /\ UNCHANGED <<files, writes, ghosts>>
    /\ UNCHANGED <<marks, locks, call, todo, reads, bounds>>

-----------------------------------------------------------------------------
Work(p) ==
    \/ LockList(p) \/ UnlockList(p) \/ LockTask(p) \/ UnlockTask(p)
    \/ ScanDir(p) \/ ScanMark(p) \/ OpenNew(p)
    \/ Check(p) \/ Reread(p) \/ OpenOld(p) \/ Fill(p)
    \/ List(p) \/ (\E i \in Ids : ReadTask(p, i))
    \/ DecideClaim(p) \/ DecideBusyClaim(p) \/ DecideDelete(p)
    \/ DecideUnassign(p) \/ DecideBlock(p) \/ DecideAutoclear(p)
    \/ ClaimCheck(p) \/ Inspect(p)
    \/ ReadHigh(p) \/ ReadMark(p) \/ OpenMark(p) \/ FillMark(p)
    \/ SweepList(p) \/ (\E i \in Ids : Sweep(p, i)) \/ Swept(p)
    \/ RemoveFile(p)

GiveUp(p) == ListLockFails(p) \/ TaskLockFails(p)

Next ==
    \/ \E p \in Procs :
          StartWhole(p) \/ StartOnTask(p) \/ Work(p) \/ GiveUp(p) \/ Crash(p)
    \/ LockExpires

Spec == Init /\ [][Next]_vars

(* File operations return, a caller keeps trying for a lock and a stale    *)
(* lock expires; the caller decides when to call, and nobody has to give   *)
(* up or to crash.                                                         *)
FairSpec ==
    /\ Spec
    /\ \A p \in Procs : WF_vars(Work(p))
    /\ WF_vars(LockExpires)

-----------------------------------------------------------------------------
(* Properties.                                                             *)

(* The state of the list and of the sessions' calls is well formed. *)
TypeOK ==
    /\ there \subseteq Ids /\ torn \subseteq there
    /\ task \in [Ids -> Task]
    /\ mark \in 0..MaxId /\ markTorn \in BOOLEAN
    /\ listLock \in Procs \cup {NoProc}
    /\ taskLock \in [Ids -> Procs \cup {NoProc}]
    /\ high \in [Procs -> {Unknown} \cup 0..MaxId]
    /\ seenMark \in [Procs -> {Unknown} \cup 0..MaxId]
    /\ unread \in [Procs -> SUBSET Ids]
    /\ target \in [Procs -> 0..MaxId]
    /\ buf \in [Procs -> Task]
    /\ linked \in [Procs -> BOOLEAN]
    /\ issued \subseteq Ids
    /\ holder \in [Ids -> Procs \cup {NoProc}]
    /\ overlapped \in BOOLEAN

(* createTask "creates a new task with a unique ID": no task is given an   *)
(* id that an earlier one had, whatever resets, claims and crashes come    *)
(* in between.                                                             *)
FreshIds == [][\A p \in Procs : pc[p] = "scan" /\ pc'[p] = "fill"
                                  => NewId(p) \notin issued]_vars

(* While nobody has the lock of the list, the directory and the mark       *)
(* together account for every id that was ever given out.                  *)
MarkCovers == listLock = NoProc => \A i \in issued : i <= Larger(Highest, Mark)

(* claimTask: a task passes from one session to another only through       *)
(* being released; no claim takes it from a session that was told it had   *)
(* won it.                                                                 *)
ClaimExclusive == [][\A i \in Ids : holder[i] # NoProc
                                      => holder'[i] \in {holder[i], NoProc}]_vars

(* A session whose plain claim was answered with success is the owner last *)
(* written to the task's file, or the file is gone, until an update that   *)
(* names another owner comes in: a claim that updateTask silently could    *)
(* not write is one of a removed task, and no merged update writes an      *)
(* owner back that it had read before.                                     *)
HolderIsOwner == \A i \in there : holder[i] # NoProc => task[i].owner = holder[i]

(* A completed task is open again only because a caller asked to set its   *)
(* status: no merged update of other fields writes back a status that it   *)
(* had read before the task was completed.                                 *)
CompletedStays ==
    [][\A i \in there \cap there' :
          task[i].status = "completed" /\ task'[i].status # "completed"
             => \E p \in Procs : pc[p] = "fill" /\ target[p] = i
                                  /\ pc'[p] # "fill" /\ call[p].op = "update"
                                  /\ "status" \in DOMAIN Head(todo[p]).patch]_vars

(* Every call returns, or its session has died, even if no wait for a lock *)
(* ever times out: sessions do not wait for each other in a circle, every  *)
(* path out of a call releases its locks, and a lock left by a dead        *)
(* session holds up nobody for ever.                                       *)
CallsReturn == \A p \in Procs : pc[p] # "idle" ~> pc[p] \in {"idle", "dead"}

(* As long as no two calls overlap, blocks and blockedBy mirror each other *)
(* and name only tasks that exist whenever no call is under way.           *)
LinksMatch ==
    ~overlapped /\ (\A p \in Procs : pc[p] = "idle") =>
        \A i \in there : /\ task[i].blocks = {j \in there : i \in task[j].blockedBy}
                         /\ task[i].blockedBy = {j \in there : i \in task[j].blocks}

(* unassignTeammateTasks "unassigns all open tasks from a teammate": it    *)
(* changes no completed task and takes no task from anybody else.          *)
UnassignsOwnOpenTasks ==
    [][\A p \in Procs :
          (pc[p] = "fill" /\ pc'[p] # "fill" /\ linked[p] /\ call[p].op = "unassign")
             => /\ task[target[p]].owner \in {call[p].who, NoProc}
                /\ task[target[p]].status # "completed"]_vars
=============================================================================
