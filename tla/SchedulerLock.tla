---------------------------- MODULE SchedulerLock ----------------------------
(***************************************************************************)
(* Which session of a directory drives its scheduled tasks: the lock file  *)
(* of utils/cronTasksLock.ts, and the calls that cronScheduler.ts makes on *)
(* it when it starts, probes and stops.                                    *)
(*                                                                         *)
(* A step is one operation on the file.  An exclusive create makes an      *)
(* empty file and fills it in a later step; a reader between the two finds *)
(* nothing it can parse.  Processes die at any moment and leave the file.  *)
(* A session may be resumed by a new process.                              *)
(*                                                                         *)
(* Left out: probes of one process that overlap (they are five seconds     *)
(* apart), a scheduler that is started again after it was stopped, a       *)
(* process id that the system gives to another program.  Where two         *)
(* processes fill one file, it is the file of the one that truncated it    *)
(* last.                                                                   *)
(***************************************************************************)
EXTENDS Naturals, FiniteSets

CONSTANTS
    Procs,          \* processes
    SessionOf,      \* the session of each
    Absent          \* no lock file

ASSUME LockAssumption ==
    Absent \notin Procs \X BOOLEAN

VARIABLES
    lock,           \* the file: who wrote it and whether it is filled, or Absent
    at,             \* stage of each process
    stopped,        \* processes whose scheduler was stopped
    raced           \* history: a process removed or overwrote, or is about to, a
                    \* lock that came into being after it had looked at the old one

lockVars == <<lock, at, stopped, raced>>

LockInit ==
    /\ lock = Absent
    /\ at = [p \in Procs |-> "none"]
    /\ stopped = {}
    /\ raced = FALSE

Alive(p) == at[p] # "dead"
Goto(p, s) == at' = [at EXCEPT ![p] = s]

\* Somebody else is about to remove the lock that he has looked at.
OthersRemove(p) == \E r \in Procs \ {p} : at[r] = "stale"

\* The scheduler that learns it owns the lock, or that it does not.
Owned(p) == Goto(p, IF p \in stopped THEN "ending" ELSE "owner")
NotOwned(p) == Goto(p, IF p \in stopped THEN "off" ELSE "idle")

-----------------------------------------------------------------------------
(* enable(), stop(), exit *)

SameSession(p) == \E q \in Procs \ {p} :
    at[q] \notin {"none", "dead"} /\ SessionOf[q] = SessionOf[p]

\* A session that another live process has resumed owns what the other owns.
StartProcess(p) ==
    /\ at[p] = "none"
    /\ Goto(p, "idle")
    /\ raced' = (raced \/ SameSession(p))
    /\ UNCHANGED <<lock, stopped>>

\* stop(), or the end of the process in good order: an owner releases the lock,
\* a scheduler in the middle of a probe when it has the answer.
StopProcess(p) ==
    /\ at[p] \notin {"none", "ending", "unlinking", "off", "dead"}
    /\ p \notin stopped
    /\ stopped' = stopped \cup {p}
    /\ at' = [at EXCEPT ![p] = CASE @ = "owner" -> "ending"
                                 [] @ = "idle"  -> "off"
                                 [] OTHER       -> @]
    /\ UNCHANGED <<lock, raced>>

ProcessDies(p) ==
    /\ at[p] \notin {"none", "dead"}
    /\ Goto(p, "dead")
    /\ UNCHANGED <<lock, stopped, raced>>

-----------------------------------------------------------------------------
(* tryAcquireSchedulerLock() *)

\* Mutant: the create is not exclusive.
AlwaysFree == TRUE
IsFree == lock = Absent

\* tryCreateExclusive(), at the first and at the second attempt.
CreateLock(p) ==
    /\ at[p] \in {"idle", "again"}
    /\ IsFree
    /\ lock' = <<p, FALSE>>
    /\ Goto(p, "filling")
    /\ raced' = (raced \/ OthersRemove(p))
    /\ UNCHANGED stopped

CreateFails(p) ==
    /\ at[p] \in {"idle", "again"}
    /\ ~IsFree
    /\ IF at[p] = "idle" THEN Goto(p, "blocked") ELSE NotOwned(p)
    /\ UNCHANGED <<lock, stopped, raced>>

\* What it writes is lost when the file has been removed meanwhile.
Fill(p) ==
    /\ at[p] = "filling"
    /\ lock' = IF lock = <<p, FALSE>> THEN <<p, TRUE>> ELSE lock
    /\ Owned(p)
    /\ UNCHANGED <<stopped, raced>>

\* readLock(): no file, or one that is not filled, is like a lock of nobody.
\* Mutant: a lock that cannot be read counts as held.
Readable == lock # Absent /\ lock[2]
HeldUnlessDead == lock # Absent /\ (lock[2] => Alive(lock[1]))
HolderRuns == Readable /\ Alive(lock[1])
IsOurs(p) == Readable /\ SessionOf[lock[1]] = SessionOf[p]

\* A lock of this session: its own, or that of the process it had before.
ReadOurs(p) ==
    /\ at[p] = "blocked"
    /\ IsOurs(p)
    /\ IF lock[1] = p THEN Owned(p) ELSE Goto(p, "taking")
    /\ UNCHANGED <<lock, stopped, raced>>

\* Another live process has made the lock that p is about to overwrite.
LiveLock == lock # Absent /\ Alive(lock[1])

\* The take-over: an ordinary write, over whatever is there by now.
TakeLock(p) ==
    /\ at[p] = "taking"
    /\ lock' = <<p, FALSE>>
    /\ Goto(p, "filling")
    /\ raced' = (raced \/ OthersRemove(p) \/ LiveLock)
    /\ UNCHANGED stopped

ReadHeld(p) ==
    /\ at[p] = "blocked"
    /\ HolderRuns /\ ~IsOurs(p)
    /\ NotOwned(p)
    /\ UNCHANGED <<lock, stopped, raced>>

BeingFilled == lock # Absent /\ ~lock[2] /\ at[lock[1]] = "filling"

ReadStale(p) ==
    /\ at[p] = "blocked"
    /\ ~IsOurs(p) /\ ~HolderRuns
    /\ Goto(p, "stale")
    /\ raced' = (raced \/ BeingFilled)
    /\ UNCHANGED <<lock, stopped>>

Unlink(p) ==
    /\ at[p] = "stale"
    /\ lock' = Absent
    /\ Goto(p, "again")
    /\ UNCHANGED <<stopped, raced>>

-----------------------------------------------------------------------------
(* releaseSchedulerLock() *)

ReleaseRead(p) ==
    /\ at[p] = "ending"
    /\ Goto(p, IF IsOurs(p) THEN "unlinking" ELSE "off")
    /\ UNCHANGED <<lock, stopped, raced>>

ReleaseUnlink(p) ==
    /\ at[p] = "unlinking"
    /\ lock' = Absent
    /\ Goto(p, "off")
    /\ UNCHANGED <<stopped, raced>>

-----------------------------------------------------------------------------

Acquire(p) ==
    \/ CreateLock(p) \/ CreateFails(p) \/ Fill(p)
    \/ ReadOurs(p) \/ TakeLock(p) \/ ReadHeld(p) \/ ReadStale(p) \/ Unlink(p)

Release(p) == ReleaseRead(p) \/ ReleaseUnlink(p)

LockNext == \E p \in Procs :
    StartProcess(p) \/ StopProcess(p) \/ ProcessDies(p) \/ Acquire(p) \/ Release(p)

LockSpec == LockInit /\ [][LockNext]_lockVars

\* The probe timer keeps running, and a call that has begun goes on, as long as
\* the process lives.
FairLockSpec == LockSpec /\ \A p \in Procs :
    WF_lockVars(Acquire(p)) /\ WF_lockVars(Release(p))

-----------------------------------------------------------------------------
(* Properties *)

Stages == {"none", "idle", "filling", "blocked", "taking", "stale", "again", "owner",
           "ending", "unlinking", "off", "dead"}

TypeOK ==
    /\ lock \in (Procs \X BOOLEAN) \cup {Absent}
    /\ at \in [Procs -> Stages]
    /\ stopped \in SUBSET Procs
    /\ raced \in BOOLEAN

\* Two sessions drive the tasks of a directory only after one of them removed or
\* overwrote a lock that came into being after it had looked at the old one, or
\* after one session runs in two processes.
OneOwner ==
    ~raced => \A p, q \in Procs : at[p] = "owner" /\ at[q] = "owner" => p = q

\* The tasks do not stay without a driver: when a session probes, then it or
\* another one owns the lock in the end, whoever died and whatever half a file
\* he left.
Probing == {"idle", "filling", "blocked", "taking", "stale", "again"}

TakenOver == \A p \in Procs :
    (at[p] \in Probing /\ p \notin stopped) ~>
        \/ \E q \in Procs : at[q] = "owner"
        \/ at[p] = "dead" \/ p \in stopped

=============================================================================
