------------------------------ MODULE CronProofs ------------------------------
(***************************************************************************)
(* Who drives the scheduled tasks of a directory, and what he does with    *)
(* them.  At most one session has the lock as long as nothing raced, for   *)
(* any number of processes and sessions (LockInv).  With one driver at a   *)
(* time no task is acted on twice or forgotten, for any number of tasks,   *)
(* sessions and rewrites of the file (CronInv: what the file holds while a *)
(* rewrite is under way, and what each session expects of it).             *)
(***************************************************************************)
EXTENDS SchedulerLock, CronScheduler, FiniteSetTheorems, TLAPS

-----------------------------------------------------------------------------
(* The lock *)

Holds(p) == at[p] \in {"owner", "ending", "unlinking"}
Runs(p) == at[p] \notin {"none", "dead"}

\* The holder of the lock is the one whose name it bears.
HolderNamed == \A p \in Procs : Holds(p) => lock # Absent /\ lock[1] = p /\ lock[2]
FillerNamed == \A p \in Procs :
    at[p] = "filling" => lock # Absent /\ lock[1] = p /\ ~lock[2]

\* A lock that is not filled is being filled, or its writer is dead.
UnfilledIsBegun ==
    lock # Absent /\ ~lock[2] => at[lock[1]] \in {"filling", "dead"}

\* Who is about to remove a lock removes that of a dead process, or none.
StaleIsDead == \A p \in Procs : at[p] = "stale" =>
    lock = Absent \/ at[lock[1]] = "dead"

\* A session runs in one process at a time.
OneProcess == \A p, q \in Procs :
    Runs(p) /\ Runs(q) /\ SessionOf[p] = SessionOf[q] => p = q

Clean == HolderNamed /\ FillerNamed /\ UnfilledIsBegun /\ StaleIsDead /\ OneProcess

LockInv == TypeOK /\ (~raced => Clean)

\* A lock has a holder and a state, or it is Absent.
LEMMA LockOf ==
    \A p \in Procs : <<p, TRUE>> \in Procs \X BOOLEAN /\ <<p, FALSE>> \in Procs \X BOOLEAN
OBVIOUS

LEMMA AbsentIsNoLock ==
    \A p \in Procs : Absent # <<p, TRUE>> /\ Absent # <<p, FALSE>>
BY LockOf, LockAssumption

LEMMA LockForms ==
    TypeOK /\ lock # Absent =>
        lock[1] \in Procs /\ lock[2] \in BOOLEAN /\ lock = <<lock[1], lock[2]>>
BY DEF TypeOK

\* In the beginning there is no lock and nobody runs.
LEMMA LockInitInv == LockInit => LockInv
BY AbsentIsNoLock DEF LockInit, LockInv, TypeOK, Clean, Stages, HolderNamed, FillerNamed,
   UnfilledIsBegun, StaleIsDead, OneProcess, Holds, Runs

\* Every step keeps the types.
LEMMA LockTypeStep == TypeOK /\ [LockNext]_lockVars => TypeOK'
<1> SUFFICES ASSUME TypeOK, [LockNext]_lockVars PROVE TypeOK'
  OBVIOUS
<1> USE DEF TypeOK, Stages
<1>1. CASE UNCHANGED lockVars
  BY <1>1 DEF lockVars
<1>2. ASSUME NEW p \in Procs, StartProcess(p) PROVE TypeOK'
  BY <1>2 DEF StartProcess, Goto, SameSession
<1>3. ASSUME NEW p \in Procs, StopProcess(p) PROVE TypeOK'
  BY <1>3 DEF StopProcess
<1>4. ASSUME NEW p \in Procs, ProcessDies(p) PROVE TypeOK'
  BY <1>4 DEF ProcessDies, Goto
<1>5. ASSUME NEW p \in Procs, Acquire(p) PROVE TypeOK'
  <2>1. CreateLock(p) => TypeOK'
    BY LockOf DEF CreateLock, Goto, OthersRemove
  <2>2. CreateFails(p) => TypeOK'
    BY DEF CreateFails, Goto, NotOwned
  <2>3. Fill(p) => TypeOK'
    BY LockOf DEF Fill, Goto, Owned
  <2>4. ReadOurs(p) => TypeOK'
    BY DEF ReadOurs, Goto, Owned
  <2>7. TakeLock(p) => TypeOK'
    BY LockOf DEF TakeLock, Goto, OthersRemove, LiveLock, Alive
  <2>5. ReadHeld(p) => TypeOK'
    BY DEF ReadHeld, Goto, NotOwned
  <2>6. ReadStale(p) \/ Unlink(p) => TypeOK'
    BY DEF ReadStale, Unlink, Goto, BeingFilled
  <2> QED BY <1>5, <2>1, <2>2, <2>3, <2>4, <2>5, <2>6, <2>7 DEF Acquire
<1>6. ASSUME NEW p \in Procs, Release(p) PROVE TypeOK'
  BY <1>6 DEF Release, ReleaseRead, ReleaseUnlink, Goto
<1> QED BY <1>1, <1>2, <1>3, <1>4, <1>5, <1>6 DEF LockNext

\* Every step keeps the rest, unless it races.
LEMMA LockCleanStep == LockInv /\ [LockNext]_lockVars => (~raced' => Clean')
<1> SUFFICES ASSUME LockInv, [LockNext]_lockVars, ~raced' PROVE Clean'
  OBVIOUS
<1>t. TypeOK /\ TypeOK'
  BY LockTypeStep DEF LockInv
<1>c. ~raced => Clean
  BY DEF LockInv
<1>f. lock # Absent =>
        lock[1] \in Procs /\ lock[2] \in BOOLEAN /\ lock = <<lock[1], lock[2]>>
  BY <1>t, LockForms
<1> USE <1>t, <1>f, AbsentIsNoLock DEF TypeOK, Stages, Clean, HolderNamed, FillerNamed,
    UnfilledIsBegun, StaleIsDead, OneProcess, Holds, Runs
<1>1. CASE UNCHANGED lockVars
  BY <1>1, <1>c DEF lockVars
<1>2. ASSUME NEW p \in Procs, StartProcess(p) PROVE Clean'
  <2>1. Clean /\ at' = [at EXCEPT ![p] = "idle"] /\ UNCHANGED lock /\ ~SameSession(p)
    BY <1>2, <1>c DEF StartProcess, Goto
  <2>a. at[p] = "none" /\ at' \in [Procs -> Stages] /\ at'[p] = "idle"
        /\ \A q \in Procs \ {p} : at'[q] = at[q]
    BY <1>2, <2>1 DEF StartProcess
  <2>b. HolderNamed' /\ FillerNamed'
    BY <2>1, <2>a
  <2>c. StaleIsDead'
    BY <2>1, <2>a
  <2>3. UnfilledIsBegun'
    BY <1>2, <2>1 DEF StartProcess
  <2>4. \A q \in Procs \ {p} : Runs(q) => SessionOf[q] # SessionOf[p]
    BY <2>1 DEF SameSession
  <2>5. \A q \in Procs \ {p} : Runs(q)' <=> Runs(q)
    BY <2>1
  <2>6. OneProcess'
    BY <2>1, <2>4, <2>5
  <2> QED BY <2>b, <2>c, <2>3, <2>6
<1>3. ASSUME NEW p \in Procs, StopProcess(p) PROVE Clean'
  BY <1>3, <1>c DEF StopProcess
<1>4. ASSUME NEW p \in Procs, ProcessDies(p) PROVE Clean'
  BY <1>4, <1>c DEF ProcessDies, Goto
<1>5. ASSUME NEW p \in Procs, CreateLock(p) PROVE Clean'
  BY <1>5, <1>c DEF CreateLock, Goto, OthersRemove, IsFree
<1>6. ASSUME NEW p \in Procs, CreateFails(p) PROVE Clean'
  BY <1>6, <1>c DEF CreateFails, Goto, NotOwned
<1>7. ASSUME NEW p \in Procs, Fill(p) PROVE Clean'
  <2>2. Clean /\ at[p] = "filling" /\ lock # Absent /\ lock[1] = p /\ ~lock[2]
    BY <1>7, <1>c DEF Fill
  <2>3. lock = <<p, FALSE>>
    BY <2>2, <1>f
  <2>4. lock' = <<p, TRUE>> /\ lock' # Absent /\ lock'[1] = p /\ lock'[2]
    BY <1>7, <2>3 DEF Fill
  <2>5. /\ at' \in {[at EXCEPT ![p] = "owner"], [at EXCEPT ![p] = "ending"]}
        /\ UNCHANGED <<stopped, raced>>
    BY <1>7 DEF Fill, Goto, Owned
  <2>6. \A q \in Procs : at[q] # "stale" /\ ~Holds(q) /\ (at[q] = "filling" => q = p)
    BY <2>2
  <2>7. StaleIsDead' /\ OneProcess'
    BY <2>2, <2>5, <2>6
  <2>8. HolderNamed' /\ FillerNamed' /\ UnfilledIsBegun'
    BY <2>4, <2>5, <2>6
  <2> QED BY <2>7, <2>8
<1>8. ASSUME NEW p \in Procs, ReadOurs(p) PROVE Clean'
  <2>1. Clean /\ at[p] = "blocked" /\ lock # Absent /\ lock[2] /\ UNCHANGED lock
    BY <1>8, <1>c DEF ReadOurs, IsOurs, Readable
  <2>2. CASE lock[1] = p
    <3>1. at' \in {[at EXCEPT ![p] = "owner"], [at EXCEPT ![p] = "ending"]}
      BY <1>8, <2>2 DEF ReadOurs, Goto, Owned
    <3> QED BY <2>1, <2>2, <3>1
  <2>3. CASE lock[1] # p
    <3>1. at' = [at EXCEPT ![p] = "taking"]
      BY <1>8, <2>3 DEF ReadOurs, Goto
    <3> QED BY <2>1, <3>1
  <2> QED BY <2>2, <2>3
<1>14. ASSUME NEW p \in Procs, TakeLock(p) PROVE Clean'
  <2>1. /\ Clean /\ at[p] = "taking" /\ at' = [at EXCEPT ![p] = "filling"]
        /\ lock' = <<p, FALSE>> /\ ~OthersRemove(p) /\ ~LiveLock
    BY <1>14, <1>c DEF TakeLock, Goto
  <2>2. lock' # Absent /\ lock'[1] = p /\ ~lock'[2]
    BY <2>1
  <2>3. lock = Absent \/ at[lock[1]] = "dead"
    BY <2>1 DEF LiveLock, Alive
  <2>4. \A q \in Procs : ~Holds(q) /\ at[q] # "filling" /\ at[q] # "stale"
    BY <2>1, <2>3 DEF OthersRemove
  <2>5. StaleIsDead'
    BY <2>1, <2>4
  <2>6. OneProcess'
    BY <2>1
  <2>7. HolderNamed' /\ FillerNamed' /\ UnfilledIsBegun'
    BY <2>1, <2>2, <2>4
  <2> QED BY <2>5, <2>6, <2>7
<1>9. ASSUME NEW p \in Procs, ReadHeld(p) PROVE Clean'
  BY <1>9, <1>c DEF ReadHeld, Goto, NotOwned
<1>10. ASSUME NEW p \in Procs, ReadStale(p) PROVE Clean'
  BY <1>10, <1>c DEF ReadStale, Goto, IsOurs, HolderRuns, Readable, BeingFilled, Alive
<1>11. ASSUME NEW p \in Procs, Unlink(p) PROVE Clean'
  BY <1>11, <1>c DEF Unlink, Goto
<1>12. ASSUME NEW p \in Procs, ReleaseRead(p) PROVE Clean'
  BY <1>12, <1>c DEF ReleaseRead, Goto
<1>13. ASSUME NEW p \in Procs, ReleaseUnlink(p) PROVE Clean'
  BY <1>13, <1>c DEF ReleaseUnlink, Goto
<1> QED
  BY <1>1, <1>2, <1>3, <1>4, <1>5, <1>6, <1>7, <1>8, <1>9, <1>10, <1>11, <1>12, <1>13,
     <1>14 DEF LockNext, Acquire, Release

\* Two sessions drive the tasks of a directory only after one of them removed or
\* overwrote a lock that came into being after it had looked at the old one, or
\* after one session runs in two processes.
THEOREM OneOwnerAlways == LockSpec => []OneOwner
<1>1. LockInv /\ [LockNext]_lockVars => LockInv'
  BY LockTypeStep, LockCleanStep DEF LockInv
<1>2. LockInv => OneOwner
  BY DEF LockInv, Clean, HolderNamed, Holds, OneOwner
<1> QED BY LockInitInv, <1>1, <1>2, PTL DEF LockSpec

-----------------------------------------------------------------------------
(* The types of the schedule *)

Books == UNION {[S -> Nat] : S \in SUBSET Tasks}
Rewrites == [kind : {"add", "remove", "mark"}, ids : SUBSET Tasks,
             flying : SUBSET Tasks, time : Nat,
             stage : {"read", "truncate", "fill"}, body : Books]

CronTypes ==
    /\ now \in 0..MaxTime
    /\ file \in Books
    /\ phase \in [Sessions -> {"none", "loading", "on", "stopped", "dead"}]
    /\ owner \in [Sessions -> BOOLEAN]
    /\ view \in [Sessions -> Books]
    /\ nextFireAt \in [Sessions -> [Tasks -> Nat]]
    /\ inFlight \in [Sessions -> SUBSET Tasks]
    /\ behind \in [Sessions -> BOOLEAN]
    /\ ops \in [Sessions -> SUBSET Rewrites]
    /\ created \in SUBSET Tasks /\ deleted \in SUBSET Tasks
    /\ acted \in SUBSET Tasks /\ again \in SUBSET Tasks
    /\ lastFire \in [Recurring -> Nat]
    /\ overlapped \in BOOLEAN /\ hasty \in BOOLEAN /\ cut \in BOOLEAN
    /\ failed \in Nat /\ unread \in Nat

\* A book gives a number to each of some tasks.
LEMMA BookOf ==
    \A f \in Books : DOMAIN f \subseteq Tasks /\ \A t \in DOMAIN f : f[t] \in Nat
  BY DEF Books

LEMMA IsBook ==
    ASSUME NEW S \in SUBSET Tasks, NEW f \in [S -> Nat] PROVE f \in Books
  BY DEF Books

LEMMA NobodyIsBook == Nobody \in Books /\ DOMAIN Nobody = {}
<1>1. Nobody \in [{} -> Nat]
  BY DEF Nobody
<1> QED BY <1>1, IsBook

\* Times are numbers, and the two that are none are later than all others.
LEMMA Times ==
    /\ MaxTime \in Nat /\ Unset \in Nat /\ Never \in Nat /\ MaxFailures \in Nat
    /\ Unset > MaxTime /\ Never > MaxTime /\ Unset # Never
    /\ \A t \in Tasks : Due[t] \in Nat /\ Due[t] > 0
    /\ \A t \in Recurring : t \in Tasks /\ Expires[t] \in Nat
    /\ \A t \in OneShots : t \in Tasks
    /\ \A t \in Tasks : t \in OneShots <=> t \notin Recurring
  BY CronAssumption DEF Tasks, Unset, Never

LEMMA NewRewrite ==
    ASSUME CronTypes, NEW kind \in {"add", "remove", "mark"},
           NEW ids \in SUBSET Tasks, NEW flying \in SUBSET Tasks
    PROVE  Op(kind, ids, flying) \in Rewrites
  BY NobodyIsBook DEF Op, Rewrites, CronTypes

\* What a session reads is the file or nothing.
LEMMA SeenIs ==
    ASSUME CronTypes, NEW f \in Seen
    PROVE  /\ f \in Books /\ DOMAIN f \subseteq DOMAIN file
           /\ Missing(f) \in Nat /\ (Missing(f) = 0 => f = file)
  BY NobodyIsBook DEF Seen, Missing, CronTypes

\* What a rewrite has in mind is a book.
LEMMA BodyIsBook ==
    ASSUME NEW o \in Rewrites, NEW f \in Books PROVE Body(o, f) \in Books
<1>1. DOMAIN f \subseteq Tasks /\ \A t \in DOMAIN f : f[t] \in Nat
  BY BookOf
<1>2. o.ids \in SUBSET Tasks /\ o.time \in Nat /\ o.kind \in {"add", "remove", "mark"}
  BY DEF Rewrites
<1>3. CASE o.kind = "add"
  <2>1. Body(o, f) = [t \in DOMAIN f \cup o.ids |-> IF t \in o.ids THEN 0 ELSE f[t]]
    BY <1>3 DEF Body
  <2>2. Body(o, f) \in [DOMAIN f \cup o.ids -> Nat]
    BY <1>1, <1>2, <2>1
  <2> QED BY <1>1, <1>2, <2>2, IsBook
<1>4. CASE o.kind = "remove"
  <2>1. Body(o, f) = [t \in DOMAIN f \cap (Tasks \ o.ids) |-> f[t]]
    BY <1>4 DEF Body, Remaining, Restricted
  <2>2. Body(o, f) \in [DOMAIN f \cap (Tasks \ o.ids) -> Nat]
    BY <1>1, <2>1
  <2> QED BY <1>1, <2>2, IsBook
<1>5. CASE o.kind = "mark"
  <2>1. Body(o, f) = [t \in DOMAIN f |-> IF t \in o.ids THEN o.time ELSE f[t]]
    BY <1>5 DEF Body
  <2>2. Body(o, f) \in [DOMAIN f -> Nat]
    BY <1>1, <1>2, <2>1
  <2> QED BY <1>1, <2>2, IsBook
<1> QED BY <1>2, <1>3, <1>4, <1>5

LEMMA InitCronTypes == Init => CronTypes
<1> SUFFICES ASSUME Init PROVE CronTypes
  OBVIOUS
<1>1. file \in Books
  <2>1. file \in [Old -> Nat]
    BY DEF Init
  <2> QED BY <2>1, IsBook, CronAssumption
<1>2. view \in [Sessions -> Books] /\ nextFireAt \in [Sessions -> [Tasks -> Nat]]
  BY NobodyIsBook, Times DEF Init, NoTimes
<1>3. now \in 0..MaxTime /\ created \in SUBSET Tasks /\ lastFire \in [Recurring -> Nat]
  BY Times, CronAssumption DEF Init
<1> QED BY <1>1, <1>2, <1>3 DEF Init, CronTypes

\* The rewrites of a session after it has begun those in N.
LEMMA BeginTypes ==
    ASSUME CronTypes, NEW s \in Sessions, NEW N \in SUBSET Rewrites, Begin(s, N)
    PROVE  ops' \in [Sessions -> SUBSET Rewrites] /\ overlapped' \in BOOLEAN
  BY DEF Begin, CronTypes

LEMMA RewriteTypes ==
    ASSUME CronTypes, NEW s \in Sessions, OpStep(s) PROVE CronTypes'
<1>1. PICK o \in ops[s] :
         OpRead(s, o) \/ OpTruncate(s, o) \/ OpFill(s, o) \/ OpFails(s, o)
  BY DEF OpStep
<1>2. o \in Rewrites
  BY DEF CronTypes
<1>3. CASE OpRead(s, o)
  <2>1. PICK f \in Seen :
           /\ \/ /\ Replaced(s, o, [o EXCEPT !.stage = "truncate", !.body = Body(o, f)])
                 /\ UNCHANGED inFlight
              \/ Settle(s, o)
           /\ failed' = failed + Missing(f)
    BY <1>3 DEF OpRead
  <2>2. UNCHANGED <<now, file, phase, owner, view, nextFireAt, behind, record>>
    BY <1>3 DEF OpRead
  <2>3. [o EXCEPT !.stage = "truncate", !.body = Body(o, f)] \in Rewrites
    BY <1>2, SeenIs, BodyIsBook DEF Rewrites
  <2>4. failed' \in Nat
    BY <2>1, SeenIs DEF CronTypes
  <2>5. ops' \in [Sessions -> SUBSET Rewrites] /\ inFlight' \in [Sessions -> SUBSET Tasks]
    <3>1. CASE Settle(s, o)
      BY <3>1, <1>2 DEF Settle, CronTypes
    <3>2. CASE /\ Replaced(s, o, [o EXCEPT !.stage = "truncate", !.body = Body(o, f)])
               /\ UNCHANGED inFlight
      BY <3>2, <2>3 DEF Replaced, CronTypes
    <3> QED BY <2>1, <3>1, <3>2
  <2> QED BY <2>2, <2>4, <2>5 DEF CronTypes, record
<1>4. CASE OpTruncate(s, o)
  <2>1. [o EXCEPT !.stage = "fill"] \in Rewrites
    BY <1>2 DEF Rewrites
  <2> QED BY <1>4, <1>2, <2>1, NobodyIsBook
          DEF OpTruncate, Replaced, Announce, Hears, Running, CronTypes, ghosts, record
<1>5. CASE OpFill(s, o)
  <2>1. file' \in Books
    BY <1>5, <1>2, NobodyIsBook DEF OpFill, Rewrites
  <2> QED BY <1>5, <1>2, <2>1
          DEF OpFill, Settle, Announce, Hears, Running, CronTypes, ghosts, record
<1>6. CASE OpFails(s, o)
  <2>1. file' \in Books
    BY <1>6, NobodyIsBook DEF OpFails, CronTypes
  <2>2. failed' \in Nat
    BY <1>6 DEF OpFails, CronTypes
  <2>3. behind' \in [Sessions -> BOOLEAN]
    BY <1>6 DEF OpFails, Announce, Hears, Running, CronTypes
  <2> QED BY <1>6, <1>2, <2>1, <2>2, <2>3 DEF OpFails, Settle, CronTypes, record
<1> QED BY <1>1, <1>3, <1>4, <1>5, <1>6

\* What the driver fires, and the rewrites that it begins then.
Writes(s) ==
    {Op("remove", {t}, {t}) : t \in Fired(s) \ Rescheduled(s)}
       \cup {Op("mark", R, R) : R \in {Rescheduled(s)} \ {{}}}
Clears(f) == {Op("remove", M, {}) : M \in {Missed(f)} \ {{}}}

LEMMA FireTypes ==
    ASSUME CronTypes, NEW s \in Sessions
    PROVE  /\ Fired(s) \in SUBSET Tasks /\ Rescheduled(s) \in SUBSET Fired(s)
           /\ \A t \in DOMAIN view[s] : FireTime(s, t) \in Nat
           /\ Schedule(s) \in [Tasks -> Nat]
           /\ Writes(s) \in SUBSET Rewrites
<1>1. DOMAIN view[s] \subseteq Tasks /\ \A t \in DOMAIN view[s] : view[s][t] \in Nat
  BY BookOf DEF CronTypes
<1>2. Fired(s) \in SUBSET Tasks /\ Rescheduled(s) \in SUBSET Fired(s)
  BY <1>1 DEF Fired, Rescheduled
<1>3. \A t \in DOMAIN view[s] : FireTime(s, t) \in Nat
  BY <1>1, Times DEF FireTime, FirstSight, CronTypes
<1>4. Schedule(s) \in [Tasks -> Nat]
  <2>1. ASSUME NEW t \in Tasks
        PROVE  Schedule(s)[t] \in Nat
    <3>1. Schedule(s)[t] = IF t \in Rescheduled(s) THEN now + 1
                           ELSE IF t \notin DOMAIN view[s] \/ t \in Fired(s) THEN Unset
                           ELSE IF InFlight(s, t) THEN nextFireAt[s][t]
                           ELSE FireTime(s, t)
      BY DEF Schedule
    <3>2. now + 1 \in Nat /\ nextFireAt[s][t] \in Nat /\ Unset \in Nat
      BY Times DEF CronTypes
    <3> QED BY <3>1, <3>2, <1>3
  <2>2. Schedule(s) = [t \in Tasks |-> Schedule(s)[t]]
    BY DEF Schedule
  <2> QED BY <2>1, <2>2
<1>5. ASSUME NEW n \in Writes(s) PROVE n \in Rewrites
  <2>1. CASE \E t \in Fired(s) \ Rescheduled(s) : n = Op("remove", {t}, {t})
    <3>1. PICK t \in Fired(s) \ Rescheduled(s) : n = Op("remove", {t}, {t})
      BY <2>1
    <3>2. {t} \in SUBSET Tasks
      BY <1>2
    <3> QED BY <3>1, <3>2, NewRewrite
  <2>2. CASE n = Op("mark", Rescheduled(s), Rescheduled(s))
    <3>1. Rescheduled(s) \in SUBSET Tasks
      BY <1>2
    <3> QED BY <2>2, <3>1, NewRewrite
  <2> QED BY <1>5, <2>1, <2>2 DEF Writes
<1> QED BY <1>2, <1>3, <1>4, <1>5

LEMMA LoadTypes ==
    ASSUME CronTypes, NEW f
    PROVE  /\ Missed(f) \in SUBSET Tasks
           /\ Clears(f) \in SUBSET Rewrites
           /\ \A s \in Sessions : Guarded(s, f) \in [Tasks -> Nat]
<1>1. Missed(f) \in SUBSET Tasks
  BY Times DEF Missed
<1>2. Clears(f) \in SUBSET Rewrites
  <2>1. Op("remove", Missed(f), {}) \in Rewrites
    BY <1>1, NewRewrite
  <2> QED BY <2>1 DEF Clears
<1>3. \A s \in Sessions : Guarded(s, f) \in [Tasks -> Nat]
  BY Times DEF Guarded, CronTypes
<1> QED BY <1>1, <1>2, <1>3

LEMMA CheckTypes ==
    ASSUME CronTypes, NEW s \in Sessions, Check(s) PROVE CronTypes'
<1>1. /\ nextFireAt' = [nextFireAt EXCEPT ![s] = Schedule(s)]
      /\ inFlight' = [inFlight EXCEPT ![s] = @ \cup Fired(s)]
      /\ Act(s, Fired(s)) /\ Begin(s, Writes(s))
      /\ UNCHANGED <<now, file, phase, owner, view, behind, created, deleted, cut,
                     failed, unread>>
  BY DEF Check, Writes
<1>2. ops' \in [Sessions -> SUBSET Rewrites] /\ overlapped' \in BOOLEAN
  BY <1>1, FireTypes, BeginTypes
<1>3. /\ acted' \in SUBSET Tasks /\ again' \in SUBSET Tasks
      /\ lastFire' \in [Recurring -> Nat] /\ hasty' \in BOOLEAN
  <2>1. lastFire' \in [Recurring -> Nat]
    BY <1>1 DEF Act, CronTypes
  <2> QED BY <1>1, <2>1, FireTypes DEF Act, CronTypes
<1>4. /\ nextFireAt' \in [Sessions -> [Tasks -> Nat]]
      /\ inFlight' \in [Sessions -> SUBSET Tasks]
  <2>1. Schedule(s) \in [Tasks -> Nat] /\ Fired(s) \in SUBSET Tasks
    BY FireTypes
  <2> QED BY <1>1, <2>1 DEF CronTypes
<1> QED BY <1>1, <1>2, <1>3, <1>4 DEF CronTypes

\* What a session does that starts, by what it reads.
LEMMA LoadsOne ==
    ASSUME CronTypes, NEW s \in Sessions, InitialLoad(s)
    PROVE  \E f \in Seen :
             /\ phase[s] = "loading"
             /\ phase' = [phase EXCEPT ![s] = "on"]
             /\ nextFireAt' = [nextFireAt EXCEPT ![s] = Guarded(s, f)]
             /\ view' = [view EXCEPT ![s] = f]
             /\ behind' = [behind EXCEPT ![s] = FALSE]
             /\ unread' = unread + Missing(f)
             /\ acted' = acted \cup Missed(f)
             /\ again' = again \cup (Missed(f) \cap acted)
             /\ Begin(s, Clears(f))
             /\ UNCHANGED <<now, file, owner, inFlight, created, deleted, lastFire, hasty,
                            cut, failed>>
  BY DEF InitialLoad, Loaded, Clears

LEMMA LoadStepTypes ==
    ASSUME CronTypes, NEW s \in Sessions, InitialLoad(s) PROVE CronTypes'
<1>1. PICK f \in Seen :
        /\ nextFireAt' = [nextFireAt EXCEPT ![s] = Guarded(s, f)]
        /\ phase' = [phase EXCEPT ![s] = "on"]
        /\ view' = [view EXCEPT ![s] = f]
        /\ behind' = [behind EXCEPT ![s] = FALSE]
        /\ unread' = unread + Missing(f)
        /\ acted' = acted \cup Missed(f)
        /\ again' = again \cup (Missed(f) \cap acted)
        /\ Begin(s, Clears(f))
        /\ UNCHANGED <<now, file, owner, inFlight, created, deleted, lastFire, hasty, cut,
                       failed>>
  BY LoadsOne
<1>2. ops' \in [Sessions -> SUBSET Rewrites] /\ overlapped' \in BOOLEAN
  BY <1>1, LoadTypes, BeginTypes
<1>3. nextFireAt' \in [Sessions -> [Tasks -> Nat]] /\ Missed(f) \in SUBSET Tasks
  BY <1>1, LoadTypes DEF CronTypes
<1>4. f \in Books /\ unread' \in Nat
  BY <1>1, SeenIs DEF CronTypes
<1> QED BY <1>1, <1>2, <1>3, <1>4 DEF CronTypes

LEMMA ReloadTypes ==
    ASSUME CronTypes, NEW s \in Sessions, Reload(s) PROVE CronTypes'
<1>1. PICK f \in Seen : Loaded(s, f)
  BY DEF Reload
<1>2. f \in Books /\ unread' \in Nat
  BY <1>1, SeenIs DEF Loaded, CronTypes
<1> QED BY <1>1, <1>2 DEF Reload, Loaded, CronTypes

LEMMA CreateTypes ==
    ASSUME CronTypes, NEW s \in Sessions, NEW t \in Tasks,
           Create(s, t) \/ Delete(s, t)
    PROVE  CronTypes'
<1>1. /\ {Op("add", {t}, {})} \in SUBSET Rewrites
      /\ {Op("remove", {t}, {})} \in SUBSET Rewrites
  BY NewRewrite
<1>2. ops' \in [Sessions -> SUBSET Rewrites] /\ overlapped' \in BOOLEAN
  BY <1>1, BeginTypes DEF Create, Delete
<1> QED BY <1>2 DEF Create, Delete, session, CronTypes

\* Every step keeps the types.
LEMMA NextCronTypes == CronTypes /\ [Next]_vars => CronTypes'
<1> SUFFICES ASSUME CronTypes, [Next]_vars PROVE CronTypes'
  OBVIOUS
<1>1. CASE UNCHANGED vars
  BY <1>1 DEF vars, session, ghosts, record, CronTypes
<1>2. CASE Tick
  BY <1>2, Times DEF Tick, session, ghosts, record, CronTypes
<1>3. ASSUME NEW s \in Sessions, Start(s) \/ Probe(s) PROVE CronTypes'
  BY <1>3 DEF Start, Probe, NoOwner, ghosts, record, CronTypes
<1>n. NoTimes \in [Tasks -> Nat] /\ Nobody \in Books
  BY Times, NobodyIsBook DEF NoTimes
<1>4. ASSUME NEW s \in Sessions, Stop(s) \/ Die(s) PROVE CronTypes'
  <2>1. Stop(s) => CronTypes'
    BY <1>n DEF Stop, Forget, ghosts, record, CronTypes
  <2>2. Die(s) => CronTypes'
    <3> SUFFICES ASSUME Die(s) PROVE CronTypes'
      OBVIOUS
    <3>1. /\ ops' \in [Sessions -> SUBSET Rewrites] /\ cut' \in BOOLEAN
          /\ inFlight' \in [Sessions -> SUBSET Tasks]
      BY DEF Die, CronTypes
    <3> QED BY <1>n, <3>1 DEF Die, Forget, CronTypes
  <2> QED BY <1>4, <2>1, <2>2
<1>5. ASSUME NEW s \in Sessions, IdleCheck(s) PROVE CronTypes'
  BY <1>5, <1>n DEF IdleCheck, ghosts, record, CronTypes
<1> QED
  BY <1>1, <1>2, <1>3, <1>4, <1>5, CreateTypes, LoadStepTypes, ReloadTypes, CheckTypes,
     RewriteTypes
     DEF Next, SessionStep

-----------------------------------------------------------------------------
(* The driver and its schedule *)

\* Whatever anybody knows of was created.
Known ==
    /\ IsFiniteSet(created)
    /\ acted \subseteq created
    /\ DOMAIN file \subseteq created
    /\ \A s \in Sessions : DOMAIN view[s] \subseteq created
    /\ \A s \in Sessions : \A o \in ops[s] :
          o.ids \subseteq created /\ DOMAIN o.body \subseteq created

Past == \A t \in Recurring : lastFire[t] <= now /\ (lastFire[t] # 0 => t \in acted)

\* There is one driver.  Who was never the driver has planned nothing but to
\* leave missed tasks alone, and the driver plans no time that is over.
Sleeping(s) == ~owner[s] /\ phase[s] \in {"none", "loading", "on"}
Driven ==
    /\ \A s \in Sessions : owner[s] => Running(s)
    /\ \A s, q \in Sessions : owner[s] /\ owner[q] => s = q
    /\ \A s \in Sessions : Sleeping(s) =>
          \A t \in Tasks : nextFireAt[s][t] \in {Unset, Never}
    /\ \A s \in Sessions : owner[s] => \A t \in Recurring :
          nextFireAt[s][t] = Unset \/ nextFireAt[s][t] > lastFire[t]

\* Nobody has missed a change that he was not told about, but he may have read
\* nothing.
Fresh == \A s \in Sessions :
    phase[s] = "on" /\ ~behind[s] => view[s] \in {file, Nobody}

\* What a rewrite makes of what it has read.
LEMMA BodyOf ==
    ASSUME NEW o \in Rewrites, NEW f \in Books
    PROVE  /\ o.kind = "add" =>
                /\ DOMAIN Body(o, f) = DOMAIN f \cup o.ids
                /\ \A t \in DOMAIN Body(o, f) :
                      Body(o, f)[t] = IF t \in o.ids THEN 0 ELSE f[t]
           /\ o.kind = "remove" =>
                /\ DOMAIN Body(o, f) = DOMAIN f \ o.ids
                /\ \A t \in DOMAIN Body(o, f) : Body(o, f)[t] = f[t]
           /\ o.kind = "mark" =>
                /\ DOMAIN Body(o, f) = DOMAIN f
                /\ \A t \in DOMAIN Body(o, f) :
                      Body(o, f)[t] = IF t \in o.ids THEN o.time ELSE f[t]
<1>1. DOMAIN f \subseteq Tasks
  BY BookOf
<1>2. CASE o.kind = "add"
  BY <1>2 DEF Body
<1>3. CASE o.kind = "remove"
  <2>1. Body(o, f) = [t \in DOMAIN f \cap (Tasks \ o.ids) |-> f[t]]
    BY <1>3 DEF Body, Remaining, Restricted
  <2>2. DOMAIN f \cap (Tasks \ o.ids) = DOMAIN f \ o.ids
    BY <1>1
  <2> QED BY <1>3, <2>1, <2>2
<1>4. CASE o.kind = "mark"
  BY <1>4 DEF Body
<1> QED BY <1>2, <1>3, <1>4 DEF Rewrites

LEMMA BodyWithin ==
    ASSUME NEW o \in Rewrites, NEW f \in Books
    PROVE  DOMAIN Body(o, f) \subseteq DOMAIN f \cup o.ids
<1>1. o.kind \in {"add", "remove", "mark"}
  BY DEF Rewrites
<1> QED BY <1>1, BodyOf

\* The rewrites of each session after a step of one of them.
LEMMA StepRewrite ==
    ASSUME CronTypes, NEW s \in Sessions, NEW o \in ops[s], NEW q \in Sessions,
           NEW p \in ops'[q]
    PROVE  /\ OpRead(s, o) => \E f \in Seen :
                 \/ p \in ops[q]
                 \/ p = [o EXCEPT !.stage = "truncate", !.body = Body(o, f)]
           /\ OpTruncate(s, o) => p \in ops[q] \/ p = [o EXCEPT !.stage = "fill"]
           /\ OpFill(s, o) \/ OpFails(s, o) => p \in ops[q]
<1>1. ASSUME OpRead(s, o)
      PROVE  \E f \in Seen :
                 \/ p \in ops[q]
                 \/ p = [o EXCEPT !.stage = "truncate", !.body = Body(o, f)]
  <2>1. PICK f \in Seen :
           \/ Replaced(s, o, [o EXCEPT !.stage = "truncate", !.body = Body(o, f)])
           \/ Settle(s, o)
    BY <1>1 DEF OpRead
  <2>2. p \in ops[q] \/ p = [o EXCEPT !.stage = "truncate", !.body = Body(o, f)]
    BY <2>1 DEF Replaced, Settle, CronTypes
  <2> QED BY <2>2
<1>2. OpTruncate(s, o) => p \in ops[q] \/ p = [o EXCEPT !.stage = "fill"]
  BY DEF OpTruncate, Replaced, CronTypes
<1>3. OpFill(s, o) \/ OpFails(s, o) => p \in ops[q]
  BY DEF OpFill, OpFails, Settle, CronTypes
<1> QED BY <1>1, <1>2, <1>3

LEMMA BeginRewrite ==
    ASSUME CronTypes, NEW s \in Sessions, NEW N, Begin(s, N),
           NEW q \in Sessions, NEW p \in ops'[q]
    PROVE  p \in ops[q] \/ (q = s /\ p \in N)
  BY DEF Begin, CronTypes

LEMMA InitKnown == Init => Known /\ Past /\ Driven /\ Fresh
<1> SUFFICES ASSUME Init PROVE Known /\ Past /\ Driven /\ Fresh
  OBVIOUS
<1>1. Known
  BY CronAssumption, NobodyIsBook DEF Init, Known
<1>2. Past /\ Driven /\ Fresh
  BY Times DEF Init, NoTimes, Past, Driven, Fresh, Sleeping, Running
<1> QED BY <1>1, <1>2

LEMMA FiredKnown ==
    ASSUME Known, NEW s \in Sessions
    PROVE  /\ Fired(s) \subseteq created
           /\ Rescheduled(s) \subseteq created
           /\ \A f : DOMAIN f \subseteq DOMAIN file => Missed(f) \subseteq created
  BY DEF Known, Fired, Rescheduled, Missed

LEMMA BeginKnown ==
    ASSUME CronTypes, Known, NEW s \in Sessions, NEW N, Begin(s, N),
           created \subseteq created',
           \A n \in N : n.ids \subseteq created' /\ DOMAIN n.body \subseteq created'
    PROVE  \A q \in Sessions : \A p \in ops'[q] :
               p.ids \subseteq created' /\ DOMAIN p.body \subseteq created'
<1> SUFFICES ASSUME NEW q \in Sessions, NEW p \in ops'[q]
             PROVE  p.ids \subseteq created' /\ DOMAIN p.body \subseteq created'
  OBVIOUS
<1>1. p \in ops[q] \/ p \in N
  BY BeginRewrite
<1> QED BY <1>1 DEF Known

LEMMA RewriteKnown ==
    ASSUME CronTypes, Known, NEW s \in Sessions, OpStep(s) PROVE Known'
<1>1. PICK o \in ops[s] :
         OpRead(s, o) \/ OpTruncate(s, o) \/ OpFill(s, o) \/ OpFails(s, o)
  BY DEF OpStep
<1>2. o \in Rewrites /\ o.ids \subseteq created /\ DOMAIN o.body \subseteq created
  BY DEF CronTypes, Known
<1>3. UNCHANGED <<created, acted, view>>
  BY <1>1 DEF OpRead, OpTruncate, OpFill, OpFails, ghosts, record
<1>4. DOMAIN file' \subseteq created
  <2>1. file' = file \/ file' = Nobody \/ file' = o.body
    BY <1>1 DEF OpRead, OpTruncate, OpFill, OpFails
  <2> QED BY <1>2, <2>1, NobodyIsBook DEF Known
<1>5. ASSUME NEW q \in Sessions, NEW p \in ops'[q]
      PROVE  p.ids \subseteq created /\ DOMAIN p.body \subseteq created
  <2>1. CASE p \in ops[q]
    BY <2>1 DEF Known
  <2>2. ASSUME NEW f \in Seen, p = [o EXCEPT !.stage = "truncate", !.body = Body(o, f)]
        PROVE  p.ids \subseteq created /\ DOMAIN p.body \subseteq created
    <3>1. p.ids = o.ids /\ p.body = Body(o, f)
      BY <2>2, <1>2 DEF Rewrites
    <3>2. DOMAIN Body(o, f) \subseteq DOMAIN file \cup o.ids
      BY <1>2, SeenIs, BodyWithin
    <3> QED BY <3>1, <3>2, <1>2 DEF Known
  <2>3. CASE p = [o EXCEPT !.stage = "fill"]
    <3>1. p.ids = o.ids /\ p.body = o.body
      BY <2>3, <1>2 DEF Rewrites
    <3> QED BY <3>1, <1>2
  <2> QED BY <1>1, <2>1, <2>2, <2>3, StepRewrite
<1> QED BY <1>3, <1>4, <1>5 DEF Known

LEMMA OpIs ==
    ASSUME NEW kind, NEW ids, NEW flying
    PROVE  LET n == Op(kind, ids, flying)
           IN  /\ n.kind = kind /\ n.ids = ids /\ n.flying = flying /\ n.time = now
               /\ n.stage = "read" /\ n.body = Nobody /\ DOMAIN n.body = {}
  BY NobodyIsBook DEF Op

\* Each new rewrite of a check removes one task or marks all others.
LEMMA WritesAre ==
    ASSUME NEW s, NEW n \in Writes(s)
    PROVE  /\ n.stage = "read" /\ n.body = Nobody /\ n.time = now /\ n.flying = n.ids
           /\ \/ n.kind = "mark" /\ n.ids = Rescheduled(s) /\ Rescheduled(s) # {}
              \/ n.kind = "remove" /\ \E t \in Fired(s) \ Rescheduled(s) : n.ids = {t}
<1>1. CASE \E t \in Fired(s) \ Rescheduled(s) : n = Op("remove", {t}, {t})
  BY <1>1, OpIs
<1>2. CASE n = Op("mark", Rescheduled(s), Rescheduled(s)) /\ Rescheduled(s) # {}
  BY <1>2, OpIs
<1> QED BY <1>1, <1>2 DEF Writes

LEMMA ClearsAre ==
    ASSUME NEW f, NEW n \in Clears(f)
    PROVE  /\ n.stage = "read" /\ n.body = Nobody /\ n.time = now /\ n.flying = {}
           /\ n.kind = "remove" /\ n.ids = Missed(f) /\ Missed(f) # {}
<1>1. n = Op("remove", Missed(f), {}) /\ Missed(f) # {}
  BY DEF Clears
<1> QED BY <1>1, OpIs

LEMMA NextKnown == CronTypes /\ Known /\ [Next]_vars => Known'
<1> SUFFICES ASSUME CronTypes, Known, [Next]_vars PROVE Known'
  OBVIOUS
<1>1. CASE UNCHANGED <<file, view, ops, created, acted>>
  BY <1>1 DEF Known
<1>2. ASSUME NEW s \in Sessions, Stop(s) \/ Die(s) PROVE Known'
  <2>1. /\ view' = [view EXCEPT ![s] = Nobody] /\ UNCHANGED <<file, created, acted>>
        /\ ops' = ops \/ ops' = [ops EXCEPT ![s] = {}]
    BY <1>2 DEF Stop, Die, Forget, ghosts, record
  <2> QED BY <2>1, NobodyIsBook DEF Known, CronTypes
<1>3. ASSUME NEW s \in Sessions, NEW t \in Tasks, Create(s, t) PROVE Known'
  <2>1. /\ created' = created \cup {t} /\ UNCHANGED <<file, view, acted>>
        /\ Begin(s, {Op("add", {t}, {})})
    BY <1>3 DEF Create, session
  <2>2. IsFiniteSet(created')
    BY <2>1, FS_AddElement DEF Known
  <2>3. \A n \in {Op("add", {t}, {})} :
            n.ids \subseteq created' /\ DOMAIN n.body \subseteq created'
    BY <2>1, OpIs
  <2>4. \A q \in Sessions : \A p \in ops'[q] :
            p.ids \subseteq created' /\ DOMAIN p.body \subseteq created'
    BY <2>1, <2>3, BeginKnown
  <2> QED BY <2>1, <2>2, <2>4 DEF Known
<1>4. ASSUME NEW s \in Sessions, NEW t \in Tasks, Delete(s, t) PROVE Known'
  <2>1. /\ t \in created /\ UNCHANGED <<file, view, acted, created>>
        /\ Begin(s, {Op("remove", {t}, {})})
    BY <1>4 DEF Delete, session, Known
  <2>3. \A n \in {Op("remove", {t}, {})} :
            n.ids \subseteq created' /\ DOMAIN n.body \subseteq created'
    BY <2>1, OpIs
  <2>4. \A q \in Sessions : \A p \in ops'[q] :
            p.ids \subseteq created' /\ DOMAIN p.body \subseteq created'
    BY <2>1, <2>3, BeginKnown
  <2> QED BY <2>1, <2>4 DEF Known
<1>5. ASSUME NEW s \in Sessions, InitialLoad(s) PROVE Known'
  <2>1. PICK f \in Seen :
          /\ acted' = acted \cup Missed(f) /\ view' = [view EXCEPT ![s] = f]
          /\ UNCHANGED <<file, created>> /\ Begin(s, Clears(f))
    BY <1>5, LoadsOne
  <2>s. DOMAIN f \subseteq DOMAIN file /\ Missed(f) \subseteq created
    BY SeenIs, FiredKnown, <1>5
  <2>2. \A n \in Clears(f) : n.ids \subseteq created' /\ DOMAIN n.body \subseteq created'
    BY <2>1, <2>s, ClearsAre, NobodyIsBook
  <2>3. \A q \in Sessions : \A p \in ops'[q] :
            p.ids \subseteq created' /\ DOMAIN p.body \subseteq created'
    BY <2>1, <2>2, BeginKnown
  <2> QED BY <2>1, <2>s, <2>3 DEF Known, CronTypes
<1>6. ASSUME NEW s \in Sessions, Reload(s) PROVE Known'
  <2>1. PICK f \in Seen : view' = [view EXCEPT ![s] = f]
    BY <1>6 DEF Reload, Loaded
  <2>2. DOMAIN f \subseteq DOMAIN file
    BY SeenIs
  <2> QED BY <1>6, <2>1, <2>2 DEF Reload, Known, CronTypes
<1>7. ASSUME NEW s \in Sessions, Check(s) PROVE Known'
  <2>1. /\ acted' = acted \cup Fired(s) /\ UNCHANGED <<file, created, view>>
        /\ Begin(s, Writes(s))
    BY <1>7 DEF Check, Writes, Act
  <2>2. \A n \in Writes(s) : n.ids \subseteq created' /\ DOMAIN n.body \subseteq created'
    BY <2>1, WritesAre, FiredKnown, NobodyIsBook
  <2>3. \A q \in Sessions : \A p \in ops'[q] :
            p.ids \subseteq created' /\ DOMAIN p.body \subseteq created'
    BY <2>1, <2>2, BeginKnown
  <2> QED BY <2>1, <2>3, FiredKnown DEF Known
<1>8. Tick \/ (\E s \in Sessions : Start(s) \/ Probe(s) \/ IdleCheck(s)) =>
          UNCHANGED <<file, view, ops, created, acted>>
  BY DEF Tick, Start, Probe, IdleCheck, session, ghosts, record
<1>9. UNCHANGED vars => UNCHANGED <<file, view, ops, created, acted>>
  BY DEF vars, session, ghosts, record
<1> QED
  BY <1>1, <1>2, <1>3, <1>4, <1>5, <1>6, <1>7, <1>8, <1>9, RewriteKnown
     DEF Next, SessionStep

LEMMA NextPast == CronTypes /\ Past /\ [Next]_vars => Past'
<1> SUFFICES ASSUME CronTypes, Past, [Next]_vars PROVE Past'
  OBVIOUS
<1>1. ASSUME NEW s \in Sessions, Check(s) PROVE Past'
  BY <1>1 DEF Check, Act, Past, CronTypes
<1>2. ASSUME NEW s \in Sessions, InitialLoad(s) PROVE Past'
  <2>1. acted \subseteq acted' /\ UNCHANGED <<now, lastFire>>
    BY <1>2, LoadsOne
  <2> QED BY <2>1 DEF Past
<1>3. CASE Tick
  BY <1>3 DEF Tick, ghosts, record, Past, CronTypes
<1>4. CASE UNCHANGED <<now, acted, lastFire>>
  BY <1>4 DEF Past
<1>5. ASSUME NEW s \in Sessions,
             \/ Start(s) \/ Probe(s) \/ Stop(s) \/ Die(s) \/ Reload(s) \/ IdleCheck(s)
             \/ OpStep(s) \/ \E t \in Tasks : Create(s, t) \/ Delete(s, t)
      PROVE  UNCHANGED <<now, acted, lastFire>>
  BY <1>5 DEF Start, Probe, Stop, Die, Reload, IdleCheck, OpStep, OpRead, OpTruncate,
     OpFill, OpFails, Create, Delete, ghosts, record
<1>6. UNCHANGED vars => UNCHANGED <<now, acted, lastFire>>
  BY DEF vars, ghosts, record
<1> QED BY <1>1, <1>2, <1>3, <1>4, <1>5, <1>6 DEF Next, SessionStep

\* Whoever owns the scheduler plans for later than now.
LEMMA PlansAhead ==
    ASSUME CronTypes, Past, Driven, NEW s \in Sessions, Check(s), NEW t \in Recurring
    PROVE  nextFireAt'[s][t] = Unset \/ nextFireAt'[s][t] > lastFire'[t]
<1>1. t \in Tasks /\ now \in Nat /\ lastFire[t] \in Nat /\ lastFire[t] <= now
  BY Times DEF CronTypes, Past
<1>2. /\ owner[s]
      /\ nextFireAt'[s] = Schedule(s)
      /\ lastFire'[t] = IF t \in Fired(s) THEN now ELSE lastFire[t]
  BY DEF Check, Act, CronTypes
<1>3. nextFireAt'[s][t] = IF t \in Rescheduled(s) THEN now + 1
                          ELSE IF t \notin DOMAIN view[s] \/ t \in Fired(s) THEN Unset
                          ELSE IF InFlight(s, t) THEN nextFireAt[s][t]
                          ELSE FireTime(s, t)
  BY <1>1, <1>2 DEF Schedule
<1>4. CASE t \in Rescheduled(s)
  BY <1>1, <1>2, <1>3, <1>4 DEF Rescheduled
<1>5. CASE t \in DOMAIN view[s] /\ t \notin Fired(s) /\ ~InFlight(s, t)
  <2>1. FireTime(s, t) \in Nat
    BY <1>5, FireTypes
  <2>2. ~(now >= FireTime(s, t))
    BY <1>5 DEF Fired
  <2>3. nextFireAt'[s][t] = FireTime(s, t)
    BY <1>5, <1>3 DEF Rescheduled
  <2> QED BY <1>1, <1>2, <1>5, <2>1, <2>2, <2>3
<1>6. CASE t \in DOMAIN view[s] /\ t \notin Fired(s) /\ InFlight(s, t)
  <2>1. nextFireAt'[s][t] = nextFireAt[s][t] /\ lastFire'[t] = lastFire[t]
    BY <1>6, <1>2, <1>3 DEF Rescheduled
  <2> QED BY <1>2, <2>1 DEF Driven
<1> QED BY <1>3, <1>4, <1>5, <1>6

LEMMA NextDriven == CronTypes /\ Past /\ Driven /\ [Next]_vars => Driven'
<1> SUFFICES ASSUME CronTypes, Past, Driven, [Next]_vars PROVE Driven'
  OBVIOUS
<1>1. CASE UNCHANGED <<owner, phase, nextFireAt, lastFire>>
  BY <1>1 DEF Driven, Sleeping, Running
<1>2. ASSUME NEW s \in Sessions, Start(s) PROVE Driven'
  <2>1. /\ phase[s] = "none" /\ phase' = [phase EXCEPT ![s] = "loading"]
        /\ owner' = [owner EXCEPT ![s] = NoOwner] /\ UNCHANGED <<nextFireAt, lastFire>>
    BY <1>2 DEF Start, ghosts, record
  <2>2. ~owner[s] /\ \A t \in Tasks : nextFireAt[s][t] \in {Unset, Never}
    BY <2>1 DEF Driven, Running, Sleeping, CronTypes
  <2>3. \A q \in Sessions \ {s} : owner'[q] = owner[q] /\ phase'[q] = phase[q]
    BY <2>1 DEF CronTypes
  <2>4. phase'[s] = "loading" /\ owner'[s] = NoOwner
    BY <2>1 DEF CronTypes
  <2>5. \A t \in Recurring : nextFireAt[s][t] = Unset \/ nextFireAt[s][t] > lastFire[t]
    BY <2>2, Times DEF Past, CronTypes
  <2>6. \A q \in Sessions : owner[q] => ~NoOwner
    BY DEF NoOwner
  <2> QED BY <2>1, <2>2, <2>3, <2>4, <2>5, <2>6 DEF Driven, Sleeping, Running
<1>3. ASSUME NEW s \in Sessions, Probe(s) PROVE Driven'
  <2>1. /\ Running(s) /\ ~owner[s] /\ NoOwner
        /\ owner' = [owner EXCEPT ![s] = TRUE] /\ UNCHANGED <<phase, nextFireAt, lastFire>>
    BY <1>3 DEF Probe, ghosts, record
  <2>2. \A t \in Tasks : nextFireAt[s][t] \in {Unset, Never}
    BY <2>1 DEF Driven, Running, Sleeping
  <2>3. \A q \in Sessions \ {s} : ~owner'[q]
    BY <2>1 DEF NoOwner, CronTypes
  <2>4. \A t \in Recurring : nextFireAt[s][t] = Unset \/ nextFireAt[s][t] > lastFire[t]
    BY <2>2, Times DEF Past, CronTypes
  <2>5. \A q \in Sessions : Sleeping(q)' => Sleeping(q)
    BY <2>1, <2>3 DEF Sleeping, NoOwner, CronTypes
  <2> QED BY <2>1, <2>3, <2>4, <2>5 DEF Driven, Running
<1>4. ASSUME NEW s \in Sessions, Stop(s) \/ Die(s) PROVE Driven'
  <2>1. /\ owner' = [owner EXCEPT ![s] = FALSE] /\ UNCHANGED lastFire
        /\ nextFireAt' = [nextFireAt EXCEPT ![s] = NoTimes]
        /\ \E e \in {"stopped", "dead"} : phase' = [phase EXCEPT ![s] = e]
    BY <1>4 DEF Stop, Die, Forget, ghosts, record
  <2>2. /\ ~owner'[s] /\ phase'[s] \in {"stopped", "dead"}
        /\ \A q \in Sessions \ {s} : /\ owner'[q] = owner[q] /\ phase'[q] = phase[q]
                                      /\ nextFireAt'[q] = nextFireAt[q]
    BY <2>1 DEF CronTypes
  <2> QED BY <2>1, <2>2 DEF Driven, Sleeping, Running
<1>5. ASSUME NEW s \in Sessions, InitialLoad(s) PROVE Driven'
  <2>1. PICK f \in Seen :
          /\ phase[s] = "loading" /\ phase' = [phase EXCEPT ![s] = "on"]
          /\ nextFireAt' = [nextFireAt EXCEPT ![s] = Guarded(s, f)]
          /\ UNCHANGED <<owner, lastFire>>
    BY <1>5, LoadsOne
  <2>2. \A t \in Tasks : \/ nextFireAt'[s][t] = nextFireAt[s][t]
                         \/ nextFireAt'[s][t] = Never /\ t \in OneShots
    BY <2>1 DEF Guarded, Missed, CronTypes
  <2>3. /\ phase'[s] = "on"
        /\ \A q \in Sessions \ {s} : nextFireAt'[q] = nextFireAt[q] /\ phase'[q] = phase[q]
    BY <2>1 DEF CronTypes
  <2>4. \A q \in Sessions : /\ (Sleeping(q)' <=> Sleeping(q))
                            /\ Running(q) => Running(q)'
    BY <2>1, <2>3 DEF Sleeping, Running
  <2>5. \A q \in Sessions : Sleeping(q)' =>
            \A t \in Tasks : nextFireAt'[q][t] \in {Unset, Never}
    BY <2>2, <2>3, <2>4 DEF Driven
  <2>6. \A q \in Sessions : owner'[q] => \A t \in Recurring :
            nextFireAt'[q][t] = Unset \/ nextFireAt'[q][t] > lastFire'[t]
    BY <2>1, <2>2, <2>3, Times DEF Driven
  <2> QED BY <2>1, <2>4, <2>5, <2>6 DEF Driven
<1>6. ASSUME NEW s \in Sessions, Check(s) PROVE Driven'
  <2>1. /\ owner[s] /\ UNCHANGED <<phase, owner>>
        /\ nextFireAt' = [nextFireAt EXCEPT ![s] = Schedule(s)]
    BY <1>6 DEF Check
  <2>2. \A q \in Sessions \ {s} : ~owner[q] /\ nextFireAt'[q] = nextFireAt[q]
    BY <2>1 DEF Driven, CronTypes
  <2>3. \A t \in Recurring : nextFireAt'[s][t] = Unset \/ nextFireAt'[s][t] > lastFire'[t]
    BY <1>6, PlansAhead
  <2> QED BY <2>1, <2>2, <2>3 DEF Driven, Sleeping, Running
<1>7. ASSUME NEW s \in Sessions, IdleCheck(s) PROVE Driven'
  <2>1. /\ ~owner[s] /\ UNCHANGED <<phase, owner, lastFire>>
        /\ nextFireAt' = [nextFireAt EXCEPT ![s] = [t \in Tasks |-> Unset]]
    BY <1>7 DEF IdleCheck, NoTimes, ghosts, record
  <2>2. /\ \A t \in Tasks : nextFireAt'[s][t] = Unset
        /\ \A q \in Sessions \ {s} : nextFireAt'[q] = nextFireAt[q]
    BY <2>1 DEF CronTypes
  <2> QED BY <2>1, <2>2 DEF Driven, Sleeping, Running
<1>8. ASSUME NEW s \in Sessions,
             \/ Reload(s) \/ OpStep(s) \/ \E t \in Tasks : Create(s, t) \/ Delete(s, t)
      PROVE  UNCHANGED <<owner, phase, nextFireAt, lastFire>>
  BY <1>8 DEF Reload, OpStep, OpRead, OpTruncate, OpFill, OpFails, Create, Delete, session,
     ghosts, record
<1>9. Tick \/ UNCHANGED vars => UNCHANGED <<owner, phase, nextFireAt, lastFire>>
  BY DEF Tick, vars, session, ghosts, record
<1> QED BY <1>1, <1>2, <1>3, <1>4, <1>5, <1>6, <1>7, <1>8, <1>9 DEF Next, SessionStep

LEMMA NextFresh == CronTypes /\ Fresh /\ [Next]_vars => Fresh'
<1> SUFFICES ASSUME CronTypes, Fresh, [Next]_vars PROVE Fresh'
  OBVIOUS
<1>1. CASE UNCHANGED <<file, phase, behind, view>>
  BY <1>1 DEF Fresh
<1>2. ASSUME NEW s \in Sessions, Start(s) \/ Stop(s) \/ Die(s) PROVE Fresh'
  <2>1. /\ \E e \in {"loading", "stopped", "dead"} : phase' = [phase EXCEPT ![s] = e]
        /\ UNCHANGED file
        /\ view' = view \/ view' = [view EXCEPT ![s] = Nobody]
        /\ behind' = behind \/ behind' = [behind EXCEPT ![s] = FALSE]
    BY <1>2 DEF Start, Stop, Die, Forget, ghosts, record
  <2>2. /\ phase'[s] # "on"
        /\ \A q \in Sessions \ {s} : /\ phase'[q] = phase[q] /\ behind'[q] = behind[q]
                                      /\ view'[q] = view[q]
    BY <2>1 DEF CronTypes
  <2> QED BY <2>1, <2>2 DEF Fresh
<1>3. ASSUME NEW s \in Sessions, InitialLoad(s) \/ Reload(s) PROVE Fresh'
  <2>1. PICK f \in Seen :
          /\ view' = [view EXCEPT ![s] = f] /\ behind' = [behind EXCEPT ![s] = FALSE]
          /\ phase' = phase \/ phase' = [phase EXCEPT ![s] = "on"]
          /\ UNCHANGED file
    BY <1>3, LoadsOne DEF Reload, Loaded
  <2>2. /\ view'[s] \in {file, Nobody}
        /\ \A q \in Sessions \ {s} :
              phase'[q] = phase[q] /\ behind'[q] = behind[q] /\ view'[q] = view[q]
    BY <2>1 DEF CronTypes, Seen
  <2> QED BY <2>1, <2>2 DEF Fresh
<1>4. ASSUME NEW s \in Sessions, OpStep(s) PROVE Fresh'
  <2>1. PICK o \in ops[s] :
           OpRead(s, o) \/ OpTruncate(s, o) \/ OpFill(s, o) \/ OpFails(s, o)
    BY <1>4 DEF OpStep
  <2>2. CASE OpRead(s, o) \/ (OpFails(s, o) /\ UNCHANGED <<file, behind>>)
    <3>1. UNCHANGED <<file, phase, behind, view>>
      BY <2>2 DEF OpRead, OpFails, record
    <3> QED BY <1>1, <3>1
  <2>3. CASE OpTruncate(s, o) \/ OpFill(s, o) \/ (OpFails(s, o) /\ Announce(s))
    <3>1. /\ behind' = [q \in Sessions |-> behind[q] \/ Running(q)]
          /\ UNCHANGED <<phase, view>>
      BY <2>3 DEF OpTruncate, OpFill, OpFails, Announce, Hears
    <3>2. \A q \in Sessions : phase'[q] = "on" => behind'[q]
      BY <3>1 DEF Running
    <3> QED BY <3>2 DEF Fresh
  <2> QED BY <2>1, <2>2, <2>3 DEF OpFails
<1>5. ASSUME NEW s \in Sessions,
             \/ Probe(s) \/ Check(s) \/ IdleCheck(s)
             \/ \E t \in Tasks : Create(s, t) \/ Delete(s, t)
      PROVE  UNCHANGED <<file, phase, behind, view>>
  BY <1>5 DEF Probe, Check, IdleCheck, Create, Delete, session
<1>6. Tick \/ UNCHANGED vars => UNCHANGED <<file, phase, behind, view>>
  BY DEF Tick, vars, session
<1> QED BY <1>1, <1>2, <1>3, <1>4, <1>5, <1>6 DEF Next, SessionStep

-----------------------------------------------------------------------------
(* The file, while rewrites do not overlap, fail or end with their session *)

Over(t) == \/ t \in OneShots /\ t \in acted
           \/ t \in Recurring /\ lastFire[t] >= Expires[t]

\* A book is sound if no one-shot in it was acted on and each recurring task has
\* the time of its last fire.
SoundAt(f, t) == /\ t \in OneShots => t \notin acted
                 /\ t \in Recurring => f[t] = lastFire[t]
Sound(f) == \A t \in DOMAIN f : SoundAt(f, t)

\* What a rewrite is about to write is sound, and so is the file but for the
\* tasks that the rewrite is about.
Right(o) ==
    /\ o.stage = "read" => o.body = Nobody
    /\ o.stage = "truncate" => o.body = Body(o, file)
    /\ o.stage = "fill" => DOMAIN file = {}
    /\ o.kind = "remove" => \A t \in o.ids : t \in deleted \/ Over(t)
    /\ o.kind = "mark" => \A t \in o.ids : t \in Recurring /\ lastFire[t] = o.time
    /\ o.kind = "add" => \A t \in o.ids : t \notin acted
    /\ o.kind = "add" /\ o.stage # "read" => o.ids \subseteq DOMAIN o.body
    /\ Sound(o.body)
    /\ \A t \in DOMAIN file \ o.ids : SoundAt(file, t)

Idle == \A s \in Sessions : ops[s] = {}
Lone(s, o) == ops[s] = {o} /\ \A q \in Sessions \ {s} : ops[q] = {}
Rewriting(s, o) == Lone(s, o) /\ o.flying \subseteq inFlight[s] /\ Right(o)

NoneLost == \A t \in created \ deleted : Kept(t) \/ Over(t)

Calm ==
    /\ \/ Idle /\ Sound(file)
       \/ \E s \in Sessions : \E o \in ops[s] : Rewriting(s, o)
    /\ NoneLost
    /\ ~hasty => again = {}

CalmInv == Undisturbed => Calm

\* The tasks that are kept, when no rewrite is under way and when one is.
LEMMA KeptIdle ==
    ASSUME Idle PROVE \A t : Kept(t) <=> t \in DOMAIN file
  BY DEF Idle, Kept

LEMMA KeptLone ==
    ASSUME NEW s \in Sessions, NEW o \in ops[s], Lone(s, o)
    PROVE  \A t : Kept(t) <=> \/ t \in DOMAIN file
                              \/ t \in DOMAIN o.body
                              \/ o.kind = "add" /\ t \in o.ids
<1> SUFFICES ASSUME NEW t
             PROVE  Kept(t) <=> \/ t \in DOMAIN file
                                \/ t \in DOMAIN o.body
                                \/ o.kind = "add" /\ t \in o.ids
  OBVIOUS
<1>1. \A q \in Sessions : \A p \in ops[q] : q = s /\ p = o
  BY DEF Lone
<1> QED BY <1>1 DEF Kept

LEMMA KeptIdleNext ==
    ASSUME Idle' PROVE \A t : Kept(t)' <=> t \in DOMAIN file'
  BY DEF Idle, Kept

LEMMA KeptLoneNext ==
    ASSUME NEW s \in Sessions, NEW o, Lone(s, o)'
    PROVE  \A t : Kept(t)' <=> \/ t \in DOMAIN file'
                               \/ t \in DOMAIN o.body
                               \/ o.kind = "add" /\ t \in o.ids
<1> SUFFICES ASSUME NEW t
             PROVE  Kept(t)' <=> \/ t \in DOMAIN file'
                                 \/ t \in DOMAIN o.body
                                 \/ o.kind = "add" /\ t \in o.ids
  OBVIOUS
<1>1. \A q \in Sessions : \A p \in ops'[q] : q = s /\ p = o
  BY DEF Lone
<1>2. o \in ops'[s]
  BY DEF Lone
<1> QED BY <1>1, <1>2 DEF Kept

LEMMA InitCalm == Init => Calm
<1> SUFFICES ASSUME Init PROVE Calm
  OBVIOUS
<1>1. Idle /\ DOMAIN file = Old /\ again = {}
  BY DEF Init, Idle
<1>2. Sound(file)
  BY <1>1, CronAssumption DEF Init, Sound, SoundAt
<1>3. NoneLost
  BY <1>1, KeptIdle DEF NoneLost, Init
<1> QED BY <1>1, <1>2, <1>3 DEF Calm

\* What did not begin beside another rewrite, began alone.
LEMMA BeginAlone ==
    ASSUME CronTypes, NEW s \in Sessions, NEW N, IsFiniteSet(N), Begin(s, N),
           ~overlapped',
           \A n \in N : \A o \in ops[s] : o.flying \cap n.flying = {}
    PROVE  /\ ~overlapped
           /\ \/ N = {} /\ UNCHANGED ops
              \/ \E n \in N : N = {n} /\ Idle /\ Lone(s, n)'
<1>1. /\ ops' = [ops EXCEPT ![s] = @ \cup N]
      /\ ~overlapped /\ ~(Cardinality(N) > 1) /\ \A n \in N : ~Beside(s, n)
  BY DEF Begin
<1>2. CASE N = {}
  BY <1>1, <1>2 DEF CronTypes
<1>3. ASSUME NEW n \in N
      PROVE  N = {n} /\ Idle /\ Lone(s, n)'
  <2>1. N = {n}
    <3> SUFFICES ASSUME NEW m \in N, m # n PROVE FALSE
      OBVIOUS
    <3>1. IsFiniteSet({n}) /\ Cardinality({n}) = 1
      BY FS_Singleton
    <3>2. Cardinality({n} \cup {m}) = 2
      <4>1. Cardinality({n} \cup {m}) = Cardinality({n}) + 1
        <5>1. m \notin {n}
          OBVIOUS
        <5> QED BY <3>1, <5>1, FS_AddElement
      <4> QED BY <3>1, <4>1
    <3>3. Cardinality({n} \cup {m}) <= Cardinality(N)
      BY FS_Subset
    <3>4. Cardinality(N) \in Nat
      BY FS_CardinalityType
    <3>5. Cardinality(N) > 1
      BY <3>2, <3>3, <3>4
    <3> QED BY <1>1, <3>5
  <2>2. Idle
    BY <1>1 DEF Beside, Idle
  <2>3. Lone(s, n)'
    BY <1>1, <2>1, <2>2 DEF Lone, Idle, CronTypes
  <2> QED BY <2>1, <2>2, <2>3
<1> QED BY <1>1, <1>2, <1>3

\* A new rewrite that is right, in a state that lost nothing.
LEMMA NewCalm ==
    ASSUME NEW s \in Sessions, NEW n, Idle, Sound(file), UNCHANGED file, Lone(s, n)',
           n.flying \subseteq inFlight'[s], n.stage = "read", n.body = Nobody,
           n.kind = "remove" => \A t \in n.ids : t \in deleted' \/ Over(t)',
           n.kind = "mark" => \A t \in n.ids : t \in Recurring /\ lastFire'[t] = n.time,
           n.kind = "add" => \A t \in n.ids : t \notin acted',
           \A t \in DOMAIN file \ n.ids : SoundAt(file, t)',
           NoneLost', ~hasty' => again' = {}
    PROVE  Calm'
<1>1. Sound(n.body)'
  BY NobodyIsBook DEF Sound
<1>2. Right(n)'
  BY <1>1 DEF Right
<1>3. n \in ops'[s]
  BY DEF Lone
<1> QED BY <1>2, <1>3 DEF Calm, Rewriting

\* The rewrite that takes a step is the only one.
LEMMA OnlyOne ==
    ASSUME Calm, NEW s \in Sessions, NEW o \in ops[s]
    PROVE  Rewriting(s, o)
<1>1. ~Idle
  BY DEF Idle
<1>2. PICK q \in Sessions : \E p \in ops[q] : Rewriting(q, p)
  BY <1>1 DEF Calm
<1>3. PICK p \in ops[q] : Rewriting(q, p)
  BY <1>2
<1>4. s = q /\ o = p
  BY <1>3 DEF Rewriting, Lone
<1> QED BY <1>3, <1>4

\* What a rewrite makes of the file is sound.
LEMMA BodySound ==
    ASSUME CronTypes, Past, NEW o \in Rewrites, Right(o) PROVE Sound(Body(o, file))
<1> SUFFICES ASSUME NEW t \in DOMAIN Body(o, file) PROVE SoundAt(Body(o, file), t)
  BY DEF Sound
<1>f. file \in Books
  BY DEF CronTypes
<1>1. CASE o.kind = "add" /\ t \in o.ids
  <2>1. Body(o, file)[t] = 0 /\ t \notin acted
    BY <1>1, <1>f, BodyOf DEF Right
  <2>2. t \in Recurring => lastFire[t] = 0
    BY <2>1 DEF Past
  <2> QED BY <2>1, <2>2 DEF SoundAt
<1>2. CASE o.kind = "mark" /\ t \in o.ids
  <2>1. Body(o, file)[t] = o.time /\ t \in Recurring /\ lastFire[t] = o.time
    BY <1>2, <1>f, BodyOf DEF Right
  <2> QED BY <2>1, Times DEF SoundAt
<1>3. CASE t \in DOMAIN file \ o.ids /\ Body(o, file)[t] = file[t]
  BY <1>3 DEF Right, SoundAt
<1>4. o.kind \in {"add", "remove", "mark"}
  BY DEF Rewrites
<1>5. /\ o.kind = "add" =>
           t \in DOMAIN file \cup o.ids /\ (t \notin o.ids => Body(o, file)[t] = file[t])
      /\ o.kind = "remove" => t \in DOMAIN file \ o.ids /\ Body(o, file)[t] = file[t]
      /\ o.kind = "mark" =>
           t \in DOMAIN file /\ (t \notin o.ids => Body(o, file)[t] = file[t])
  BY <1>f, BodyOf
<1> QED BY <1>1, <1>2, <1>3, <1>4, <1>5

LEMMA ReadCalm ==
    ASSUME CronTypes, Past, Calm, NEW s \in Sessions, NEW o \in ops[s], OpRead(s, o),
           failed = 0, failed' = 0
    PROVE  Calm'
<1>1. /\ o.stage = "read" /\ o \in Rewrites /\ Rewriting(s, o)
      /\ UNCHANGED <<file, created, deleted, acted, again, lastFire, hasty>>
  BY OnlyOne DEF OpRead, CronTypes, record
<1>2. Lone(s, o) /\ Right(o) /\ o.flying \subseteq inFlight[s] /\ o.body = Nobody
  BY <1>1 DEF Rewriting, Right
<1>3. \A t : Over(t)' <=> Over(t)
  BY <1>1 DEF Over
<1>4. \A t : Kept(t) <=> t \in DOMAIN file \/ (o.kind = "add" /\ t \in o.ids)
  BY <1>2, KeptLone, NobodyIsBook
<1>f. file \in Books
  BY DEF CronTypes
<1>r. \/ Settle(s, o) /\ ~Changes(o, file)
      \/ /\ Replaced(s, o, [o EXCEPT !.stage = "truncate", !.body = Body(o, file)])
         /\ UNCHANGED inFlight
  <2>1. PICK f \in Seen :
          /\ \/ Settle(s, o) /\ ~Changes(o, f)
             \/ /\ Replaced(s, o, [o EXCEPT !.stage = "truncate", !.body = Body(o, f)])
                /\ UNCHANGED inFlight
          /\ failed' = failed + Missing(f)
    BY DEF OpRead
  <2>2. f = file
    BY <2>1, SeenIs
  <2> QED BY <2>1, <2>2
<1>5. CASE Settle(s, o) /\ ~Changes(o, file)
  <2>1. Idle'
    BY <1>2, <1>5 DEF Settle, Lone, Idle, CronTypes
  <2>2. o.kind # "add" /\ o.ids \cap DOMAIN file = {}
    BY <1>5 DEF Changes
  <2>3. Sound(file)'
    BY <1>1, <1>2, <2>2 DEF Right, Sound, SoundAt
  <2>4. \A t : Kept(t)' <=> t \in DOMAIN file'
    BY <2>1, KeptIdleNext
  <2>5. NoneLost'
    BY <1>1, <1>3, <1>4, <2>2, <2>4 DEF Calm, NoneLost
  <2> QED BY <1>1, <2>1, <2>3, <2>5 DEF Calm
<1>6. CASE /\ Replaced(s, o, [o EXCEPT !.stage = "truncate", !.body = Body(o, file)])
           /\ UNCHANGED inFlight
  <2>1. PICK p : p = [o EXCEPT !.stage = "truncate", !.body = Body(o, file)]
    OBVIOUS
  <2>2. /\ p.kind = o.kind /\ p.ids = o.ids /\ p.flying = o.flying /\ p.time = o.time
        /\ p.stage = "truncate" /\ p.body = Body(o, file)
    BY <1>1, <2>1 DEF Rewrites
  <2>3. Lone(s, p)'
    BY <1>2, <1>6, <2>1 DEF Replaced, Lone, CronTypes
  <2>4. Sound(Body(o, file))
    BY <1>1, <1>2, BodySound
  <2>5. Body(p, file)' = Body(o, file)
    BY <1>1, <2>2 DEF Body, Remaining, Restricted
  <2>6. Sound(p.body)'
    BY <1>1, <2>2, <2>4 DEF Sound, SoundAt
  <2>7. \A t \in DOMAIN file \ o.ids : SoundAt(file, t)'
    BY <1>1, <1>2 DEF Right, SoundAt
  <2>8. o.kind = "add" => o.ids \subseteq DOMAIN Body(o, file)
    BY <1>1, <1>f, BodyOf
  <2>9. /\ o.kind = "remove" => \A t \in o.ids : t \in deleted' \/ Over(t)'
        /\ o.kind = "mark" => \A t \in o.ids : t \in Recurring /\ lastFire'[t] = o.time
        /\ o.kind = "add" => \A t \in o.ids : t \notin acted'
    BY <1>1, <1>2, <1>3 DEF Right
  <2>10. Right(p)'
    BY <1>1, <2>2, <2>5, <2>6, <2>7, <2>8, <2>9 DEF Right
  <2>11. p \in ops'[s] /\ Rewriting(s, p)'
    BY <1>2, <1>6, <2>2, <2>3, <2>10 DEF Rewriting, Lone
  <2>12. \A t : Kept(t)' <=> \/ t \in DOMAIN file'
                             \/ t \in DOMAIN p.body
                             \/ p.kind = "add" /\ t \in p.ids
    BY <2>3, KeptLoneNext
  <2>13. NoneLost'
    BY <1>1, <1>3, <1>4, <2>2, <2>12 DEF Calm, NoneLost
  <2> QED BY <1>1, <2>11, <2>13 DEF Calm
<1> QED BY <1>r, <1>5, <1>6

LEMMA TruncateCalm ==
    ASSUME CronTypes, Calm, NEW s \in Sessions, NEW o \in ops[s], OpTruncate(s, o)
    PROVE  Calm'
<1>1. /\ o.stage = "truncate" /\ o \in Rewrites /\ Rewriting(s, o) /\ file' = Nobody
      /\ UNCHANGED <<created, deleted, acted, again, lastFire, hasty, inFlight>>
  BY OnlyOne DEF OpTruncate, CronTypes, ghosts, record
<1>2. Lone(s, o) /\ Right(o) /\ o.flying \subseteq inFlight[s] /\ o.body = Body(o, file)
  BY <1>1 DEF Rewriting, Right
<1>3. \A t : Over(t)' <=> Over(t)
  BY <1>1 DEF Over
<1>4. PICK p : p = [o EXCEPT !.stage = "fill"]
  OBVIOUS
<1>5. /\ p.kind = o.kind /\ p.ids = o.ids /\ p.flying = o.flying /\ p.time = o.time
      /\ p.stage = "fill" /\ p.body = o.body
  BY <1>1, <1>4 DEF Rewrites
<1>6. Lone(s, p)'
  BY <1>1, <1>2, <1>4 DEF OpTruncate, Replaced, Lone, CronTypes
<1>7. Right(p)'
  <2>1. DOMAIN file' = {}
    BY <1>1, NobodyIsBook
  <2>2. Sound(p.body)'
    BY <1>1, <1>2, <1>5 DEF Right, Sound, SoundAt
  <2>3. /\ o.kind = "remove" => \A t \in o.ids : t \in deleted' \/ Over(t)'
        /\ o.kind = "mark" => \A t \in o.ids : t \in Recurring /\ lastFire'[t] = o.time
        /\ o.kind = "add" => \A t \in o.ids : t \notin acted'
        /\ o.kind = "add" => o.ids \subseteq DOMAIN o.body
    BY <1>1, <1>2, <1>3 DEF Right
  <2> QED BY <1>5, <2>1, <2>2, <2>3 DEF Right
<1>8. p \in ops'[s] /\ Rewriting(s, p)'
  BY <1>1, <1>2, <1>5, <1>6, <1>7 DEF Rewriting, Lone
<1>9. \A t : Kept(t)' <=> \/ t \in DOMAIN file'
                          \/ t \in DOMAIN p.body
                          \/ p.kind = "add" /\ t \in p.ids
  BY <1>6, KeptLoneNext
<1>10. \A t : Kept(t) <=> \/ t \in DOMAIN file
                          \/ t \in DOMAIN o.body
                          \/ o.kind = "add" /\ t \in o.ids
  BY <1>2, KeptLone
<1>11. \A t \in DOMAIN file : t \in DOMAIN o.body \/ t \in deleted \/ Over(t)
  <2>1. o.kind \in {"add", "remove", "mark"}
    BY <1>1 DEF Rewrites
  <2>2. file \in Books
    BY DEF CronTypes
  <2>3. o \in Rewrites
    BY <1>1
  <2>4. /\ o.kind = "add" => DOMAIN Body(o, file) = DOMAIN file \cup o.ids
        /\ o.kind = "remove" => DOMAIN Body(o, file) = DOMAIN file \ o.ids
        /\ o.kind = "mark" => DOMAIN Body(o, file) = DOMAIN file
    BY <2>2, <2>3, BodyOf
  <2>5. o.kind = "remove" => \A t \in o.ids : t \in deleted \/ Over(t)
    BY <1>2 DEF Right
  <2>6. o.body = Body(o, file)
    BY <1>2
  <2> QED BY <2>1, <2>4, <2>5, <2>6
<1>12. NoneLost'
  BY <1>1, <1>3, <1>5, <1>9, <1>10, <1>11 DEF Calm, NoneLost
<1> QED BY <1>1, <1>8, <1>12 DEF Calm

LEMMA FillCalm ==
    ASSUME CronTypes, Known, Calm, NEW s \in Sessions, NEW o \in ops[s], OpFill(s, o)
    PROVE  Calm'
<1>1. /\ o.stage = "fill" /\ Rewriting(s, o) /\ DOMAIN o.body \subseteq created
      /\ UNCHANGED <<created, deleted, acted, again, lastFire, hasty>>
  BY OnlyOne DEF OpFill, Known, ghosts, record
<1>2. Lone(s, o) /\ Right(o) /\ DOMAIN file = {}
  BY <1>1 DEF Rewriting, Right
<1>3. file' = o.body
  <2>1. Cardinality(DOMAIN file) = 0
    BY <1>2, FS_EmptySet
  <2>2. Cardinality(DOMAIN o.body) \in Nat
    BY <1>1, FS_Subset, FS_CardinalityType DEF Known
  <2> QED BY <2>1, <2>2 DEF OpFill
<1>4. Idle'
  BY <1>2 DEF OpFill, Settle, Lone, Idle, CronTypes
<1>5. Sound(file)'
  BY <1>1, <1>2, <1>3 DEF Right, Sound, SoundAt
<1>6. \A t : Kept(t)' <=> t \in DOMAIN file'
  BY <1>4, KeptIdleNext
<1>7. \A t : Kept(t) <=> \/ t \in DOMAIN file
                         \/ t \in DOMAIN o.body
                         \/ o.kind = "add" /\ t \in o.ids
  BY <1>2, KeptLone
<1>8. \A t : (Over(t)' <=> Over(t)) /\ (Kept(t) => Kept(t)')
  BY <1>1, <1>2, <1>3, <1>6, <1>7 DEF Over, Right
<1>9. NoneLost'
  BY <1>1, <1>8 DEF Calm, NoneLost
<1> QED BY <1>1, <1>4, <1>5, <1>9 DEF Calm

LEMMA CreateCalm ==
    ASSUME CronTypes, Known, Calm, NEW s \in Sessions, NEW t \in Tasks, Create(s, t),
           ~overlapped'
    PROVE  Calm'
<1>1. /\ t \notin created /\ created' = created \cup {t}
      /\ Begin(s, {Op("add", {t}, {})})
      /\ UNCHANGED <<file, inFlight, deleted, acted, again, lastFire, hasty>>
  BY DEF Create, session
<1>2. PICK n : n = Op("add", {t}, {})
  OBVIOUS
<1>3. /\ n.kind = "add" /\ n.ids = {t} /\ n.flying = {}
      /\ n.stage = "read" /\ n.body = Nobody
  BY <1>2, OpIs
<1>4. Idle /\ Lone(s, n)'
  <2>1. Begin(s, {n}) /\ IsFiniteSet({n})
    BY <1>1, <1>2, FS_Singleton
  <2>2. \A m \in {n} : \A o \in ops[s] : o.flying \cap m.flying = {}
    BY <1>3
  <2> QED BY <2>1, <2>2, BeginAlone
<1>5. Sound(file) /\ NoneLost /\ (~hasty' => again' = {})
  BY <1>1, <1>4 DEF Calm, Idle
<1>6. \A u \in DOMAIN file \ n.ids : SoundAt(file, u)'
  BY <1>1, <1>5 DEF Sound, SoundAt
<1>7. \A u : (Over(u)' <=> Over(u))
  BY <1>1 DEF Over
<1>8. \A u : Kept(u) => u \in DOMAIN file
  BY <1>4, KeptIdle
<1>10. \A u : Kept(u)' <=> \/ u \in DOMAIN file'
                           \/ u \in DOMAIN n.body
                           \/ n.kind = "add" /\ u \in n.ids
  BY <1>4, KeptLoneNext
<1>11. NoneLost'
  BY <1>1, <1>3, <1>5, <1>7, <1>8, <1>10 DEF NoneLost
<1>12. t \notin acted'
  BY <1>1 DEF Known
<1> QED BY <1>1, <1>3, <1>4, <1>5, <1>6, <1>11, <1>12, NewCalm

LEMMA DeleteCalm ==
    ASSUME CronTypes, Calm, NEW s \in Sessions, NEW t \in Tasks, Delete(s, t),
           ~overlapped'
    PROVE  Calm'
<1>1. /\ deleted' = deleted \cup {t}
      /\ Begin(s, {Op("remove", {t}, {})})
      /\ UNCHANGED <<file, inFlight, created, acted, again, lastFire, hasty>>
  BY DEF Delete, session
<1>2. PICK n : n = Op("remove", {t}, {})
  OBVIOUS
<1>3. /\ n.kind = "remove" /\ n.ids = {t} /\ n.flying = {}
      /\ n.stage = "read" /\ n.body = Nobody
  BY <1>2, OpIs
<1>4. Idle /\ Lone(s, n)'
  <2>1. Begin(s, {n}) /\ IsFiniteSet({n})
    BY <1>1, <1>2, FS_Singleton
  <2>2. \A m \in {n} : \A o \in ops[s] : o.flying \cap m.flying = {}
    BY <1>3
  <2> QED BY <2>1, <2>2, BeginAlone
<1>5. Sound(file) /\ NoneLost /\ (~hasty' => again' = {})
  BY <1>1, <1>4 DEF Calm, Idle
<1>6. \A u \in DOMAIN file \ n.ids : SoundAt(file, u)'
  BY <1>1, <1>5 DEF Sound, SoundAt
<1>7. \A u : (Over(u)' <=> Over(u))
  BY <1>1 DEF Over
<1>8. \A u : Kept(u) => u \in DOMAIN file
  BY <1>4, KeptIdle
<1>9. \A u : u \in DOMAIN file' => Kept(u)'
  BY DEF Kept
<1>10. NoneLost'
  BY <1>1, <1>5, <1>7, <1>8, <1>9 DEF NoneLost
<1> QED BY <1>1, <1>3, <1>4, <1>5, <1>6, <1>10, NewCalm

\* All this speaks of a few variables only.
LEMMA SameCalm ==
    ASSUME Calm, hasty' = hasty,
           UNCHANGED <<file, ops, inFlight, created, deleted, acted, again, lastFire>>
    PROVE  Calm'
<1>1. \A t : (Over(t)' <=> Over(t)) /\ (Kept(t)' <=> Kept(t))
  BY DEF Over, Kept
<1>2. NoneLost'
  BY <1>1 DEF Calm, NoneLost
<1>3. Idle /\ Sound(file) => Idle' /\ Sound(file)'
  BY DEF Idle, Sound, SoundAt
<1>4. ASSUME NEW s \in Sessions, NEW o \in ops[s], Rewriting(s, o)
      PROVE  o \in ops'[s] /\ Rewriting(s, o)'
  <2>1. Lone(s, o)' /\ o.flying \subseteq inFlight'[s] /\ o \in ops'[s]
    BY <1>4 DEF Rewriting, Lone
  <2>2. Body(o, file)' = Body(o, file)
    BY DEF Body, Remaining, Restricted
  <2>3. Sound(o.body)' /\ \A t \in DOMAIN file' \ o.ids : SoundAt(file, t)'
    BY <1>4 DEF Rewriting, Right, Sound, SoundAt
  <2>4. o.kind = "remove" => \A t \in o.ids : t \in deleted' \/ Over(t)'
    BY <1>1, <1>4 DEF Rewriting, Right
  <2>5. Right(o)'
    BY <1>4, <2>2, <2>3, <2>4 DEF Rewriting, Right
  <2> QED BY <2>1, <2>5 DEF Rewriting
<1> QED BY <1>2, <1>3, <1>4 DEF Calm

\* A session that has no rewrite under way has nothing in flight that matters.
LEMMA DieCalm ==
    ASSUME CronTypes, Calm, NEW s \in Sessions, ops[s] = {}, UNCHANGED ops,
           inFlight' = [inFlight EXCEPT ![s] = {}],
           UNCHANGED <<file, created, deleted, acted, again, lastFire, hasty>>
    PROVE  Calm'
<1>1. \A t : (Over(t)' <=> Over(t)) /\ (Kept(t)' <=> Kept(t))
  BY DEF Over, Kept
<1>2. NoneLost'
  BY <1>1 DEF Calm, NoneLost
<1>3. Idle /\ Sound(file) => Idle' /\ Sound(file)'
  BY DEF Idle, Sound, SoundAt
<1>4. ASSUME NEW q \in Sessions, NEW o \in ops[q], Rewriting(q, o)
      PROVE  o \in ops'[q] /\ Rewriting(q, o)'
  <2>0. q # s /\ inFlight'[q] = inFlight[q]
    BY <1>4 DEF CronTypes
  <2>1. Lone(q, o)' /\ o.flying \subseteq inFlight'[q] /\ o \in ops'[q]
    BY <1>4, <2>0 DEF Rewriting, Lone
  <2>2. Body(o, file)' = Body(o, file)
    BY DEF Body, Remaining, Restricted
  <2>3. Sound(o.body)' /\ \A t \in DOMAIN file' \ o.ids : SoundAt(file, t)'
    BY <1>4 DEF Rewriting, Right, Sound, SoundAt
  <2>4. o.kind = "remove" => \A t \in o.ids : t \in deleted' \/ Over(t)'
    BY <1>1, <1>4 DEF Rewriting, Right
  <2>5. Right(o)'
    BY <1>4, <2>2, <2>3, <2>4 DEF Rewriting, Right
  <2> QED BY <2>1, <2>5 DEF Rewriting
<1> QED BY <1>2, <1>3, <1>4 DEF Calm

LEMMA LoadCalm ==
    ASSUME CronTypes, Calm, NEW s \in Sessions, InitialLoad(s), ~overlapped'
    PROVE  Calm'
<1>0. PICK f \in Seen :
        /\ acted' = acted \cup Missed(f) /\ again' = again \cup (Missed(f) \cap acted)
        /\ Begin(s, Clears(f))
        /\ UNCHANGED <<file, inFlight, created, deleted, lastFire, hasty>>
  BY LoadsOne
<1>1. /\ acted' = acted \cup Missed(f) /\ again' = again \cup (Missed(f) \cap acted)
      /\ Begin(s, Clears(f))
      /\ UNCHANGED <<file, inFlight, created, deleted, lastFire, hasty>>
  BY <1>0
<1>2. Missed(f) \subseteq DOMAIN file /\ Missed(f) \subseteq OneShots
  BY SeenIs DEF Missed
<1>3. IsFiniteSet(Clears(f))
  <2>1. Clears(f) \in SUBSET {Op("remove", Missed(f), {})}
    BY DEF Clears
  <2>2. IsFiniteSet({Op("remove", Missed(f), {})})
    BY FS_Singleton
  <2> QED BY <2>1, <2>2, FS_Subset
<1>4. \A n \in Clears(f) : \A o \in ops[s] : o.flying \cap n.flying = {}
  BY ClearsAre
<1>5. \/ Clears(f) = {} /\ UNCHANGED ops
      \/ \E n \in Clears(f) : Clears(f) = {n} /\ Idle /\ Lone(s, n)'
  BY <1>1, <1>3, <1>4, BeginAlone
<1>6. CASE Clears(f) = {} /\ UNCHANGED ops
  <2>1. Missed(f) = {}
    BY <1>6 DEF Clears
  <2>2. UNCHANGED <<acted, again>>
    BY <1>1, <2>1
  <2> QED BY <1>1, <1>6, <2>2, SameCalm
<1>7. ASSUME NEW n \in Clears(f), Idle, Lone(s, n)' PROVE Calm'
  <2>1. /\ n.kind = "remove" /\ n.ids = Missed(f) /\ n.flying = {}
        /\ n.stage = "read" /\ n.body = Nobody
    BY ClearsAre
  <2>2. Sound(file) /\ NoneLost /\ (~hasty => again = {})
    BY <1>7 DEF Calm, Idle
  <2>3. \A t \in Missed(f) : t \notin acted /\ Over(t)'
    BY <1>1, <1>2, <2>2 DEF Sound, SoundAt, Over
  <2>4. ~hasty' => again' = {}
    BY <1>1, <2>2, <2>3
  <2>5. \A t \in DOMAIN file \ n.ids : SoundAt(file, t)'
    BY <1>1, <2>1, <2>2 DEF Sound, SoundAt
  <2>6. \A t : Over(t) => Over(t)'
    BY <1>1 DEF Over
  <2>7. \A t : Kept(t) => t \in DOMAIN file
    BY <1>7, KeptIdle
  <2>8. \A t : t \in DOMAIN file' => Kept(t)'
    BY DEF Kept
  <2>9. NoneLost'
    BY <1>1, <2>2, <2>6, <2>7, <2>8 DEF NoneLost
  <2> QED BY <1>1, <1>7, <2>1, <2>2, <2>3, <2>4, <2>5, <2>9, NewCalm
<1> QED BY <1>5, <1>6, <1>7

LEMMA WritesFinite ==
    ASSUME Known, NEW s \in Sessions PROVE IsFiniteSet(Writes(s))
<1> DEFINE F == Fired(s) \ Rescheduled(s)
           R == {Op("remove", {t}, {t}) : t \in F}
           M == {Op("mark", S, S) : S \in {Rescheduled(s)} \ {{}}}
           f == [t \in F |-> Op("remove", {t}, {t})]
<1>1. IsFiniteSet(F)
  <2>1. F \in SUBSET created
    BY FiredKnown
  <2> QED BY <2>1, FS_Subset DEF Known
<1>2. IsFiniteSet(R)
  <2>1. f \in Surjection(F, R)
    BY DEF Surjection
  <2> QED BY <1>1, <2>1, FS_Surjection
<1>3. IsFiniteSet(M)
  <2>1. M \in SUBSET {Op("mark", Rescheduled(s), Rescheduled(s))}
    OBVIOUS
  <2>2. IsFiniteSet({Op("mark", Rescheduled(s), Rescheduled(s))})
    BY FS_Singleton
  <2> HIDE DEF M
  <2> QED BY <2>1, <2>2, FS_Subset
<1>4. Writes(s) = R \cup M
  BY DEF Writes
<1> HIDE DEF R, M
<1> QED BY <1>2, <1>3, <1>4, FS_Union

\* One rewrite is about all tasks that fired, and of one kind.
LEMMA WritesOne ==
    ASSUME NEW s \in Sessions, NEW n \in Writes(s), Writes(s) = {n}
    PROVE  /\ n.ids = Fired(s)
           /\ n.kind = "mark" => \A t \in Fired(s) : ~IsLast(t)
           /\ n.kind = "remove" => \A t \in Fired(s) : IsLast(t)
<1>1. \A t \in Fired(s) \ Rescheduled(s) : n = Op("remove", {t}, {t})
  BY DEF Writes
<1>2. Rescheduled(s) # {} => n = Op("mark", Rescheduled(s), Rescheduled(s))
  BY DEF Writes
<1>3. /\ Rescheduled(s) \subseteq Fired(s)
      /\ \A t \in Fired(s) : t \in Rescheduled(s) <=> ~IsLast(t)
  BY DEF Rescheduled
<1>4. CASE Rescheduled(s) # {}
  <2>1. n.kind = "mark" /\ n.ids = Rescheduled(s)
    BY <1>2, <1>4, OpIs
  <2>2. Fired(s) \ Rescheduled(s) = {}
    <3> SUFFICES ASSUME NEW t \in Fired(s) \ Rescheduled(s) PROVE FALSE
      OBVIOUS
    <3>1. n = Op("remove", {t}, {t})
      BY <1>1
    <3>2. n.kind = "remove"
      BY <3>1, OpIs
    <3> QED BY <2>1, <3>2
  <2> QED BY <1>3, <2>1, <2>2
<1>5. CASE Rescheduled(s) = {}
  <2>1. PICK t \in Fired(s) \ Rescheduled(s) : n.ids = {t} /\ n.kind = "remove"
    BY <1>5, WritesAre
  <2>2. \A u \in Fired(s) : u = t
    <3> SUFFICES ASSUME NEW u \in Fired(s) PROVE u = t
      OBVIOUS
    <3>1. n = Op("remove", {u}, {u})
      BY <1>1, <1>5
    <3>2. n.ids = {u}
      BY <3>1, OpIs
    <3> QED BY <2>1, <3>2
  <2> QED BY <1>3, <1>5, <2>1, <2>2
<1> QED BY <1>4, <1>5

\* No task that fires in good order was acted on since it was due.
LEMMA FiredOnce ==
    ASSUME CronTypes, Past, Driven, Fresh, NEW s \in Sessions, NEW t \in Fired(s),
           phase[s] = "on", owner[s], ~behind[s], Sound(file)
    PROVE  /\ t \in OneShots => t \notin acted
           /\ t \in Recurring => ~(lastFire[t] >= now)
<1>1. view[s] = file /\ t \in DOMAIN file /\ now >= FireTime(s, t)
  BY NobodyIsBook DEF Fresh, Fired
<1>2. SoundAt(file, t)
  BY <1>1 DEF Sound
<1>3. ASSUME t \in Recurring PROVE ~(lastFire[t] >= now)
  <2>1. lastFire[t] \in Nat /\ now \in Nat /\ file[t] = lastFire[t] /\ t \in Tasks
        /\ Due[t] \in Nat /\ Due[t] > 0 /\ nextFireAt[s][t] \in Nat
    BY <1>2, <1>3, Times DEF SoundAt, CronTypes
  <2>2. CASE nextFireAt[s][t] = Unset
    <3>1. now >= IF lastFire[t] # 0 THEN lastFire[t] + 1 ELSE Due[t]
      BY <1>1, <1>3, <2>1, <2>2 DEF FireTime, FirstSight
    <3> QED BY <2>1, <3>1
  <2>3. CASE nextFireAt[s][t] # Unset
    <3>1. nextFireAt[s][t] > lastFire[t] /\ now >= nextFireAt[s][t]
      BY <1>1, <1>3, <2>3 DEF Driven, FireTime
    <3> QED BY <2>1, <3>1
  <2> QED BY <2>2, <2>3
<1> QED BY <1>2, <1>3 DEF SoundAt

LEMMA CheckCalm ==
    ASSUME CronTypes, Known, Past, Driven, Fresh, Calm, NEW s \in Sessions, Check(s),
           ~overlapped'
    PROVE  Calm'
<1>1. /\ phase[s] = "on" /\ owner[s] /\ Begin(s, Writes(s))
      /\ inFlight' = [inFlight EXCEPT ![s] = @ \cup Fired(s)]
      /\ UNCHANGED <<file, created, deleted>>
  BY DEF Check, Writes
<1>2. /\ acted' = acted \cup Fired(s)
      /\ again' = again \cup {t \in Fired(s) :
            IF t \in OneShots THEN t \in acted ELSE lastFire[t] >= now}
      /\ lastFire' = [t \in Recurring |-> IF t \in Fired(s) THEN now ELSE lastFire[t]]
      /\ hasty' = (hasty \/ (Fired(s) # {} /\ behind[s]))
  BY DEF Check, Act
<1>3. Fired(s) \subseteq Tasks /\ inFlight'[s] = inFlight[s] \cup Fired(s)
  BY <1>1, FireTypes DEF CronTypes
<1>4. \A n \in Writes(s) : \A o \in ops[s] : o.flying \cap n.flying = {}
  <2> SUFFICES ASSUME NEW n \in Writes(s), NEW o \in ops[s]
               PROVE  o.flying \cap n.flying = {}
    OBVIOUS
  <2>1. o.flying \subseteq inFlight[s]
    BY OnlyOne DEF Rewriting
  <2>2. n.flying \subseteq Fired(s)
    BY WritesAre DEF Rescheduled
  <2>3. Fired(s) \cap inFlight[s] = {}
    BY DEF Fired, InFlight
  <2> QED BY <2>1, <2>2, <2>3
<1>5. \/ Writes(s) = {} /\ UNCHANGED ops
      \/ \E n \in Writes(s) : Writes(s) = {n} /\ Idle /\ Lone(s, n)'
  BY <1>1, <1>4, WritesFinite, BeginAlone
<1>6. CASE Writes(s) = {} /\ UNCHANGED ops
  <2>1. Fired(s) = {}
    BY <1>6 DEF Writes
  <2>2. UNCHANGED <<acted, again, lastFire, hasty, inFlight>>
    BY <1>1, <1>2, <2>1 DEF CronTypes
  <2> QED BY <1>1, <1>6, <2>2, SameCalm
<1>7. ASSUME NEW n \in Writes(s), Writes(s) = {n}, Idle, Lone(s, n)' PROVE Calm'
  <2>1. /\ n.stage = "read" /\ n.body = Nobody /\ n.time = now /\ n.flying = n.ids
        /\ n.ids = Fired(s) /\ n.kind \in {"mark", "remove"}
        /\ n.kind = "mark" => \A t \in Fired(s) : ~IsLast(t)
        /\ n.kind = "remove" => \A t \in Fired(s) : IsLast(t)
    BY <1>7, WritesAre, WritesOne
  <2>2. Sound(file) /\ NoneLost /\ (~hasty => again = {})
    BY <1>7 DEF Calm, Idle
  <2>3. \A t \in Fired(s) \cap Recurring : lastFire'[t] = now
    BY <1>2
  <2>4. n.kind = "mark" => \A t \in n.ids : t \in Recurring /\ lastFire'[t] = n.time
    BY <1>3, <2>1, <2>3, Times DEF IsLast
  <2>5. n.kind = "remove" => \A t \in n.ids : t \in deleted' \/ Over(t)'
    BY <1>2, <1>3, <2>1, <2>3, Times DEF IsLast, Over
  <2>6. \A t \in DOMAIN file \ n.ids : SoundAt(file, t)'
    BY <1>1, <1>2, <2>1, <2>2 DEF Sound, SoundAt
  <2>7. \A t : Over(t) => Over(t)'
    <3> SUFFICES ASSUME NEW t, Over(t) PROVE Over(t)'
      OBVIOUS
    <3>1. CASE t \in OneShots /\ t \in acted
      BY <1>2, <3>1 DEF Over
    <3>2. CASE t \in Recurring /\ lastFire[t] >= Expires[t]
      <4>1. lastFire[t] \in Nat /\ now \in Nat /\ lastFire[t] <= now /\ Expires[t] \in Nat
        BY <3>2, Times DEF Past, CronTypes
      <4>2. lastFire'[t] = now \/ lastFire'[t] = lastFire[t]
        BY <1>2, <3>2
      <4> QED BY <3>2, <4>1, <4>2 DEF Over
    <3> QED BY <3>1, <3>2 DEF Over
  <2>8. \A t : Kept(t) => t \in DOMAIN file
    BY <1>7, KeptIdle
  <2>9. \A t : t \in DOMAIN file' => Kept(t)'
    BY DEF Kept
  <2>10. NoneLost'
    BY <1>1, <2>2, <2>7, <2>8, <2>9 DEF NoneLost
  <2>11. ASSUME ~hasty' PROVE again' = {}
    <3>1. ~hasty /\ (Fired(s) = {} \/ ~behind[s])
      BY <1>2, <2>11
    <3>2. \A t \in Fired(s) : /\ t \in OneShots => t \notin acted
                              /\ t \in Recurring => ~(lastFire[t] >= now)
      BY <1>1, <2>2, <3>1, FiredOnce
    <3>3. \A t \in Fired(s) : ~(IF t \in OneShots THEN t \in acted ELSE lastFire[t] >= now)
      BY <1>3, <3>2, Times
    <3> QED BY <1>2, <2>2, <3>1, <3>3
  <2> QED BY <1>1, <1>3, <1>7, <2>1, <2>2, <2>4, <2>5, <2>6, <2>10, <2>11, NewCalm
<1> QED BY <1>5, <1>6, <1>7

LEMMA NextCalm ==
    CronTypes /\ Known /\ Past /\ Driven /\ Fresh /\ CalmInv /\ [Next]_vars => CalmInv'
<1> SUFFICES ASSUME CronTypes, Known, Past, Driven, Fresh, CalmInv, [Next]_vars,
                    Undisturbed'
             PROVE  Calm'
  BY DEF CalmInv
<1>1. ASSUME UNCHANGED <<file, ops, inFlight, created, deleted, acted, again, lastFire>>,
             Undisturbed, hasty' = hasty
      PROVE  Calm'
  BY <1>1, SameCalm DEF CalmInv
<1>2. ASSUME NEW s \in Sessions,
             Start(s) \/ Probe(s) \/ Stop(s) \/ Reload(s) \/ IdleCheck(s)
      PROVE  Calm'
  BY <1>1, <1>2 DEF Start, Probe, Stop, Forget, Reload, Loaded, IdleCheck, ghosts, record,
     Undisturbed
<1>3. ASSUME NEW s \in Sessions, Die(s) PROVE Calm'
  <2>1. /\ ~cut /\ ops[s] = {} /\ ~overlapped /\ failed = 0
        /\ UNCHANGED <<file, created, deleted, acted, again, lastFire, hasty>>
    BY <1>3 DEF Die, Undisturbed
  <2>2. UNCHANGED ops
    BY <1>3, <2>1 DEF Die, CronTypes
  <2>3. inFlight' = [inFlight EXCEPT ![s] = {}]
    BY <1>3 DEF Die
  <2> QED BY <2>1, <2>2, <2>3, DieCalm DEF Undisturbed, CalmInv
<1>4. Tick \/ UNCHANGED vars => Calm'
  BY <1>1 DEF Tick, vars, session, ghosts, record, Undisturbed
<1>5. ASSUME NEW s \in Sessions, OpStep(s) PROVE Calm'
  <2>1. PICK o \in ops[s] :
           OpRead(s, o) \/ OpTruncate(s, o) \/ OpFill(s, o) \/ OpFails(s, o)
    BY <1>5 DEF OpStep
  <2>2. failed' = 0 /\ ~cut' /\ ~overlapped' /\ cut' = cut /\ overlapped' = overlapped
    BY <2>1 DEF OpRead, OpTruncate, OpFill, OpFails, ghosts, record, Undisturbed
  <2>3. failed = 0 /\ ~OpFails(s, o)
    <3>1. OpRead(s, o) => \E f \in Seen : failed' = failed + Missing(f)
      BY DEF OpRead
    <3>2. OpFails(s, o) => failed' = failed + 1
      BY DEF OpFails
    <3>3. OpTruncate(s, o) \/ OpFill(s, o) => failed' = failed
      BY DEF OpTruncate, OpFill, ghosts
    <3>4. failed \in Nat /\ \A f \in Seen : Missing(f) \in Nat
      BY SeenIs DEF CronTypes
    <3> QED BY <2>1, <2>2, <3>1, <3>2, <3>3, <3>4
  <2>4. Calm
    BY <2>2, <2>3 DEF Undisturbed, CalmInv
  <2> QED BY <2>1, <2>2, <2>3, <2>4, ReadCalm, TruncateCalm, FillCalm
<1>6. ASSUME NEW s \in Sessions,
             \/ InitialLoad(s) \/ Check(s) \/ \E t \in Tasks : Create(s, t) \/ Delete(s, t)
      PROVE  Calm'
  <2>1. ~cut /\ ~overlapped' /\ failed = 0
    <3>1. ~cut' /\ ~overlapped' /\ failed' = 0
      BY DEF Undisturbed
    <3>2. cut' = cut /\ failed' = failed
      BY <1>6 DEF InitialLoad, Check, Create, Delete
    <3> QED BY <3>1, <3>2
  <2>2. ~overlapped
    BY <1>6, <2>1 DEF InitialLoad, Check, Create, Delete, Begin
  <2>3. Calm
    BY <2>1, <2>2 DEF CalmInv, Undisturbed
  <2> QED BY <1>6, <2>1, <2>3, LoadCalm, CheckCalm, CreateCalm, DeleteCalm
<1> QED BY <1>2, <1>3, <1>4, <1>5, <1>6 DEF Next, SessionStep

-----------------------------------------------------------------------------

CronInv == CronTypes /\ Known /\ Past /\ Driven /\ Fresh /\ CalmInv

LEMMA CronInvariant == Spec => []CronInv
<1>1. Init => CronInv
  BY InitCronTypes, InitKnown, InitCalm DEF CronInv, CalmInv
<1>2. CronInv /\ [Next]_vars => CronInv'
  BY NextCronTypes, NextKnown, NextPast, NextDriven, NextFresh, NextCalm DEF CronInv
<1> QED BY <1>1, <1>2, PTL DEF Spec

\* A one-shot is acted on once, by whichever session drives the schedule or
\* starts: unless rewrites overlap, a session dies in one or cannot do it, or acts
\* on a file that has changed since it loaded it.  Loads that fail do no harm.
THEOREM OneShotsFireOnce == Spec => []OneShotOnce
<1>1. CronInv => OneShotOnce
  BY DEF CronInv, CalmInv, Calm, OneShotOnce
<1> QED BY <1>1, CronInvariant, PTL

\* Under the same conditions a recurring task fires once for each time it is due.
THEOREM RecurringFireSpaced == Spec => []RecurringSpaced
<1>1. CronInv => RecurringSpaced
  BY DEF CronInv, CalmInv, Calm, RecurringSpaced
<1> QED BY <1>1, CronInvariant, PTL

\* And no task leaves the file, unless it was deleted or is over: that also when
\* a session acts on a file that has changed.
THEOREM NoTaskForgotten == Spec => []NoneForgotten
<1>1. CronInv => NoneForgotten
  BY DEF CronInv, CalmInv, Calm, NoneLost, Over, NoneForgotten
<1> QED BY <1>1, CronInvariant, PTL

\* One session drives the schedule at a time, and it plans no time that is over.
THEOREM DriverIsAhead == Spec => []Driven
<1>1. CronInv => Driven
  BY DEF CronInv
<1> QED BY <1>1, CronInvariant, PTL
=============================================================================
