---------------------------- MODULE CronScheduler ----------------------------
(***************************************************************************)
(* The scheduled tasks of a directory: utils/cronScheduler.ts over the     *)
(* file of utils/cronTasks.ts, which several sessions read and rewrite     *)
(* without a lock.  One of them owns the scheduler and fires what is due.  *)
(*                                                                         *)
(* Who owns it is SchedulerLock; here one session at a time does.  A       *)
(* rewrite is three steps: read, truncate, fill.  Each may fail: a read    *)
(* that fails is a file without tasks, a write that fails leaves the file  *)
(* as it was or empty, and is not tried again.  Time is a small clock, and *)
(* isLoading() is a check that does not happen.                            *)
(*                                                                         *)
(* Left out: tasks that live in one session only, the filter and the kill  *)
(* switch of a daemon, jitter, and changes of the file that come before    *)
(* the watcher of a session is ready.                                      *)
(***************************************************************************)
EXTENDS Naturals, FiniteSets

CONSTANTS
    Sessions,
    OneShots,       \* tasks that are to fire once
    Recurring,      \* tasks that fire again and again
    Old,            \* the tasks that are in the file at first
    Due,            \* the time at which each task first fires
    Expires,        \* the time from which a recurring task is too old
    MaxTime,        \* bound: the clock
    MaxFailures     \* bound: the reads and writes of the file that fail

Tasks == OneShots \cup Recurring

ASSUME CronAssumption ==
    /\ OneShots \cap Recurring = {}
    /\ Old \subseteq Tasks /\ IsFiniteSet(Old)
    /\ MaxTime \in Nat /\ MaxFailures \in Nat
    /\ Due \in [Tasks -> Nat \ {0}]
    /\ Expires \in [Recurring -> Nat]

VARIABLES
    now,
    file,           \* the tasks in the file, each with its lastFiredAt (0: none)
    phase,          \* of each session
    owner,          \* whether it owns the scheduler
    view,           \* the tasks it has loaded
    nextFireAt,     \* for each task a time, Unset or Never
    inFlight,       \* tasks that it fired and has not written yet
    behind,         \* whether a change of the file has not reached it
    ops,            \* the rewrites it has begun
    created,        \* history: tasks that the file has held or will hold
    deleted,        \* history: tasks that somebody deleted
    acted,          \* history: tasks that were fired or shown as missed
    again,          \* history: those acted on again before they were due again
    lastFire,       \* history: when each recurring task fired
    overlapped,     \* history: a rewrite began while another was going on
    hasty,          \* history: a session acted while a change had not reached it
    cut,            \* history: a session died in the middle of a rewrite
    failed,         \* history: how many rewrites could not read or write the file
    unread          \* history: how many times a session could not load it

session == <<phase, owner, view, nextFireAt, inFlight, behind>>
record == <<created, deleted, acted, again, lastFire, overlapped, hasty, cut, unread>>
ghosts == <<record, failed>>
vars == <<now, file, session, ops, ghosts>>

Unset == MaxTime + 2
Never == MaxTime + 3
Nobody == [t \in {} |-> 0]
NoTimes == [t \in Tasks |-> Unset]

Restricted(f, S) == [t \in DOMAIN f \cap S |-> f[t]]

Init ==
    /\ now = 0
    /\ file = [t \in Old |-> 0]
    /\ phase = [s \in Sessions |-> "none"]
    /\ owner = [s \in Sessions |-> FALSE]
    /\ view = [s \in Sessions |-> Nobody]
    /\ nextFireAt = [s \in Sessions |-> NoTimes]
    /\ inFlight = [s \in Sessions |-> {}]
    /\ behind = [s \in Sessions |-> FALSE]
    /\ ops = [s \in Sessions |-> {}]
    /\ created = Old
    /\ deleted = {}
    /\ acted = {}
    /\ again = {}
    /\ lastFire = [t \in Recurring |-> 0]
    /\ overlapped = FALSE
    /\ hasty = FALSE
    /\ cut = FALSE
    /\ failed = 0
    /\ unread = 0

Running(s) == phase[s] \in {"loading", "on"}
HasProcess(s) == phase[s] \notin {"none", "dead"}

Tick ==
    /\ now < MaxTime
    /\ now' = now + 1
    /\ UNCHANGED <<file, session, ops, ghosts>>

-----------------------------------------------------------------------------
(* Rewrites: addCronTask(), removeCronTasks(), markCronTasksFired() *)

Op(kind, ids, flying) ==
    [kind |-> kind, ids |-> ids, flying |-> flying, time |-> now,
     stage |-> "read", body |-> Nobody]

\* The operations in N begin together, in session s.  That they do so beside
\* one that still holds the same task in flight is not recorded as an overlap:
\* inFlight is there to prevent it.
Beside(s, n) == \E q \in Sessions : \E o \in ops[q] :
    q # s \/ o.flying \cap n.flying = {}

Begin(s, N) ==
    /\ ops' = [ops EXCEPT ![s] = @ \cup N]
    /\ overlapped' = (overlapped \/ Cardinality(N) > 1 \/ \E n \in N : Beside(s, n))

MayFail == failed + unread < MaxFailures

\* readCronTasks(): what cannot be read is a file without tasks.
Seen == {file} \cup {f \in {Nobody} : MayFail}
Missing(f) == IF f = file THEN 0 ELSE 1

Changes(o, f) == o.kind = "add" \/ o.ids \cap DOMAIN f # {}

\* Mutant: the filter keeps what it should drop and drops the rest.
Dropped(o, f) == Restricted(f, o.ids)
Remaining(o, f) == Restricted(f, Tasks \ o.ids)

Body(o, f) ==
    CASE o.kind = "add"    -> [t \in DOMAIN f \cup o.ids |->
                                  IF t \in o.ids THEN 0 ELSE f[t]]
      [] o.kind = "remove" -> Remaining(o, f)
      [] o.kind = "mark"   -> [t \in DOMAIN f |->
                                  IF t \in o.ids THEN o.time ELSE f[t]]

Replaced(s, o, p) == ops' = [ops EXCEPT ![s] = (@ \ {o}) \cup {p}]

\* The promise of a rewrite is settled: what it fired is in flight no more.
Settle(s, o) ==
    /\ ops' = [ops EXCEPT ![s] = @ \ {o}]
    /\ inFlight' = [inFlight EXCEPT ![s] = @ \ o.flying]

OpRead(s, o) ==
    /\ o.stage = "read"
    /\ \E f \in Seen :
          /\ \/ /\ Changes(o, f)
                /\ Replaced(s, o, [o EXCEPT !.stage = "truncate", !.body = Body(o, f)])
                /\ UNCHANGED inFlight
             \/ /\ ~Changes(o, f)
                /\ Settle(s, o)
          /\ failed' = failed + Missing(f)
    /\ UNCHANGED <<now, file, phase, owner, view, nextFireAt, behind, record>>

\* The watchers see every change, those of their own session included.
\* Mutant: not those.
HearsOthers(q, s) == Running(q) /\ q # s
Hears(q, s) == Running(q)
Announce(s) == behind' = [q \in Sessions |-> behind[q] \/ Hears(q, s)]

OpTruncate(s, o) ==
    /\ o.stage = "truncate"
    /\ file' = Nobody
    /\ Replaced(s, o, [o EXCEPT !.stage = "fill"])
    /\ Announce(s)
    /\ UNCHANGED <<now, phase, owner, view, nextFireAt, inFlight, ghosts>>

\* Over a longer text that another wrote meanwhile it leaves what is no JSON,
\* which reads as no tasks.
OpFill(s, o) ==
    /\ o.stage = "fill"
    /\ file' = IF Cardinality(DOMAIN file) > Cardinality(DOMAIN o.body)
               THEN Nobody ELSE o.body
    /\ Settle(s, o)
    /\ Announce(s)
    /\ UNCHANGED <<now, phase, owner, view, nextFireAt, ghosts>>

\* A file that cannot be opened stays as it is.  One that was truncated and
\* cannot be written stays empty, or what another wrote is no JSON any more.
\* .catch() and .finally() settle the rewrite like one that went well.
OpFails(s, o) ==
    /\ MayFail
    /\ \/ /\ o.stage = "truncate"
          /\ UNCHANGED <<file, behind>>
       \/ /\ o.stage = "fill"
          /\ file' \in {file, Nobody}
          /\ Announce(s)
    /\ Settle(s, o)
    /\ failed' = failed + 1
    /\ UNCHANGED <<now, phase, owner, view, nextFireAt, record>>

OpStep(s) == \E o \in ops[s] :
    OpRead(s, o) \/ OpTruncate(s, o) \/ OpFill(s, o) \/ OpFails(s, o)

\* CronCreate and CronDelete, in any session.
Create(s, t) ==
    /\ HasProcess(s)
    /\ t \notin created /\ now < Due[t]
    /\ created' = created \cup {t}
    /\ Begin(s, {Op("add", {t}, {})})
    /\ UNCHANGED <<now, file, session, deleted, acted, again, lastFire, hasty, cut,
                   failed, unread>>

Delete(s, t) ==
    /\ HasProcess(s)
    /\ t \in DOMAIN file /\ t \notin deleted
    /\ deleted' = deleted \cup {t}
    /\ Begin(s, {Op("remove", {t}, {})})
    /\ UNCHANGED <<now, file, session, created, acted, again, lastFire, hasty, cut,
                   failed, unread>>

-----------------------------------------------------------------------------
(* enable(), stop(), exit *)

NoOwner == \A q \in Sessions : ~owner[q]

Start(s) ==
    /\ phase[s] = "none"
    /\ phase' = [phase EXCEPT ![s] = "loading"]
    /\ owner' = [owner EXCEPT ![s] = NoOwner]
    /\ UNCHANGED <<now, file, view, nextFireAt, inFlight, behind, ops, ghosts>>

Probe(s) ==
    /\ Running(s) /\ ~owner[s] /\ NoOwner
    /\ owner' = [owner EXCEPT ![s] = TRUE]
    /\ UNCHANGED <<now, file, phase, view, nextFireAt, inFlight, behind, ops, ghosts>>

\* What a session that is at its end had loaded and planned is not used again.
Forget(s) ==
    /\ owner' = [owner EXCEPT ![s] = FALSE]
    /\ view' = [view EXCEPT ![s] = Nobody]
    /\ nextFireAt' = [nextFireAt EXCEPT ![s] = NoTimes]
    /\ behind' = [behind EXCEPT ![s] = FALSE]

\* The rewrites that a stopped scheduler has begun go on.
Stop(s) ==
    /\ Running(s)
    /\ phase' = [phase EXCEPT ![s] = "stopped"]
    /\ Forget(s)
    /\ UNCHANGED <<now, file, inFlight, ops, ghosts>>

Die(s) ==
    /\ HasProcess(s)
    /\ phase' = [phase EXCEPT ![s] = "dead"]
    /\ Forget(s)
    /\ inFlight' = [inFlight EXCEPT ![s] = {}]
    /\ ops' = [ops EXCEPT ![s] = {}]
    /\ cut' = (cut \/ ops[s] # {})
    /\ UNCHANGED <<now, file, created, deleted, acted, again, lastFire, overlapped,
                   hasty, failed, unread>>

-----------------------------------------------------------------------------
(* load() *)

\* The session acts on the tasks in S.
Act(s, S) ==
    /\ acted' = acted \cup S
    /\ again' = again \cup {t \in S :
          IF t \in OneShots THEN t \in acted ELSE lastFire[t] >= now}
    /\ lastFire' = [t \in Recurring |-> IF t \in S THEN now ELSE lastFire[t]]
    /\ hasty' = (hasty \/ (S # {} /\ behind[s]))

Missed(f) == {t \in DOMAIN f \cap OneShots : Due[t] < now}
Guarded(s, f) == [t \in Tasks |-> IF t \in Missed(f) THEN Never ELSE nextFireAt[s][t]]

\* The session has loaded f; the next change of the file makes it load again.
Loaded(s, f) ==
    /\ view' = [view EXCEPT ![s] = f]
    /\ behind' = [behind EXCEPT ![s] = FALSE]
    /\ unread' = unread + Missing(f)

\* load(true): every session, owner or not, shows the one-shots that are past
\* and takes them out of the file.
InitialLoad(s) ==
    /\ phase[s] = "loading"
    /\ phase' = [phase EXCEPT ![s] = "on"]
    /\ \E f \in Seen :
          /\ Loaded(s, f)
          /\ nextFireAt' = [nextFireAt EXCEPT ![s] = Guarded(s, f)]
          /\ acted' = acted \cup Missed(f)
          /\ again' = again \cup (Missed(f) \cap acted)
          /\ Begin(s, {Op("remove", M, {}) : M \in {Missed(f)} \ {{}}})
    /\ UNCHANGED <<now, file, owner, inFlight, created, deleted, lastFire, hasty, cut,
                   failed>>

\* load(false): the watcher has seen a change.
Reload(s) ==
    /\ phase[s] = "on" /\ behind[s]
    /\ \E f \in Seen : Loaded(s, f)
    /\ UNCHANGED <<now, file, phase, owner, nextFireAt, inFlight, ops, created, deleted,
                   acted, again, lastFire, overlapped, hasty, cut, failed>>

-----------------------------------------------------------------------------
(* check() *)

\* Mutant: the time of the last fire is not read from the file.
FromDue(t, stamp) == Due[t]
FirstSight(t, stamp) ==
    IF t \in Recurring /\ stamp # 0 THEN stamp + 1 ELSE Due[t]

FireTime(s, t) ==
    IF nextFireAt[s][t] = Unset THEN FirstSight(t, view[s][t]) ELSE nextFireAt[s][t]

\* Mutant: tasks in flight are looked at as well.
NeverInFlight(s, t) == FALSE
InFlight(s, t) == t \in inFlight[s]
Fired(s) == {t \in DOMAIN view[s] : ~InFlight(s, t) /\ now >= FireTime(s, t)}

IsLast(t) == t \in OneShots \/ now >= Expires[t]
Rescheduled(s) == {t \in Fired(s) : ~IsLast(t)}

\* Those that are new to the owner get a time, those that fired the next one;
\* tasks that are gone, and the last ones that fired, leave the schedule.
Schedule(s) == [t \in Tasks |->
    IF t \in Rescheduled(s) THEN now + 1
    ELSE IF t \notin DOMAIN view[s] \/ t \in Fired(s) THEN Unset
    ELSE IF InFlight(s, t) THEN nextFireAt[s][t]
    ELSE FireTime(s, t)]

Check(s) ==
    /\ phase[s] = "on" /\ owner[s]
    /\ nextFireAt' = [nextFireAt EXCEPT ![s] = Schedule(s)]
    /\ inFlight' = [inFlight EXCEPT ![s] = @ \cup Fired(s)]
    /\ Act(s, Fired(s))
    /\ Begin(s, {Op("remove", {t}, {t}) : t \in Fired(s) \ Rescheduled(s)}
                  \cup {Op("mark", R, R) : R \in {Rescheduled(s)} \ {{}}})
    /\ UNCHANGED <<now, file, phase, owner, view, behind, created, deleted, cut,
                   failed, unread>>

\* A session that does not own the scheduler forgets the schedule, with the
\* guards of load(true).
IdleCheck(s) ==
    /\ phase[s] = "on" /\ ~owner[s]
    /\ nextFireAt' = [nextFireAt EXCEPT ![s] = NoTimes]
    /\ UNCHANGED <<now, file, phase, owner, view, inFlight, behind, ops, ghosts>>

-----------------------------------------------------------------------------

SessionStep(s) ==
    \/ Start(s) \/ Probe(s) \/ Stop(s) \/ Die(s)
    \/ InitialLoad(s) \/ Reload(s) \/ Check(s) \/ IdleCheck(s)

Next ==
    \/ Tick
    \/ \E s \in Sessions : SessionStep(s) \/ OpStep(s)
    \/ \E s \in Sessions, t \in Tasks : Create(s, t) \/ Delete(s, t)

Spec == Init /\ [][Next]_vars

\* The timers and the watcher of a session keep running, and a rewrite ends,
\* unless the process does; the queries that put a check off end.
FairSpec == Spec /\ \A s \in Sessions :
    /\ WF_vars(Probe(s))
    /\ WF_vars(InitialLoad(s))
    /\ WF_vars(Reload(s))
    /\ WF_vars(Check(s))
    /\ WF_vars(OpStep(s))

-----------------------------------------------------------------------------
(* Properties *)

\* A task is in the file, or in what a rewrite is about to write.
Kept(t) ==
    \/ t \in DOMAIN file
    \/ \E s \in Sessions : \E o \in ops[s] :
          t \in DOMAIN o.body \/ (o.kind = "add" /\ t \in o.ids)

Undisturbed == ~overlapped /\ ~cut /\ failed = 0

\* A one-shot is not acted on twice, whichever sessions start, die and take
\* over.  It fires again only if two rewrites overlapped, a session died in one or
\* could not do it, or a session acted before a change reached it.  The last is
\* possible although inFlight is to guard "the async removeCronTasks + chokidar
\* reload": it is cleared when the removal is done, before the reload.
OneShotOnce ==
    Undisturbed /\ ~hasty => again \cap OneShots = {}

\* A recurring task fires once for each time it is due, in one session or in
\* several that follow each other, under the same conditions.
RecurringSpaced ==
    Undisturbed /\ ~hasty => again \cap Recurring = {}

\* A task leaves the file when it has fired for the last time, was shown as
\* missed or deleted, or by a rewrite that overlapped another, was cut short or
\* could not read or write the file; and not otherwise.
NoneForgotten ==
    Undisturbed => \A t \in created \ deleted :
        \/ Kept(t)
        \/ t \in OneShots /\ t \in acted
        \/ t \in Recurring /\ lastFire[t] >= Expires[t]

\* A one-shot that is due and kept is fired or shown in the end, whoever dies, in
\* the middle of a rewrite or not, and whichever rewrites fail, as long as a
\* session runs, no rewrites overlap and the sessions can read what they load.
DueFires == \A t \in OneShots :
    (now >= Due[t] /\ Kept(t)) ~>
        \/ t \in acted \/ ~Kept(t)
        \/ overlapped \/ unread # 0 \/ ~\E s \in Sessions : Running(s)

=============================================================================
