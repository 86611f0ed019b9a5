--------------------------- MODULE TaskListProofs ---------------------------
(***************************************************************************)
(* The shared task list, for any number of sessions, calls and crashes.    *)
(* For every operation but deleteTask (which does reuse ids): no id is     *)
(* handed out twice (IInv: who may change the directory and the mark), and *)
(* no session fills a file that another fills or reopens a completed task  *)
(* (OwnerInv: what a session knows of the task whose lock it has); without *)
(* the busy claim, whoever was told that it has a task is its owner        *)
(* (HolderInv: what a claim has seen when it answers).  For every          *)
(* operation: calls that do not overlap leave blocks and blockedBy         *)
(* mirroring each other (LinkInv: which links the updates that are left    *)
(* lead to).                                                               *)
(***************************************************************************)
EXTENDS TaskList, FiniteSetTheorems, SequenceTheorems, WellFoundedInduction, TLAPS

\* A nonempty set of naturals that do not exceed N has a greatest element.
LEMMA GreatestExists ==
  ASSUME NEW N \in Nat, NEW S \in SUBSET (0..N), S # {}
  PROVE  \E m \in S : \A i \in S : i <= m
<1> DEFINE T == {N - i : i \in S}
<1>1. T \subseteq Nat /\ T # {}
  <2>1. \A i \in S : i \in 0..N /\ N - i \in Nat
    OBVIOUS
  <2>2. PICK i \in S : TRUE
    OBVIOUS
  <2> QED BY <2>1, <2>2
<1>2. \E x \in T : \A y \in T : ~ (<<y, x>> \in OpToRel(<, Nat))
  <2> HIDE DEF T
  <2> QED BY <1>1, NatLessThanWellFounded, WFMin
<1>3. PICK x \in T : \A y \in T : ~ (y < x)
  <2>1. \A x, y \in Nat : <<y, x>> \in OpToRel(<, Nat) <=> y < x
    BY DEF OpToRel
  <2> QED BY <1>1, <1>2, <2>1
<1>4. PICK m \in S : x = N - m
  OBVIOUS
<1>5. ASSUME NEW i \in S PROVE i <= m
  <2>1. ~ (N - i < N - m)
    BY <1>3, <1>4
  <2> QED BY <2>1
<1> QED BY <1>5

LEMMA HighestIsGreatest ==
  ASSUME there \subseteq Ids
  PROVE  Highest \in there \cup {0} /\ \A i \in there : i <= Highest
<1> USE TaskListAssumption
<1>1. \E n \in there \cup {0} : \A i \in there : i <= n
  <2>1. CASE there = {}
    BY <2>1
  <2>2. CASE there # {}
    <3>1. MaxId \in Nat /\ there \in SUBSET (0..MaxId)
      BY DEF Ids, MaxId
    <3> QED BY <2>2, <3>1, GreatestExists
  <2> QED BY <2>1, <2>2
<1> QED BY <1>1 DEF Highest

-----------------------------------------------------------------------------
(***************************************************************************)
(* The inductive invariant.  The directory and the mark together cover     *)
(* every id that was given out, even when a session died in the middle of  *)
(* a reset; and the session that holds the lock of the list knows enough,  *)
(* at each of its steps, to take the next one.  It matters that only the   *)
(* holder of that lock changes the mark, unlinks a file or gives out an    *)
(* id; the others may bring a file back, which covers no less.             *)
(***************************************************************************)
Critical == {"scan", "readHigh", "readMark", "openMark", "fillMark",
             "sweepList", "sweep"}

Types ==
    /\ there \subseteq Ids /\ issued \subseteq Ids
    /\ mark \in Nat /\ markTorn \in BOOLEAN
    /\ pc = [p \in Procs |-> pc[p]]
    /\ high \in [Procs -> Int] /\ seenMark \in [Procs -> Int]
    /\ target \in [Procs -> 0..MaxId]
    /\ call = [p \in Procs |-> call[p]]

Covered(n) == \A i \in issued : i <= Mark \/ i <= n
Cover == \A i \in issued : i <= Mark \/ \E j \in there : i <= j

Stage(p) ==
    /\ call[p].op # "delete" /\ pc[p] # "remove"
    /\ pc[p] \in Critical => listLock = p
    /\ pc[p] = "claimCheck" => call[p].op \in {"claim", "busyclaim"}
    /\ pc[p] = "lockList" =>
          /\ call[p].op \in {"create", "reset", "autoclear", "busyclaim"}
          /\ call[p].op = "create" => high[p] = Unknown /\ seenMark[p] = Unknown
    /\ pc[p] = "open" => target[p] \in Ids
    /\ pc[p] = "scan" =>
          /\ high[p] # Unknown => Covered(high[p])
          /\ seenMark[p] # Unknown => seenMark[p] = Mark
    /\ pc[p] \in {"readMark", "openMark"} => high[p] \in there /\ Covered(high[p])
    /\ pc[p] = "openMark" => Mark < high[p]
    /\ pc[p] = "fillMark" => high[p] \in there /\ \A i \in issued : i <= high[p]
    /\ pc[p] \in {"sweepList", "sweep"} => \A i \in issued : i <= Mark

IInv == Types /\ Cover /\ \A p \in Procs : Stage(p)

NoDelete == "delete" \notin Menu

LEMMA InitIInv == Init => IInv
<1> SUFFICES ASSUME Init PROVE IInv
  OBVIOUS
<1> USE TaskListAssumption DEF Init
<1>1. 1..Initial \subseteq Ids /\ MaxId \in Nat
  BY DEF Ids, MaxId
<1>2. Types
  <2>1. there \subseteq Ids /\ issued \subseteq Ids /\ mark \in Nat /\ markTorn \in BOOLEAN
    BY <1>1
  <2>2. pc = [p \in Procs |-> pc[p]] /\ call = [p \in Procs |-> call[p]]
    OBVIOUS
  <2>3. high \in [Procs -> Int] /\ seenMark \in [Procs -> Int] /\ target \in [Procs -> 0..MaxId]
    BY <1>1 DEF Unknown
  <2> QED BY <2>1, <2>2, <2>3 DEF Types
<1>3. Cover
  BY <1>1 DEF Cover, Ids
<1>4. \A p \in Procs : Stage(p)
  BY DEF Stage, Critical, NoCall
<1> QED BY <1>2, <1>3, <1>4 DEF IInv

-----------------------------------------------------------------------------
(* Steps outside the critical section: they take no id, unlink nothing and *)
(* leave the mark alone.                                                   *)

Quiet == {"idle", "dead", "unlockList", "lockTask", "unlockTask", "inspect",
          "reread", "open", "fill", "check", "list", "reading"}

LEMMA QuietStep ==
  ASSUME IInv, NEW p \in Procs, NEW l \in Quiet \cup {pc[p]}, Goto(p, l),
         UNCHANGED <<mark, markTorn, issued, high, seenMark, call>>,
         there \subseteq there', there' \subseteq Ids,
         target' \in [Procs -> 0..MaxId],
         \A q \in Procs : q # p => target'[q] = target[q],
         l = "open" => target'[p] \in Ids,
         l = pc[p] => UNCHANGED <<target, listLock>>,
         \A q \in Procs : q # p /\ listLock = q => listLock' = q
  PROVE  IInv'
<1>1. Types'
  <2>1. Types
    BY DEF IInv
  <2>2. pc' = [q \in Procs |-> pc'[q]]
    BY <2>1 DEF Types, Goto
  <2>3. call' = [q \in Procs |-> call'[q]]
    BY <2>1 DEF Types
  <2> QED BY <2>1, <2>2, <2>3 DEF Types
<1>2. Mark' = Mark
  BY DEF Mark
<1>3. Cover'
  BY <1>2 DEF IInv, Cover
<1>4. ASSUME NEW q \in Procs PROVE Stage(q)'
  <2>1. Stage(q) /\ pc = [r \in Procs |-> pc[r]]
    BY DEF IInv, Types
  <2>2. \A n : Covered(n)' <=> Covered(n)
    BY <1>2 DEF Covered
  <2>3. CASE q # p \/ l = pc[p]
    <3>1. pc'[q] = pc[q] /\ target'[q] = target[q]
      BY <2>1, <2>3 DEF Goto
    <3>2. listLock = q => listLock' = q
      BY <2>3
    <3> QED BY <1>2, <2>1, <2>2, <3>1, <3>2 DEF Stage
  <2>4. CASE q = p /\ l \in Quiet
    <3>1. pc'[q] = l
      BY <2>1, <2>4 DEF Goto
    <3> QED BY <2>1, <2>4, <3>1 DEF Stage, Critical, Quiet
  <2> QED BY <2>3, <2>4
<1> QED BY <1>1, <1>3, <1>4 DEF IInv

LEMMA Quieter ==
  ASSUME NoDelete, IInv, NEW p \in Procs,
         \/ ListLockFails(p) \/ UnlockList(p) \/ LockTask(p) \/ TaskLockFails(p)
         \/ UnlockTask(p) \/ Check(p) \/ Reread(p) \/ OpenOld(p) \/ Fill(p)
         \/ List(p) \/ (\E i \in Ids : ReadTask(p, i))
         \/ DecideClaim(p) \/ DecideBusyClaim(p) \/ DecideUnassign(p)
         \/ DecideBlock(p) \/ Inspect(p) \/ Swept(p) \/ Crash(p)
  PROVE  IInv'
<1> USE DEF Quiet, Goto, files, marks, locks, reads, writes, ghosts, Then
<1>0. Types /\ Stage(p)
  BY DEF IInv
<1>1. CASE ListLockFails(p)
  BY <1>0, <1>1, QuietStep DEF ListLockFails, Types
<1>2. CASE UnlockList(p)
  BY <1>0, <1>2, QuietStep DEF UnlockList, Types
<1>3. CASE LockTask(p)
  BY <1>0, <1>3, QuietStep DEF LockTask, Types
<1>4. CASE TaskLockFails(p)
  BY <1>0, <1>4, QuietStep DEF TaskLockFails, Types, Resume
<1>5. CASE UnlockTask(p)
  BY <1>0, <1>5, QuietStep DEF UnlockTask, Types, Resume
<1>6. CASE Check(p)
  BY <1>0, <1>6, QuietStep DEF Check, Types, Resume
<1>7. CASE Reread(p)
  BY <1>0, <1>7, QuietStep DEF Reread, Types, Readable, Ids
<1>8. CASE OpenOld(p)
  BY <1>0, <1>8, QuietStep DEF OpenOld, Open, Types, Stage
<1>9. CASE Fill(p)
  BY <1>0, <1>9, QuietStep DEF Fill, Types
<1>10. CASE List(p)
  BY <1>0, <1>10, QuietStep DEF List, Types
<1>11. CASE \E i \in Ids : ReadTask(p, i)
  <2>1. pc' = [pc EXCEPT ![p] = pc[p]] /\ UNCHANGED <<there, mark, markTorn, issued>>
    BY <1>0, <1>11 DEF ReadTask, Types
  <2> QED BY <1>0, <1>11, <2>1, QuietStep DEF ReadTask, Types
<1>12. CASE DecideClaim(p)
  BY <1>0, <1>12, QuietStep DEF DecideClaim, Types
<1>13. CASE DecideBusyClaim(p)
  BY <1>0, <1>13, QuietStep DEF DecideBusyClaim, Types
<1>14. CASE DecideUnassign(p)
  <2>1. PICK us : Then(p, us, Resume(p, us))
    BY <1>14, Zenon DEF DecideUnassign, UpdateEach
  <2>2. Resume(p, us) \in {"check", "unlockList", "idle"}
    BY DEF Resume
  <2> QED BY <1>0, <2>1, <2>2, QuietStep DEF Types
<1>15. CASE DecideBlock(p)
  <2>1. PICK us : Then(p, us, Resume(p, us))
    BY <1>15 DEF DecideBlock
  <2>2. Resume(p, us) \in {"check", "unlockList", "idle"}
    BY DEF Resume
  <2> QED BY <1>0, <2>1, <2>2, QuietStep DEF Types
<1>16. CASE Inspect(p)
  BY <1>0, <1>16, QuietStep DEF Inspect, Types
<1>17. CASE Swept(p)
  BY <1>0, <1>17, QuietStep DEF Swept, Types
<1>18. CASE Crash(p)
  BY <1>0, <1>18, QuietStep DEF Crash, Types
<1> QED
  BY <1>1, <1>2, <1>3, <1>4, <1>5, <1>6, <1>7, <1>8, <1>9, <1>10, <1>11,
     <1>12, <1>13, <1>14, <1>15, <1>16, <1>17, <1>18

-----------------------------------------------------------------------------
(* Steps into the critical section and inside it.                          *)

\* What another session needs of its own state survives a step of p that
\* either has the lock of the list or leaves the mark and the files alone.
LEMMA OtherStages ==
  ASSUME IInv, NEW p \in Procs, NEW q \in Procs, q # p,
         pc'[q] = pc[q], call'[q] = call[q], high'[q] = high[q],
         seenMark'[q] = seenMark[q], target'[q] = target[q],
         \/ listLock = p
         \/ /\ UNCHANGED <<there, mark, markTorn, issued>>
            /\ listLock = q => listLock' = q
  PROVE  Stage(q)'
<1>1. Stage(q)
  BY DEF IInv
<1>2. CASE listLock = p
  <2>1. pc[q] \notin Critical
    BY <1>1, <1>2 DEF Stage
  <2> QED BY <1>1, <2>1 DEF Stage, Critical
<1>3. CASE UNCHANGED <<there, mark, markTorn, issued>> /\ (listLock = q => listLock' = q)
  <2>1. Mark' = Mark /\ \A n : Covered(n)' <=> Covered(n)
    BY <1>3 DEF Mark, Covered
  <2> QED BY <1>1, <1>3, <2>1 DEF Stage
<1> QED BY <1>2, <1>3

LEMMA Starting ==
  ASSUME NoDelete, IInv, NEW p \in Procs, StartWhole(p) \/ StartOnTask(p)
  PROVE  IInv'
<1> DEFINE Way(c, l) == \/ c.op \in {"create", "reset"} /\ l = "lockList"
                        \/ c.op = "delete"
                        \/ c.op \in {"claim", "busyclaim"} /\ l = "claimCheck"
                        \/ l \in {"list", "check", "reading"}
<1>1. PICK c, l : Start(p, c, l) /\ Way(c, l)
  <2>1. CASE StartWhole(p)
    <3>1. CASE \E op \in {"create", "reset"} : Start(p, [op |-> op], "lockList")
      <4>1. PICK op \in {"create", "reset"} : Start(p, [op |-> op], "lockList")
        BY <3>1
      <4>2. Way([op |-> op], "lockList")
        OBVIOUS
      <4> QED BY <4>1, <4>2
    <3>2. CASE \E c : Start(p, c, "list")
      BY <3>2
    <3> QED BY <2>1, <3>1, <3>2 DEF StartWhole
  <2>2. CASE StartOnTask(p)
    <3>1. PICK i \in issued :
             \/ Start(p, [op |-> "delete", id |-> i], "readMark")
             \/ \E op \in {"claim", "busyclaim"} :
                   Start(p, [op |-> op, id |-> i], "claimCheck")
             \/ \E c : Start(p, c, "check")
             \/ \E c : Start(p, c, "reading")
      BY <2>2 DEF StartOnTask
    <3>2. CASE Start(p, [op |-> "delete", id |-> i], "readMark")
      <4>1. Way([op |-> "delete", id |-> i], "readMark")
        OBVIOUS
      <4> QED BY <3>2, <4>1
    <3>3. CASE \E op \in {"claim", "busyclaim"} :
                   Start(p, [op |-> op, id |-> i], "claimCheck")
      <4>1. PICK op \in {"claim", "busyclaim"} :
                   Start(p, [op |-> op, id |-> i], "claimCheck")
        BY <3>3
      <4>2. Way([op |-> op, id |-> i], "claimCheck")
        OBVIOUS
      <4> QED BY <4>1, <4>2
    <3>4. CASE \/ \E c : Start(p, c, "check")
               \/ \E c : Start(p, c, "reading")
      BY <3>4
    <3> QED BY <3>1, <3>2, <3>3, <3>4
  <2> QED BY <2>1, <2>2
<1>2. c.op # "delete"
  BY <1>1 DEF Start, NoDelete
<1>3. Types
  BY DEF IInv
<1>4. UNCHANGED <<there, mark, markTorn, issued, target, listLock>>
  BY <1>1 DEF Start, files, marks, locks, writes
<1>5. Types'
  <2>1. high' \in [Procs -> Int] /\ seenMark' \in [Procs -> Int]
    BY <1>1, <1>3 DEF Start, Types, Unknown
  <2>2. pc' = [q \in Procs |-> pc'[q]] /\ call' = [q \in Procs |-> call'[q]]
    BY <1>1, <1>3 DEF Start, Types, Goto
  <2> QED BY <1>3, <1>4, <2>1, <2>2 DEF Types
<1>6. Cover'
  BY <1>4 DEF IInv, Cover, Mark
<1>7. ASSUME NEW q \in Procs PROVE Stage(q)'
  <2>1. CASE q # p
    BY <1>1, <1>3, <1>4, <2>1, OtherStages DEF Start, Types, Goto
  <2>2. CASE q = p
    <3>1. /\ pc'[p] = l /\ call'[p] = c /\ high'[p] = Unknown /\ seenMark'[p] = Unknown
      BY <1>1, <1>3 DEF Start, Types, Goto
    <3> QED BY <1>1, <1>2, <2>2, <3>1 DEF Stage, Critical
  <2> QED BY <2>1, <2>2
<1> QED BY <1>5, <1>6, <1>7 DEF IInv

\* The lock of a dead session is nobody's business.
LEMMA Expiring ==
  ASSUME IInv, LockExpires
  PROVE  IInv'
<1>1. UNCHANGED <<there, mark, markTorn, issued, pc, call, high, seenMark, target>>
  BY DEF LockExpires, files, marks, reads, writes, ghosts
<1>2. Types' /\ Cover'
  BY <1>1 DEF IInv, Types, Cover, Mark
<1>3. ASSUME NEW q \in Procs PROVE Stage(q)'
  <2>1. Stage(q)
    BY DEF IInv
  <2>2. pc[q] \in Critical => listLock' = q
    BY <2>1 DEF Stage, LockExpires, Critical
  <2>3. Mark' = Mark /\ \A n : Covered(n)' <=> Covered(n)
    BY <1>1 DEF Mark, Covered
  <2> QED BY <1>1, <2>1, <2>2, <2>3 DEF Stage
<1> QED BY <1>2, <1>3 DEF IInv

\* Towards the lock: nothing but the session's place and the lock changes.
LEMMA Approaching ==
  ASSUME IInv, NEW p \in Procs,
         LockList(p) \/ ClaimCheck(p) \/ DecideAutoclear(p)
  PROVE  IInv'
<1>1. UNCHANGED <<there, mark, markTorn, issued, call, high, seenMark, target>>
  BY DEF LockList, ClaimCheck, DecideAutoclear, Then, files, marks, reads, writes, ghosts
<1>2. PICK l : Goto(p, l)
  BY DEF LockList, ClaimCheck, DecideAutoclear, Then
<1>3. Types /\ Stage(p)
  BY DEF IInv
<1>4. Types' /\ Cover'
  <2>1. pc' = [q \in Procs |-> pc'[q]]
    BY <1>2, <1>3 DEF Goto, Types
  <2> QED BY <1>1, <2>1 DEF IInv, Types, Cover, Mark
<1>5. ASSUME NEW q \in Procs, q # p PROVE Stage(q)'
  <2>1. pc'[q] = pc[q] /\ (listLock = q => listLock' = q)
    BY <1>2, <1>3, <1>5, TaskListAssumption
       DEF Goto, Types, LockList, ClaimCheck, DecideAutoclear, Then, locks
  <2> QED BY <1>1, <1>5, <2>1, OtherStages
<1>6. Stage(p)'
  <2>0. Mark' = Mark /\ \A n : Covered(n)' <=> Covered(n)
    BY <1>1 DEF Mark, Covered
  <2>1. CASE LockList(p)
    <3>1. /\ listLock' = p
          /\ \/ call[p].op = "create" /\ pc'[p] = "scan"
             \/ pc'[p] \in {"readHigh", "list"}
      BY <1>3, <2>1 DEF LockList, Stage, Types, Goto
    <3> QED BY <1>1, <1>3, <2>0, <2>1, <3>1 DEF Stage, Critical, LockList
  <2>2. CASE ClaimCheck(p)
    <3>1. pc'[p] \in {"idle", "lockTask"} \/ (pc'[p] = "lockList" /\ call[p].op = "busyclaim")
      BY <1>3, <2>2 DEF ClaimCheck, Stage, Types, Goto
    <3> QED BY <1>1, <1>3, <3>1 DEF Stage, Critical
  <2>3. CASE DecideAutoclear(p)
    <3>1. pc'[p] \in {"idle", "lockList"} /\ call[p].op = "autoclear"
      BY <1>3, <2>3 DEF DecideAutoclear, Read, Then, Types, Goto
    <3> QED BY <1>1, <1>3, <3>1 DEF Stage, Critical
  <2> QED BY <2>1, <2>2, <2>3
<1> QED BY <1>4, <1>5, <1>6 DEF IInv

\* The steps under the lock of the list.
LEMMA Inside ==
  ASSUME IInv, NEW p \in Procs, pc[p] \in Critical,
         \/ ScanDir(p) \/ ScanMark(p) \/ OpenNew(p) \/ ReadHigh(p) \/ ReadMark(p)
         \/ OpenMark(p) \/ FillMark(p) \/ SweepList(p) \/ (\E i \in Ids : Sweep(p, i))
  PROVE  IInv'
<1> USE DEF files, marks, locks, reads, writes, ghosts
<1>1. Types /\ Stage(p) /\ listLock = p /\ Cover /\ call[p].op # "delete"
  BY DEF IInv, Stage
<1>2. Highest \in there \cup {0} /\ Highest \in Int /\ \A i \in there : i <= Highest
  BY <1>1, HighestIsGreatest DEF Types, Ids
<1>3. Mark \in Nat /\ there \subseteq Int /\ issued \subseteq Int /\ MaxId \in Nat
      /\ high[p] \in Int /\ seenMark[p] \in Int
  BY <1>1, TaskListAssumption DEF Types, Ids, Mark, MaxId
<1>4. ASSUME Types', Cover', Stage(p)',
             \A q \in Procs \ {p} :
                /\ pc'[q] = pc[q] /\ call'[q] = call[q] /\ high'[q] = high[q]
                /\ seenMark'[q] = seenMark[q] /\ target'[q] = target[q]
      PROVE  IInv'
  BY <1>1, <1>4, OtherStages DEF IInv
<1>5. Covered(Highest)
  BY <1>1, <1>2, <1>3 DEF Cover, Covered
<1>6. CASE ScanDir(p)
  <2>1. UNCHANGED <<there, mark, markTorn, issued, pc, call, seenMark, target, listLock>>
        /\ high' = [high EXCEPT ![p] = Highest]
    BY <1>6 DEF ScanDir
  <2>2. Types' /\ Cover'
    BY <1>1, <1>2, <2>1 DEF Types, Cover, Mark
  <2>3. Stage(p)'
    BY <1>1, <1>5, <1>6, <2>1 DEF Stage, Covered, Mark, Types, ScanDir, Critical
  <2> QED BY <1>1, <1>4, <2>1, <2>2, <2>3 DEF Types
<1>7. CASE ScanMark(p)
  <2>1. UNCHANGED <<there, mark, markTorn, issued, pc, call, high, target, listLock>>
        /\ seenMark' = [seenMark EXCEPT ![p] = Mark]
    BY <1>7 DEF ScanMark
  <2>2. Types' /\ Cover'
    BY <1>1, <1>3, <2>1 DEF Types, Cover, Mark
  <2>3. Stage(p)'
    BY <1>1, <1>7, <2>1 DEF Stage, Covered, Mark, Types, ScanMark, Critical
  <2> QED BY <1>1, <1>4, <2>1, <2>2, <2>3 DEF Types
<1>8. CASE OpenNew(p)
  <2>1. UNCHANGED <<mark, markTorn, call, high, seenMark, listLock>>
        /\ there' = there \cup {NewId(p)} /\ issued' = issued \cup {NewId(p)}
        /\ NewId(p) \in Ids /\ pc' = [pc EXCEPT ![p] = "fill"]
        /\ target' = [target EXCEPT ![p] = NewId(p)]
    BY <1>8 DEF OpenNew, Open, Goto
  <2>2. Types'
    BY <1>1, <2>1 DEF Types, Ids
  <2>3. Cover'
    BY <1>1, <1>3, <2>1 DEF Cover, Mark, Ids
  <2>4. Stage(p)'
    BY <1>1, <2>1 DEF Stage, Types, Critical
  <2> QED BY <1>1, <1>4, <2>1, <2>2, <2>3, <2>4 DEF Types
<1>9. CASE ReadHigh(p)
  <2>1. UNCHANGED <<there, mark, markTorn, issued, call, seenMark, target, listLock>>
        /\ high' = [high EXCEPT ![p] = Highest]
        /\ pc' = [pc EXCEPT ![p] = IF Highest > 0 THEN "readMark" ELSE "sweepList"]
    BY <1>9 DEF ReadHigh, Goto
  <2>2. Types' /\ Cover'
    BY <1>1, <1>2, <2>1 DEF Types, Cover, Mark
  <2>3. Highest > 0 => Highest \in there
    BY <1>2
  <2>4. ~(Highest > 0) => \A i \in issued : i <= Mark
    BY <1>2, <1>3, <1>1 DEF Cover, Types, Ids
  <2>5. Stage(p)'
    BY <1>1, <1>5, <2>1, <2>3, <2>4 DEF Stage, Covered, Mark, Types, Critical
  <2> QED BY <1>1, <1>4, <2>1, <2>2, <2>5 DEF Types
<1>10. CASE ReadMark(p)
  <2>1. UNCHANGED <<there, mark, markTorn, issued, call, high, seenMark, target, listLock>>
        /\ pc[p] = "readMark"
        /\ pc' = [pc EXCEPT ![p] = IF high[p] > Mark THEN "openMark" ELSE "sweepList"]
    BY <1>1, <1>10 DEF ReadMark, Goto, Wants, Marked
  <2>2. Types' /\ Cover'
    BY <1>1, <2>1 DEF Types, Cover, Mark
  <2>3. ~(high[p] > Mark) => \A i \in issued : i <= Mark
    BY <1>1, <1>3, <2>1 DEF Stage, Covered
  <2>4. Stage(p)'
    BY <1>1, <1>3, <2>1, <2>3 DEF Stage, Covered, Mark, Types, Critical
  <2> QED BY <1>1, <1>4, <2>1, <2>2, <2>4 DEF Types
<1>11. CASE OpenMark(p)
  <2>1. UNCHANGED <<there, mark, issued, call, high, seenMark, target, listLock>>
        /\ pc[p] = "openMark" /\ pc' = [pc EXCEPT ![p] = "fillMark"] /\ markTorn' = TRUE
    BY <1>11 DEF OpenMark, Goto
  <2>2. \A i \in issued : i <= high[p]
    BY <1>1, <1>3, <2>1 DEF Stage, Covered
  <2>3. high[p] \in there
    BY <1>1, <2>1 DEF Stage
  <2>4. Types' /\ Cover'
    BY <1>1, <2>1, <2>2, <2>3 DEF Types, Cover
  <2>5. Stage(p)'
    BY <1>1, <2>1, <2>2, <2>3 DEF Stage, Types, Critical
  <2> QED BY <1>1, <1>4, <2>1, <2>4, <2>5 DEF Types
<1>12. CASE FillMark(p)
  <2>1. UNCHANGED <<there, issued, call, high, seenMark, target, listLock>>
        /\ pc[p] = "fillMark" /\ pc' = [pc EXCEPT ![p] = "sweepList"]
        /\ markTorn' = FALSE /\ mark' = high[p]
    BY <1>1, <1>12 DEF FillMark, Goto, Wants, Marked
  <2>2. high[p] \in there /\ \A i \in issued : i <= high[p]
    BY <1>1, <2>1 DEF Stage
  <2>3. Mark' = high[p]
    BY <2>1 DEF Mark
  <2>4. Types' /\ Cover'
    <3>1. high[p] \in Nat
      BY <1>1, <1>3, <2>2 DEF Types, Ids
    <3>2. Types'
      BY <1>1, <2>1, <3>1 DEF Types
    <3>3. Cover'
      BY <2>1, <2>2, <2>3 DEF Cover
    <3> QED BY <3>2, <3>3
  <2>5. Stage(p)'
    BY <1>1, <2>1, <2>2, <2>3 DEF Stage, Types, Critical
  <2> QED BY <1>1, <1>4, <2>1, <2>4, <2>5 DEF Types
<1>13. CASE SweepList(p)
  <2>1. UNCHANGED <<there, mark, markTorn, issued, call, high, seenMark, target, listLock>>
        /\ pc[p] = "sweepList" /\ pc' = [pc EXCEPT ![p] = "sweep"]
    BY <1>13 DEF SweepList, Goto
  <2>2. Types' /\ Cover'
    BY <1>1, <2>1 DEF Types, Cover, Mark
  <2>3. Stage(p)'
    BY <1>1, <2>1 DEF Stage, Mark, Types, Critical
  <2> QED BY <1>1, <1>4, <2>1, <2>2, <2>3 DEF Types
<1>14. CASE \E i \in Ids : Sweep(p, i)
  <2>1. UNCHANGED <<mark, markTorn, issued, call, pc, high, seenMark, target, listLock>>
        /\ pc[p] = "sweep" /\ there' \subseteq there
    BY <1>14 DEF Sweep, Unlink
  <2>2. \A i \in issued : i <= Mark
    BY <1>1, <2>1 DEF Stage
  <2>3. Types' /\ Cover'
    BY <1>1, <2>1, <2>2 DEF Types, Cover, Mark
  <2>4. Stage(p)'
    BY <1>1, <2>1 DEF Stage, Mark, Types, Critical
  <2> QED BY <1>1, <1>4, <2>1, <2>3, <2>4 DEF Types
<1> QED
  BY <1>6, <1>7, <1>8, <1>9, <1>10, <1>11, <1>12, <1>13, <1>14

-----------------------------------------------------------------------------
LEMMA NextIInv ==
  ASSUME NoDelete, IInv, [Next]_vars
  PROVE  IInv'
<1>1. CASE LockExpires
  BY <1>1, Expiring
<1>2. ASSUME NEW p \in Procs, StartWhole(p) \/ StartOnTask(p) \/ Work(p) \/ GiveUp(p) \/ Crash(p)
      PROVE  IInv'
  <2>1. CASE StartWhole(p) \/ StartOnTask(p)
    BY <2>1, Starting
  <2>2. CASE ~(StartWhole(p) \/ StartOnTask(p))
    <3>1. call[p].op # "delete" /\ pc[p] # "remove"
      BY DEF IInv, Stage
    <3>2. ~DecideDelete(p) /\ ~RemoveFile(p)
      BY <3>1 DEF DecideDelete, RemoveFile, Read
    <3>3. CASE ScanDir(p) \/ ScanMark(p) \/ OpenNew(p) \/ ReadHigh(p) \/ ReadMark(p)
               \/ OpenMark(p) \/ FillMark(p) \/ SweepList(p) \/ (\E i \in Ids : Sweep(p, i))
      <4>1. pc[p] \in Critical
        BY <3>3 DEF ScanDir, ScanMark, OpenNew, ReadHigh, ReadMark, OpenMark,
                    FillMark, SweepList, Sweep, Critical
      <4> QED BY <3>3, <4>1, Inside
    <3>4. CASE LockList(p) \/ ClaimCheck(p) \/ DecideAutoclear(p)
      BY <3>4, Approaching
    <3> QED BY <1>2, <2>2, <3>2, <3>3, <3>4, Quieter DEF Work, GiveUp
  <2> QED BY <2>1, <2>2
<1>3. CASE UNCHANGED vars
  <2>1. UNCHANGED <<there, mark, markTorn, issued, pc, call, high, seenMark, target, listLock>>
    BY <1>3 DEF vars, files, marks, locks, reads, writes, ghosts
  <2> QED BY <2>1 DEF IInv, Types, Cover, Stage, Covered, Mark
<1> QED BY <1>1, <1>2, <1>3 DEF Next

(* The directory and the mark account for every id that was given out: see *)
(* MarkCovers.  The lock of the list is what resetTaskList and createTask  *)
(* hold; here no session deletes single tasks.                             *)
THEOREM MarkCoversAlways ==
  ASSUME NoDelete
  PROVE  Spec => []MarkCovers
<1>1. IInv => MarkCovers
  <2> SUFFICES ASSUME IInv, NEW i \in issued PROVE i <= Larger(Highest, Mark)
    BY DEF MarkCovers
  <2>1. there \subseteq Ids /\ i \in Int /\ Mark \in Int /\ there \subseteq Int
    BY DEF IInv, Types, Ids, Mark
  <2>2. Highest \in Int /\ \A j \in there : j <= Highest
    <3>1. Highest \in there \cup {0} /\ \A j \in there : j <= Highest
      BY <2>1, HighestIsGreatest, Zenon
    <3> QED BY <2>1, <3>1
  <2>3. i <= Mark \/ \E j \in there : i <= j
    BY DEF IInv, Cover
  <2> QED BY <2>1, <2>2, <2>3 DEF Larger
<1> QED BY <1>1, InitIInv, NextIInv, PTL DEF Spec

\* The id that createTask hands out was never used.
LEMMA FreshId ==
  ASSUME IInv, NEW p \in Procs, OpenNew(p)
  PROVE  NewId(p) \notin issued
<1>1. Stage(p) /\ high[p] \in Int /\ seenMark[p] \in Int /\ issued \subseteq Int
  BY DEF IInv, Types, Ids
<1>2. Covered(high[p]) /\ seenMark[p] = Mark
  BY <1>1 DEF Stage, OpenNew
<1>3. ASSUME NEW i \in issued PROVE i < NewId(p)
  <2>1. i <= seenMark[p] \/ i <= high[p]
    BY <1>2 DEF Covered
  <2>2. NewId(p) = (IF high[p] > seenMark[p] THEN high[p] ELSE seenMark[p]) + 1
    BY DEF NewId, Larger
  <2>3. i \in Int /\ high[p] \in Int /\ seenMark[p] \in Int
    BY <1>1
  <2> QED BY <2>1, <2>2, <2>3
<1>4. ASSUME NewId(p) \in issued PROVE FALSE
  <2>1. NewId(p) \in Int /\ NewId(p) < NewId(p)
    BY <1>1, <1>3, <1>4
  <2> QED BY <2>1
<1> QED BY <1>4

(* createTask never gives out an id again: see FreshIds. *)
THEOREM IdsAreFresh ==
  ASSUME NoDelete
  PROVE  Spec => FreshIds
<1>1. ASSUME IInv, Next, NEW p \in Procs, pc[p] = "scan", pc'[p] = "fill"
      PROVE  NewId(p) \notin issued
  <2>1. pc = [q \in Procs |-> pc[q]]
    BY <1>1 DEF IInv, Types
  <2>2. PICK q \in Procs :
           StartWhole(q) \/ StartOnTask(q) \/ Work(q) \/ GiveUp(q) \/ Crash(q)
    <3>1. ~LockExpires
      BY <1>1 DEF LockExpires
    <3> QED BY <1>1, <3>1 DEF Next
  <2>3. (\E l : Goto(q, l)) \/ UNCHANGED pc
    <3> HIDE DEF Goto
    <3>1. CASE StartWhole(q) \/ StartOnTask(q)
      BY <3>1 DEF StartWhole, StartOnTask, Start
    <3>2. CASE GiveUp(q) \/ Crash(q)
      BY <3>2 DEF GiveUp, ListLockFails, TaskLockFails, Crash
    <3>3. CASE Work(q)
      BY <3>3 DEF Work, LockList, UnlockList, LockTask, UnlockTask, ScanDir,
         ScanMark, OpenNew, Open, Check, Reread, OpenOld, Fill, List, ReadTask,
         DecideClaim, DecideBusyClaim, DecideDelete, DecideUnassign, DecideBlock,
         DecideAutoclear, UpdateEach, Then, ClaimCheck, Inspect, ReadHigh, ReadMark, OpenMark,
         FillMark, SweepList, Sweep, Swept, RemoveFile
    <3> QED BY <2>2, <3>1, <3>2, <3>3
  <2>4. q = p
    BY <1>1, <2>1, <2>3 DEF Goto
  <2>5. OpenNew(p)
    <3>1. ~StartWhole(p) /\ ~StartOnTask(p)
      BY <1>1 DEF StartWhole, StartOnTask, Start
    <3>2. ~GiveUp(p) /\ ~Crash(p)
      BY <1>1, <2>1 DEF GiveUp, ListLockFails, TaskLockFails, Crash, Goto
    <3>3. ~ScanDir(p) /\ ~ScanMark(p)
      BY <1>1 DEF ScanDir, ScanMark
    <3>4. Work(p)
      BY <2>2, <2>4, <3>1, <3>2
    <3> QED BY <1>1, <3>3, <3>4 DEF Work, LockList, UnlockList, LockTask,
         UnlockTask, Check, Reread, OpenOld, Fill, List, ReadTask,
         DecideClaim, DecideBusyClaim, DecideDelete, DecideUnassign, DecideBlock,
         DecideAutoclear, Read, ClaimCheck, Inspect, ReadHigh, ReadMark, OpenMark,
         FillMark, SweepList, Sweep, Swept, RemoveFile
  <2> QED BY <1>1, <2>5, FreshId
<1>2. IInv /\ [Next]_vars => [\A p \in Procs : pc[p] = "scan" /\ pc'[p] = "fill"
                                  => NewId(p) \notin issued]_vars
  BY <1>1
<1> QED BY <1>2, InitIInv, NextIInv, PTL DEF Spec, FreshIds

-----------------------------------------------------------------------------
(***************************************************************************)
(* Who has a task.  What a session is about to write is the task it read   *)
(* under the lock of the file, with the caller's changes; and nobody else  *)
(* writes the file while it holds that lock, but a session that is         *)
(* creating the task, whose file nobody can read yet.                      *)
(***************************************************************************)
Patch == [owner: Procs \cup {NoProc}] \cup [status: Statuses]
         \cup [owner: Procs \cup {NoProc}, status: Statuses]
         \cup [blocks: SUBSET Ids] \cup [blockedBy: SUBSET Ids]
         \cup [blocks: SUBSET Ids, blockedBy: SUBSET Ids]
Entry == [id: issued, patch: Patch]

\* The session has a new task's file open, or has read the task that it is
\* about to write, or holds the lock of a task's file.
Creating(p) == pc[p] = "fill" /\ call[p].op = "create"
Writing(p) == pc[p] = "open" \/ (pc[p] = "fill" /\ call[p].op # "create")
Within(p) ==
    \/ pc[p] \in {"inspect", "reread"} \/ Writing(p)
    \/ pc[p] \in {"list", "reading"} /\ call[p].op = "claim"

FilesSound ==
    /\ torn \subseteq there /\ there \subseteq issued /\ issued \subseteq Ids
    /\ task \in [Ids -> Task] /\ holder \in [Ids -> Procs \cup {NoProc}]
    /\ \A i \in Ids \ issued : task[i] = NewTask /\ holder[i] = NoProc

ScalarsSound ==
    /\ mark \in 0..MaxId /\ markTorn \in BOOLEAN
    /\ high \in [Procs -> {Unknown} \cup 0..MaxId]
    /\ seenMark \in [Procs -> {Unknown} \cup 0..MaxId]
    /\ overlapped \in BOOLEAN

LocksSound ==
    /\ listLock \in Procs \cup {NoProc}
    /\ taskLock \in [Ids -> Procs \cup {NoProc}]

ReadsSound ==
    /\ unread \in [Procs -> SUBSET issued]
    /\ snap = [p \in Procs |-> snap[p]]
    /\ \A p \in Procs : /\ DOMAIN snap[p] \subseteq issued
                         /\ snap[p] \in [DOMAIN snap[p] -> Task]

WritesSound ==
    /\ todo \in [Procs -> Seq(Entry)]
    /\ target \in [Procs -> 0..MaxId]
    /\ buf \in [Procs -> Task]
    /\ linked \in [Procs -> BOOLEAN]

Sound == FilesSound /\ ScalarsSound /\ LocksSound /\ ReadsSound /\ WritesSound

\* What each session knows at each of its steps.
Careful(p) ==
    /\ call[p].op \in Menu \cup {"none"}
    /\ Claims(p) => call[p].id \in issued
    /\ call[p].op = "block" => call[p].from \in issued /\ call[p].to \in issued
    /\ pc[p] = "scan" => call[p].op = "create"
    /\ pc[p] = "inspect" => call[p].op = "claim"
    /\ pc[p] = "check" => call[p].op # "claim"
    /\ call[p].op = "create" =>
          /\ pc[p] \notin {"check", "lockTask", "reread", "open", "list", "reading"}
          /\ todo[p] = <<>>
    /\ todo[p] # <<>> =>
          pc[p] \in {"check", "lockTask", "reread", "open", "fill", "unlockTask", "dead"}
    /\ pc[p] \in {"check", "reread"} \/ Writing(p) => todo[p] # <<>>
    /\ pc[p] = "lockTask" => (todo[p] = <<>> <=> call[p].op = "claim")
    /\ Claims(p) /\ todo[p] # <<>> =>
          todo[p] = <<[id |-> call[p].id, patch |-> [owner |-> p]]>>
    /\ \A k \in DOMAIN todo[p] : "status" \in DOMAIN todo[p][k].patch =>
          call[p].op \in {"update", "unassign"}
    /\ Within(p) => taskLock[Locking(p)] = p
    /\ Within(p) /\ pc[p] # "inspect" /\ call[p].op = "claim" =>
          task[call[p].id].owner \in {NoProc, p}
    /\ Writing(p) => /\ target[p] = Locking(p)
                     /\ buf[p] = Merge(Head(todo[p]).patch, task[target[p]])
    /\ linked[p] => pc[p] \in {"fill", "dead"} /\ target[p] \in there
    /\ Creating(p) =>
          /\ listLock = p /\ target[p] \in torn
          /\ task[target[p]] = NewTask /\ buf[p] = NewTask

Apart ==
    \A p, q \in Procs : Creating(p) /\ (Within(q) \/ pc[q] = "lockTask")
                           => Locking(q) # target[p]

\* What a merge writes.
LEMMA Merged ==
  ASSUME NEW patch \in Patch, NEW old \in Task
  PROVE  /\ Merge(patch, old) \in Task
         /\ "owner" \notin DOMAIN patch => Merge(patch, old).owner = old.owner
         /\ "status" \notin DOMAIN patch => Merge(patch, old).status = old.status
         /\ "owner" \in DOMAIN patch => Merge(patch, old).owner = patch.owner
<1> DEFINE m == Merge(patch, old)
<1>1. m = [x \in DOMAIN patch \cup DOMAIN old |->
                 IF x \in DOMAIN patch THEN patch[x] ELSE old[x]]
  BY DEF Merge
<1>2. DOMAIN old = {"owner", "status", "blocks", "blockedBy"}
  BY DEF Task
<1>3. DOMAIN patch \subseteq DOMAIN old
  BY <1>2 DEF Patch
<1>4. \A x \in DOMAIN old : m[x] = IF x \in DOMAIN patch THEN patch[x] ELSE old[x]
  BY <1>1
<1>5. /\ "owner" \in DOMAIN patch => patch.owner \in Procs \cup {NoProc}
      /\ "status" \in DOMAIN patch => patch.status \in Statuses
      /\ "blocks" \in DOMAIN patch => patch.blocks \in SUBSET Ids
      /\ "blockedBy" \in DOMAIN patch => patch.blockedBy \in SUBSET Ids
  BY DEF Patch
<1>6. m = [owner |-> m.owner, status |-> m.status,
           blocks |-> m.blocks, blockedBy |-> m.blockedBy]
  BY <1>1, <1>2, <1>3
<1>7. /\ m.owner \in Procs \cup {NoProc} /\ m.status \in Statuses
      /\ m.blocks \in SUBSET Ids /\ m.blockedBy \in SUBSET Ids
  BY <1>2, <1>4, <1>5 DEF Task
<1>8. m \in Task
  <2> HIDE DEF m
  <2> QED BY <1>6, <1>7 DEF Task
<1> QED BY <1>2, <1>4, <1>8

LEMMA NewTaskIsTask == NewTask \in Task
BY DEF NewTask, Task, Statuses

\* What no step of an action touches stays sound.
LEMMA Kept ==
  ASSUME Sound
  PROVE  /\ UNCHANGED <<there, torn, task, issued, holder>> => FilesSound'
         /\ UNCHANGED <<mark, markTorn, high, seenMark, overlapped>> => ScalarsSound'
         /\ UNCHANGED <<listLock, taskLock>> => LocksSound'
         /\ UNCHANGED <<unread, snap, issued>> => ReadsSound'
         /\ UNCHANGED <<todo, target, buf, linked, issued>> => WritesSound'
<1>1. UNCHANGED <<there, torn, task, issued, holder>> => FilesSound'
  BY DEF Sound, FilesSound
<1>2. UNCHANGED <<mark, markTorn, high, seenMark, overlapped>> => ScalarsSound'
  BY DEF Sound, ScalarsSound
<1>3. UNCHANGED <<listLock, taskLock>> => LocksSound'
  BY DEF Sound, LocksSound
<1>4. UNCHANGED <<unread, snap, issued>> => ReadsSound'
  BY DEF Sound, ReadsSound
<1>5. UNCHANGED <<todo, target, buf, linked, issued>> => WritesSound'
  BY DEF Sound, WritesSound, Entry
<1> QED BY <1>1, <1>2, <1>3, <1>4, <1>5

LEMMA InitSound == Init => Sound
<1> SUFFICES ASSUME Init PROVE Sound
  OBVIOUS
<1> USE TaskListAssumption DEF Init
<1>1. 1..Initial \subseteq Ids /\ MaxId \in Nat
  BY DEF Ids, MaxId
<1>2. FilesSound
  BY <1>1, NewTaskIsTask DEF FilesSound
<1>3. ScalarsSound
  <2>0. mark \in 0..MaxId
    BY <1>1
  <2>1. markTorn \in BOOLEAN /\ overlapped \in BOOLEAN
    BY Zenon
  <2>2. /\ high \in [Procs -> {Unknown} \cup 0..MaxId]
        /\ seenMark \in [Procs -> {Unknown} \cup 0..MaxId]
    OBVIOUS
  <2> QED BY <2>0, <2>1, <2>2 DEF ScalarsSound
<1>4. LocksSound
  BY DEF LocksSound
<1>5. ReadsSound
  <2>1. DOMAIN <<>> = {}
    OBVIOUS
  <2>2. <<>> \in [{} -> Task]
    OBVIOUS
  <2> QED BY <2>1, <2>2 DEF ReadsSound
<1>6. WritesSound
  <2>1. <<>> \in Seq(Entry)
    OBVIOUS
  <2> QED BY <1>1, <2>1, NewTaskIsTask DEF WritesSound
<1> QED BY <1>2, <1>3, <1>4, <1>5, <1>6 DEF Sound

\* A call starts.
LEMMA StartingSound ==
  ASSUME Sound, NEW p \in Procs, StartWhole(p) \/ StartOnTask(p)
  PROVE  Sound'
<1> USE DEF files, marks, locks, reads, writes, ghosts
<1>1. PICK c, l : Start(p, c, l)
  BY Zenon DEF StartWhole, StartOnTask
<1>2. /\ UNCHANGED <<there, torn, task, issued, holder, mark, markTorn,
                     listLock, taskLock, target, buf, linked>>
      /\ snap' = [snap EXCEPT ![p] = <<>>]
      /\ high' = [high EXCEPT ![p] = Unknown]
      /\ seenMark' = [seenMark EXCEPT ![p] = Unknown]
      /\ overlapped' \in BOOLEAN
  BY <1>1 DEF Start, Sound, ScalarsSound
<1>3. FilesSound' /\ LocksSound'
  BY <1>2, Kept
<1>4. ScalarsSound'
  BY <1>2 DEF Sound, ScalarsSound
<1>5. ReadsSound'
  <2>1. unread' \in [Procs -> SUBSET issued]
    <3>1. CASE UNCHANGED unread
      BY <3>1 DEF Sound, ReadsSound
    <3>2. CASE \E i \in issued, j \in issued : unread' = [unread EXCEPT ![p] = {i, j}]
      <4>1. PICK i \in issued, j \in issued : unread' = [unread EXCEPT ![p] = {i, j}]
        BY <3>2
      <4>2. {i, j} \subseteq issued
        OBVIOUS
      <4> QED BY <4>1, <4>2 DEF Sound, ReadsSound
    <3> QED BY <3>1, <3>2 DEF StartWhole, StartOnTask
  <2>2. snap' = [q \in Procs |-> IF q = p THEN <<>> ELSE snap[q]]
    BY <1>2 DEF Sound, ReadsSound
  <2>3. DOMAIN <<>> = {} /\ <<>> \in [{} -> Task]
    OBVIOUS
  <2> QED BY <1>2, <2>1, <2>2, <2>3 DEF Sound, ReadsSound
<1>6. WritesSound'
  <2>1. todo' \in [Procs -> Seq(Entry)]
    <3>1. CASE UNCHANGED todo
      BY <3>1 DEF Sound, WritesSound
    <3>2. CASE \E i \in issued : \E u \in Updates(i) :
                  todo' = [todo EXCEPT ![p] = <<[id |-> i, patch |-> u]>>]
      <4>1. PICK i \in issued : \E u \in Updates(i) :
                  todo' = [todo EXCEPT ![p] = <<[id |-> i, patch |-> u]>>]
        BY <3>2
      <4>11. PICK u \in Updates(i) :
                  todo' = [todo EXCEPT ![p] = <<[id |-> i, patch |-> u]>>]
        BY <4>1
      <4>2. u \in Patch
        BY DEF Updates, Patch, Statuses
      <4>3. [id |-> i, patch |-> u] \in Entry
        BY <4>2 DEF Entry
      <4>4. <<[id |-> i, patch |-> u]>> \in Seq(Entry)
        BY <4>3
      <4> QED BY <4>11, <4>4 DEF Sound, WritesSound
    <3> QED BY <3>1, <3>2 DEF StartWhole, StartOnTask
  <2>2. Entry' = Entry
    BY <1>2 DEF Entry
  <2> QED BY <1>2, <2>1, <2>2 DEF Sound, WritesSound
<1> QED BY <1>3, <1>4, <1>5, <1>6 DEF Sound

\* The updates that are left when the first one has been dealt with.
LEMMA Rest ==
  ASSUME NEW T, NEW s \in Seq(T), s # <<>>
  PROVE  /\ Head(s) \in T /\ Head(s) = s[1] /\ 1 \in DOMAIN s
         /\ Tail(s) \in Seq(T)
         /\ \A k \in DOMAIN Tail(s) : k + 1 \in DOMAIN s /\ Tail(s)[k] = s[k + 1]
BY HeadTailProperties, EmptySeq

\* A session's call sees to it that the file it writes was given to a task.
LEMMA LockingIssued ==
  ASSUME Sound, NEW p \in Procs, Careful(p), Within(p) \/ pc[p] = "lockTask"
  PROVE  Locking(p) \in issued
<1>1. CASE call[p].op = "claim"
  BY <1>1 DEF Careful, Claims, Locking
<1>2. CASE call[p].op # "claim"
  <2>1. todo[p] # <<>> /\ todo[p] \in Seq(Entry)
    BY <1>2 DEF Careful, Within, Sound, WritesSound
  <2>2. Head(todo[p]) \in Entry
    BY <2>1, Rest
  <2> QED BY <1>2, <2>2 DEF Locking, Entry
<1> QED BY <1>1, <1>2

LEMMA CreatingSound ==
  ASSUME Sound, NEW p \in Procs, OpenNew(p)
  PROVE  Sound'
<1> DEFINE n == NewId(p)
<1>1. /\ UNCHANGED <<task, mark, markTorn, listLock, taskLock, holder, unread, snap,
                     high, seenMark, todo, overlapped>>
      /\ there' = there \cup {n} /\ torn' = torn \cup {n}
      /\ issued' = issued \cup {n} /\ n \in Ids
      /\ linked' = [linked EXCEPT ![p] = TRUE]
      /\ target' = [target EXCEPT ![p] = n]
      /\ buf' = [buf EXCEPT ![p] = NewTask]
  BY DEF OpenNew, Open, marks, locks, reads
<1> HIDE DEF n
<1>2. FilesSound'
  BY <1>1 DEF Sound, FilesSound
<1>3. ScalarsSound' /\ LocksSound'
  BY <1>1, Kept
<1>4. ReadsSound'
  <2>1. unread' \in [Procs -> SUBSET issued']
    BY <1>1 DEF Sound, ReadsSound
  <2> QED BY <1>1, <2>1 DEF Sound, ReadsSound
<1>5. WritesSound'
  <2>1. Entry \subseteq Entry'
    BY <1>1 DEF Entry
  <2>2. \A q \in Procs : todo[q] \in Seq(Entry')
    <3>1. ASSUME NEW q \in Procs PROVE todo[q] \in Seq(Entry')
      <4> HIDE DEF Entry
      <4>1. todo[q] \in Seq(Entry)
        BY DEF Sound, WritesSound
      <4>2. \A k \in 1..Len(todo[q]) : todo[q][k] \in Entry'
        BY <2>1, <4>1
      <4> QED BY <4>1, <4>2
    <3> QED BY <3>1
  <2>3. todo' \in [Procs -> Seq(Entry')]
    BY <1>1, <2>2 DEF Sound, WritesSound
  <2>4. n \in 0..MaxId
    BY <1>1 DEF Ids
  <2> QED BY <1>1, <2>3, <2>4, NewTaskIsTask DEF Sound, WritesSound
<1> QED BY <1>2, <1>3, <1>4, <1>5 DEF Sound

\* The steps that write a task's file.
LEMMA WritingSound ==
  ASSUME Sound, NEW p \in Procs, Careful(p), Reread(p) \/ OpenOld(p) \/ Fill(p)
  PROVE  Sound'
<1> USE DEF files, marks, locks, reads, ghosts
<1>1. CASE Reread(p)
  <2>1. UNCHANGED <<there, torn, task, mark, markTorn, listLock, taskLock, todo,
                    unread, snap, high, seenMark, linked, issued, holder, overlapped>>
    BY <1>1 DEF Reread
  <2>2. todo[p] # <<>> /\ todo[p] \in Seq(Entry)
    BY <1>1 DEF Careful, Sound, WritesSound, Reread
  <2>3. Head(todo[p]) \in Entry
    BY <2>2, Rest
  <2>4. Head(todo[p]).id \in Ids /\ Head(todo[p]).patch \in Patch
    BY <2>3 DEF Entry, Sound, FilesSound
  <2>5. Merge(Head(todo[p]).patch, task[Head(todo[p]).id]) \in Task
    <3>1. task[Head(todo[p]).id] \in Task
      BY <2>4 DEF Sound, FilesSound
    <3> QED BY <2>4, <3>1, Merged
  <2>6. target' \in [Procs -> 0..MaxId] /\ buf' \in [Procs -> Task]
    <3> DEFINE i == Head(todo[p]).id
               b == Merge(Head(todo[p]).patch, task[i])
    <3>1. \/ target' = [target EXCEPT ![p] = i] /\ buf' = [buf EXCEPT ![p] = b]
          \/ UNCHANGED <<target, buf>>
      BY <1>1 DEF Reread
    <3>2. i \in 0..MaxId /\ b \in Task
      BY <2>4, <2>5 DEF Ids
    <3> HIDE DEF i, b
    <3> QED BY <3>1, <3>2 DEF Sound, WritesSound
  <2>7. WritesSound'
    BY <2>1, <2>6 DEF Sound, WritesSound, Entry
  <2> QED BY <2>1, <2>7, Kept DEF Sound
<1>2. CASE OpenOld(p)
  <2>1. /\ UNCHANGED <<task, mark, markTorn, listLock, taskLock, todo, target, buf,
                       unread, snap, high, seenMark, issued, holder, overlapped>>
        /\ there' = there \cup {target[p]} /\ torn' = torn \cup {target[p]}
        /\ linked' = [linked EXCEPT ![p] = TRUE]
    BY <1>2 DEF OpenOld, Open
  <2>2. target[p] \in issued
    BY <1>2, LockingIssued DEF OpenOld, Careful, Within, Writing
  <2>3. FilesSound'
    BY <2>1, <2>2 DEF Sound, FilesSound
  <2>4. WritesSound'
    BY <2>1 DEF Sound, WritesSound, Entry
  <2> QED BY <2>1, <2>3, <2>4, Kept DEF Sound
<1>3. CASE Fill(p)
  <2>1. /\ UNCHANGED <<there, mark, markTorn, listLock, taskLock, todo, target, buf,
                       unread, snap, high, seenMark, issued, overlapped>>
        /\ linked' = [linked EXCEPT ![p] = FALSE]
    BY <1>3 DEF Fill
  <2>2. FilesSound'
    <3>1. CASE linked[p]
      <4>1. target[p] \in there /\ buf[p] \in Task
        BY <3>1 DEF Careful, Sound, WritesSound
      <4>2. /\ task' = [task EXCEPT ![target[p]] = buf[p]]
            /\ torn' = torn \ {target[p]}
        BY <1>3, <3>1 DEF Fill
      <4>3. /\ holder' \in [Ids -> Procs \cup {NoProc}]
            /\ \A i \in Ids : holder[i] = NoProc => holder'[i] = NoProc
        BY <1>3, <3>1 DEF Fill, Sound, FilesSound
      <4> QED BY <2>1, <4>1, <4>2, <4>3 DEF Sound, FilesSound
    <3>2. CASE ~linked[p]
      BY <1>3, <2>1, <3>2 DEF Fill, Sound, FilesSound
    <3> QED BY <3>1, <3>2
  <2>3. WritesSound'
    BY <2>1 DEF Sound, WritesSound, Entry
  <2> QED BY <2>1, <2>2, <2>3, Kept DEF Sound
<1> QED BY <1>1, <1>2, <1>3

\* What a session still has to update is well formed.
LEMMA TodoSound ==
  ASSUME Sound, NEW p \in Procs, NEW us \in Seq(Entry),
         todo' = [todo EXCEPT ![p] = us],
         UNCHANGED <<there, torn, task, issued, mark, markTorn, high, seenMark,
                     overlapped, listLock, unread, snap, target, buf, linked>>,
         UNCHANGED holder \/ FilesSound',
         taskLock' \in [Ids -> Procs \cup {NoProc}]
  PROVE  Sound'
<1>1. LocksSound'
  BY DEF Sound, LocksSound
<1>2. WritesSound'
  <2>1. Entry' = Entry
    BY DEF Entry
  <2> HIDE DEF Entry
  <2> QED BY <2>1 DEF Sound, WritesSound
<1> QED BY <1>1, <1>2, Kept DEF Sound

\* A claim is answered.
LEMMA ToldSound ==
  ASSUME Sound, NEW p \in Procs, Careful(p), UNCHANGED <<there, torn, task, issued>>,
         holder' = Told(p)
  PROVE  FilesSound'
<1>1. Claims(p) => call[p].id \in issued
  BY DEF Careful
<1> QED BY <1>1 DEF Sound, FilesSound, Told

\* An update of each task that there is a patch for.
Serves(us, patches) ==
    /\ \A k \in DOMAIN us : \E i \in DOMAIN patches :
          us[k] = [id |-> i, patch |-> patches[i]]
    /\ \A i \in DOMAIN patches : \E k \in DOMAIN us :
          us[k] = [id |-> i, patch |-> patches[i]]
    /\ \A T : (\A k \in DOMAIN us : us[k] \in T) => us \in Seq(T)

LEMMA EachTask ==
  ASSUME NEW p \in Procs, NEW patches, UpdateEach(p, patches), DOMAIN patches \subseteq Ids
  PROVE  \E us : Then(p, us, Resume(p, us)) /\ Serves(us, patches)
<1> DEFINE ids == DOMAIN patches
           n == Cardinality(ids)
<1>1. n \in Nat
  <2>1. MaxId \in Int
    BY TaskListAssumption DEF MaxId
  <2>2. IsFiniteSet(1..MaxId) /\ ids \in SUBSET (1..MaxId)
    BY <2>1, FS_Interval DEF Ids
  <2>3. IsFiniteSet(ids)
    BY <2>2, FS_Subset
  <2> QED BY <2>3, FS_CardinalityType
<1>2. PICK order \in Bijection(1..n, ids) :
         LET us == [k \in DOMAIN order |-> [id |-> order[k], patch |-> patches[order[k]]]]
         IN  Then(p, us, Resume(p, us))
  BY Zenon DEF UpdateEach
<1> HIDE DEF n
<1>3. DOMAIN order = 1..n /\ (\A k \in 1..n : order[k] \in ids) /\ \A i \in ids : \E k \in 1..n : order[k] = i
  BY <1>2 DEF Bijection, Injection, Surjection
<1> DEFINE us == [k \in DOMAIN order |-> [id |-> order[k], patch |-> patches[order[k]]]]
<1>4. /\ Then(p, us, Resume(p, us)) /\ DOMAIN us = 1..n
      /\ \A k \in 1..n : us[k] = [id |-> order[k], patch |-> patches[order[k]]]
  BY <1>2, <1>3
<1>5. ASSUME NEW T, \A k \in DOMAIN us : us[k] \in T PROVE us \in Seq(T)
  <2>1. us = [k \in 1..n |-> us[k]]
    BY <1>3
  <2> HIDE DEF us
  <2> QED BY <1>1, <1>4, <1>5, <2>1
<1> HIDE DEF us
<1>6. \A k \in DOMAIN us : \E i \in ids : us[k] = [id |-> i, patch |-> patches[i]]
  BY <1>3, <1>4
<1>7. \A i \in ids : \E k \in DOMAIN us : us[k] = [id |-> i, patch |-> patches[i]]
  BY <1>3, <1>4
<1>8. Serves(us, patches)
  BY <1>5, <1>6, <1>7 DEF Serves
<1> QED BY <1>4, <1>8

LEMMA OneEach ==
  ASSUME Sound, NEW p \in Procs, NEW patches, UpdateEach(p, patches),
         DOMAIN patches \subseteq issued,
         \A i \in DOMAIN patches : patches[i] \in Patch
  PROVE  \E us \in Seq(Entry) :
            /\ Then(p, us, Resume(p, us))
            /\ \A k \in DOMAIN us : \E i \in DOMAIN patches : us[k].patch = patches[i]
<1>1. DOMAIN patches \subseteq Ids
  BY DEF Sound, FilesSound
<1>2. PICK us : Then(p, us, Resume(p, us)) /\ Serves(us, patches)
  BY <1>1, EachTask
<1>3. \A k \in DOMAIN us : us[k] \in Entry /\ \E i \in DOMAIN patches : us[k].patch = patches[i]
  BY <1>2 DEF Serves, Entry
<1>4. us \in Seq(Entry)
  BY <1>2, <1>3 DEF Serves
<1> QED BY <1>2, <1>3, <1>4

\* The decisions, and the steps from one update to the next.
LEMMA DecidingSound ==
  ASSUME NoDelete, Sound, NEW p \in Procs, Careful(p),
         \/ Check(p) \/ UnlockTask(p) \/ TaskLockFails(p) \/ DecideClaim(p)
         \/ DecideBusyClaim(p) \/ DecideUnassign(p) \/ DecideBlock(p) \/ DecideAutoclear(p)
  PROVE  Sound'
<1> USE DEF files, marks, locks, reads, writes, ghosts
<1>1. /\ <<>> \in Seq(Entry) /\ todo[p] \in Seq(Entry) /\ todo = [todo EXCEPT ![p] = todo[p]]
      /\ taskLock \in [Ids -> Procs \cup {NoProc}]
  BY DEF Sound, WritesSound, LocksSound
<1>2. ASSUME NEW us \in Seq(Entry), NEW l, Then(p, us, l) PROVE Sound'
  BY <1>1, <1>2, TodoSound DEF Then
<1>3. CASE Check(p)
  <2>1. todo[p] # <<>>
    BY <1>3 DEF Check, Careful
  <2>2. Tail(todo[p]) \in Seq(Entry)
    BY <1>1, <2>1, Rest
  <2>3. PICK us \in Seq(Entry) : todo' = [todo EXCEPT ![p] = us]
    BY <1>1, <1>3, <2>2 DEF Check
  <2>4. UNCHANGED holder \/ FilesSound'
    BY <1>3, ToldSound DEF Check
  <2> QED BY <1>1, <1>3, <2>3, <2>4, TodoSound DEF Check
<1>4. CASE UnlockTask(p)
  <2>1. PICK us \in Seq(Entry) : todo' = [todo EXCEPT ![p] = us]
    <3>1. todo[p] # <<>> => Tail(todo[p]) \in Seq(Entry)
      BY <1>1, Rest
    <3> QED BY <1>1, <1>4, <3>1 DEF UnlockTask
  <2>2. taskLock' \in [Ids -> Procs \cup {NoProc}]
    BY <1>1, <1>4 DEF UnlockTask
  <2>3. FilesSound'
    BY <1>4, ToldSound DEF UnlockTask
  <2> QED BY <1>4, <2>1, <2>2, <2>3, TodoSound DEF UnlockTask
<1>5. CASE TaskLockFails(p)
  BY <1>1, <1>5, TodoSound DEF TaskLockFails
<1>6. CASE DecideClaim(p) \/ DecideBusyClaim(p)
  <2> DEFINE us == <<[id |-> call[p].id, patch |-> [owner |-> p]]>>
  <2>1. call[p].id \in issued
    BY <1>6 DEF DecideClaim, DecideBusyClaim, Read, Careful, Claims
  <2>2. us \in Seq(Entry)
    <3>1. [owner |-> p] \in Patch
      BY DEF Patch
    <3>2. [id |-> call[p].id, patch |-> [owner |-> p]] \in Entry
      BY <2>1, <3>1 DEF Entry
    <3> QED BY <3>2
  <2>3. \E l : Then(p, us, l) \/ Then(p, <<>>, l)
    <3> HIDE DEF Then
    <3> QED BY <1>6 DEF DecideClaim, DecideBusyClaim
  <2> HIDE DEF us
  <2> QED BY <1>1, <1>2, <2>2, <2>3
<1>7. CASE DecideAutoclear(p)
  BY <1>1, <1>2, <1>7 DEF DecideAutoclear
<1>8. CASE DecideUnassign(p)
  <2> DEFINE theirs == {i \in OpenTasks(p) : snap[p][i].owner = call[p].who}
             patches == [i \in theirs |-> [owner |-> NoProc, status |-> "pending"]]
  <2>1. /\ UpdateEach(p, patches) /\ DOMAIN patches \subseteq DOMAIN snap[p]
        /\ \A i \in DOMAIN patches :
              patches[i] = [owner |-> NoProc, status |-> "pending"]
    BY <1>8 DEF DecideUnassign, OpenTasks, Listed
  <2> HIDE DEF patches
  <2>2. DOMAIN patches \subseteq issued
    BY <2>1 DEF Sound, ReadsSound
  <2>3. [owner |-> NoProc, status |-> "pending"] \in Patch
    BY DEF Patch, Statuses
  <2>4. \E us \in Seq(Entry) : Then(p, us, Resume(p, us))
    BY <2>1, <2>2, <2>3, OneEach
  <2> QED BY <1>2, <2>4
<1>9. CASE DecideBlock(p)
  <2> DEFINE a == call[p].from
             b == call[p].to
             t == snap[p]
             ua == IF b \in t[a].blocks THEN <<>> ELSE
                     <<[id |-> a, patch |-> [blocks |-> t[a].blocks \cup {b}]]>>
             ub == IF a \in t[b].blockedBy THEN <<>> ELSE
                     <<[id |-> b, patch |-> [blockedBy |-> t[b].blockedBy \cup {a}]]>>
             us == IF ~({a, b} \subseteq Listed(p)) THEN <<>> ELSE ua \o ub
  <2>1. Then(p, us, Resume(p, us))
    BY <1>9 DEF DecideBlock
  <2>2. us \in Seq(Entry)
    <3>1. CASE {a, b} \subseteq Listed(p)
      <4>1. a \in issued /\ b \in issued /\ a \in Ids /\ b \in Ids
        BY <1>9 DEF DecideBlock, Read, Careful, Sound, FilesSound
      <4>2. t[a] \in Task /\ t[b] \in Task
        <5>1. t \in [DOMAIN t -> Task]
          BY DEF Sound, ReadsSound
        <5> QED BY <3>1, <5>1 DEF Listed
      <4>3. /\ [blocks |-> t[a].blocks \cup {b}] \in Patch
            /\ [blockedBy |-> t[b].blockedBy \cup {a}] \in Patch
        BY <4>1, <4>2 DEF Task, Patch
      <4>4. /\ [id |-> a, patch |-> [blocks |-> t[a].blocks \cup {b}]] \in Entry
            /\ [id |-> b, patch |-> [blockedBy |-> t[b].blockedBy \cup {a}]] \in Entry
        BY <4>1, <4>3 DEF Entry
      <4>5. ua \in Seq(Entry) /\ ub \in Seq(Entry)
        BY <4>4
      <4>6. us = ua \o ub
        BY <3>1
      <4> HIDE DEF ua, ub, us
      <4> QED BY <4>5, <4>6
    <3>2. CASE ~({a, b} \subseteq Listed(p))
      BY <1>1, <3>2
    <3> QED BY <3>1, <3>2
  <2> HIDE DEF us
  <2> QED BY <1>2, <2>1, <2>2
<1> QED BY <1>3, <1>4, <1>5, <1>6, <1>7, <1>8, <1>9

LEMMA ReadingSound ==
  ASSUME Sound, NEW p \in Procs, Careful(p),
         \/ ScanDir(p) \/ ScanMark(p) \/ ReadHigh(p) \/ List(p)
         \/ (\E i \in Ids : ReadTask(p, i)) \/ Inspect(p) \/ SweepList(p)
  PROVE  Sound'
<1> USE DEF files, marks, locks, writes, ghosts
<1>0. /\ UNCHANGED <<there, torn, task, issued, holder, mark, markTorn, overlapped,
                     listLock, taskLock, todo, target, buf, linked>>
  BY DEF ScanDir, ScanMark, ReadHigh, List, ReadTask, Inspect, SweepList
<1>1. FilesSound' /\ LocksSound' /\ WritesSound'
  BY <1>0, Kept
<1>2. ScalarsSound'
  <2>1. Highest \in 0..MaxId
    <3>1. there \subseteq Ids /\ MaxId \in Nat
      BY TaskListAssumption DEF Sound, FilesSound, MaxId
    <3>2. Highest \in there \cup {0}
      BY <3>1, HighestIsGreatest
    <3> QED BY <3>1, <3>2 DEF Ids
  <2>2. Mark \in 0..MaxId
    BY TaskListAssumption DEF Sound, ScalarsSound, Mark, MaxId
  <2>3. /\ UNCHANGED high \/ high' = [high EXCEPT ![p] = Highest]
        /\ UNCHANGED seenMark \/ seenMark' = [seenMark EXCEPT ![p] = Mark]
    BY DEF ScanDir, ScanMark, ReadHigh, List, ReadTask, Inspect, SweepList
  <2>4. /\ high' \in [Procs -> {Unknown} \cup 0..MaxId]
        /\ seenMark' \in [Procs -> {Unknown} \cup 0..MaxId]
    BY <2>1, <2>2, <2>3 DEF Sound, ScalarsSound
  <2> QED BY <1>0, <2>4 DEF Sound, ScalarsSound
<1>3. ReadsSound'
  <2>1. there \subseteq issued /\ issued \subseteq Ids /\ task \in [Ids -> Task]
    BY DEF Sound, FilesSound
  <2>2. unread' \in [Procs -> SUBSET issued]
    <3>1. \E S \in SUBSET issued : UNCHANGED unread \/ unread' = [unread EXCEPT ![p] = S]
      BY <2>1 DEF ScanDir, ScanMark, ReadHigh, List, ReadTask, Inspect, SweepList,
                  Sound, ReadsSound
    <3> QED BY <3>1 DEF Sound, ReadsSound
  <2>3. ASSUME NEW i \in issued
        PROVE  DOMAIN Content(i) = {i} /\ Content(i) \in [{i} -> Task] /\ task[i] \in Task
    BY <2>1 DEF Content
  <2>4. \/ UNCHANGED snap
        \/ \E i \in issued : snap' = [snap EXCEPT ![p] = Content(i)]
        \/ \E i \in issued : snap' = [snap EXCEPT ![p] = Merge(Content(i), snap[p])]
    <3>1. CASE \E i \in Ids : ReadTask(p, i)
      <4>1. PICK i \in Ids : ReadTask(p, i)
        BY <3>1
      <4>2. i \in issued
        BY <4>1 DEF ReadTask, Sound, ReadsSound
      <4>3. snap = [snap EXCEPT ![p] = snap[p]]
        BY DEF Sound, ReadsSound
      <4> QED BY <4>1, <4>2, <4>3 DEF ReadTask
    <3>2. CASE Inspect(p)
      <4>1. call[p].id \in issued
        BY <3>2 DEF Inspect, Careful, Claims
      <4> QED BY <3>2, <4>1 DEF Inspect
    <3>3. CASE ~(\E i \in Ids : ReadTask(p, i)) /\ ~Inspect(p)
      BY <3>3 DEF ScanDir, ScanMark, ReadHigh, List, SweepList
    <3> QED BY <3>1, <3>2, <3>3
  <2>5. \E s : /\ snap' = [snap EXCEPT ![p] = s]
               /\ DOMAIN s \subseteq issued /\ s \in [DOMAIN s -> Task]
    <3>1. /\ snap = [snap EXCEPT ![p] = snap[p]]
          /\ DOMAIN snap[p] \subseteq issued /\ snap[p] \in [DOMAIN snap[p] -> Task]
      BY DEF Sound, ReadsSound
    <3>2. CASE UNCHANGED snap
      BY <3>1, <3>2
    <3>3. CASE \E i \in issued : snap' = [snap EXCEPT ![p] = Content(i)]
      BY <2>3, <3>3
    <3>4. CASE \E i \in issued : snap' = [snap EXCEPT ![p] = Merge(Content(i), snap[p])]
      <4>1. PICK i \in issued : snap' = [snap EXCEPT ![p] = Merge(Content(i), snap[p])]
        BY <3>4
      <4>2. Content(i) = [j \in {i} |-> task[j]] /\ task[i] \in Task
        BY <2>3 DEF Content
      <4> DEFINE m == Merge(Content(i), snap[p])
      <4>3. m = [x \in {i} \cup DOMAIN snap[p] |-> IF x \in {i} THEN task[x] ELSE snap[p][x]]
        BY <2>3, <4>2 DEF Merge
      <4>4. DOMAIN m \subseteq issued /\ m \in [DOMAIN m -> Task]
        <5> HIDE DEF m
        <5>1. DOMAIN m = {i} \cup DOMAIN snap[p]
          BY <4>3
        <5>2. \A x \in DOMAIN m : m[x] \in Task
          BY <3>1, <4>2, <4>3
        <5>3. m = [x \in DOMAIN m |-> m[x]]
          BY <4>3
        <5>4. DOMAIN m \subseteq issued
          BY <3>1, <5>1
        <5> QED BY <5>2, <5>3, <5>4
      <4>5. snap' = [snap EXCEPT ![p] = m]
        BY <4>1
      <4> HIDE DEF m
      <4> QED BY <4>4, <4>5
    <3> QED BY <2>4, <3>2, <3>3, <3>4
  <2>6. PICK s : /\ snap' = [snap EXCEPT ![p] = s]
                 /\ DOMAIN s \subseteq issued /\ s \in [DOMAIN s -> Task]
    BY <2>5
  <2>7. snap' = [q \in Procs |-> IF q = p THEN s ELSE snap[q]]
    BY <2>6 DEF Sound, ReadsSound
  <2> QED BY <1>0, <2>2, <2>6, <2>7 DEF Sound, ReadsSound
<1> QED BY <1>1, <1>2, <1>3 DEF Sound

LEMMA LockingSound ==
  ASSUME Sound,
         \/ LockExpires
         \/ \E p \in Procs : LockList(p) \/ UnlockList(p) \/ LockTask(p)
  PROVE  Sound'
<1>1. UNCHANGED <<there, torn, task, issued, holder, mark, markTorn, high, seenMark,
                  overlapped, unread, snap, todo, target, buf, linked>>
  BY DEF LockExpires, LockList, UnlockList, LockTask, files, marks, reads, writes, ghosts
<1>2. LocksSound'
  BY DEF LockExpires, LockList, UnlockList, LockTask, Sound, LocksSound
<1> QED BY <1>1, <1>2, Kept DEF Sound

LEMMA ResettingSound ==
  ASSUME IInv, Sound, NEW p \in Procs,
         OpenMark(p) \/ FillMark(p) \/ (\E i \in Ids : Sweep(p, i))
  PROVE  Sound'
<1> USE DEF files, locks, reads, writes, ghosts
<1>1. CASE OpenMark(p) \/ FillMark(p)
  <2>1. UNCHANGED <<there, torn, task, issued, holder, high, seenMark, overlapped,
                    listLock, taskLock, unread, snap, todo, target, buf, linked>>
    BY <1>1 DEF OpenMark, FillMark
  <2>2. mark' \in 0..MaxId
    <3>1. CASE OpenMark(p)
      BY <3>1 DEF OpenMark, Sound, ScalarsSound
    <3>2. CASE FillMark(p)
      <4>1. high[p] \in there /\ call[p].op # "delete"
        BY <3>2 DEF FillMark, IInv, Stage
      <4>2. mark' = high[p]
        BY <3>2, <4>1 DEF FillMark, Wants
      <4>3. high[p] \in 1..MaxId
        BY <4>1 DEF Sound, FilesSound, Ids
      <4> QED BY <4>2, <4>3
    <3> QED BY <1>1, <3>1, <3>2
  <2>3. markTorn' \in BOOLEAN
    BY <1>1, Zenon DEF OpenMark, FillMark
  <2>4. ScalarsSound'
    BY <2>1, <2>2, <2>3 DEF Sound, ScalarsSound
  <2> QED BY <2>1, <2>4, Kept DEF Sound
<1>2. CASE \E i \in Ids : Sweep(p, i)
  <2>1. PICK i \in Ids : Sweep(p, i)
    BY <1>2
  <2>2. /\ UNCHANGED <<task, issued, mark, markTorn, high, seenMark, overlapped, listLock,
                       taskLock, snap, todo, target, buf>>
        /\ there' = there \ {i} /\ torn' = torn \ {i}
        /\ linked' = [q \in Procs |-> linked[q] /\ target[q] # i]
        /\ holder' = [holder EXCEPT ![i] = NoProc]
        /\ unread' = [unread EXCEPT ![p] = @ \ {i}]
    BY <2>1 DEF Sweep, Unlink, marks
  <2>3. FilesSound'
    BY <2>2 DEF Sound, FilesSound
  <2>4. ReadsSound'
    BY <2>2 DEF Sound, ReadsSound
  <2>5. WritesSound'
    BY <2>2 DEF Sound, WritesSound, Entry
  <2> QED BY <2>2, <2>3, <2>4, <2>5, Kept DEF Sound
<1> QED BY <1>1, <1>2

\* The state of the list and of the sessions' calls stays well formed.
LEMMA NextSound ==
  ASSUME NoDelete, IInv, Sound, \A p \in Procs : Careful(p), [Next]_vars
  PROVE  Sound'
<1>1. CASE LockExpires
  BY <1>1, LockingSound
<1>2. ASSUME NEW p \in Procs, StartWhole(p) \/ StartOnTask(p) \/ Work(p) \/ GiveUp(p) \/ Crash(p)
      PROVE  Sound'
  <2>0. Careful(p)
    OBVIOUS
  <2>1. CASE StartWhole(p) \/ StartOnTask(p)
    BY <2>1, StartingSound
  <2>2. CASE OpenNew(p) \/ Reread(p) \/ OpenOld(p) \/ Fill(p)
    BY <2>0, <2>2, CreatingSound, WritingSound
  <2>3. CASE \/ Check(p) \/ UnlockTask(p) \/ TaskLockFails(p) \/ DecideClaim(p)
             \/ DecideBusyClaim(p) \/ DecideUnassign(p) \/ DecideBlock(p) \/ DecideAutoclear(p)
    BY <2>0, <2>3, DecidingSound
  <2>4. CASE \/ ScanDir(p) \/ ScanMark(p) \/ ReadHigh(p) \/ List(p)
             \/ (\E i \in Ids : ReadTask(p, i)) \/ Inspect(p) \/ SweepList(p)
    BY <2>0, <2>4, ReadingSound
  <2>5. CASE LockList(p) \/ UnlockList(p) \/ LockTask(p)
    BY <2>5, LockingSound
  <2>6. CASE OpenMark(p) \/ FillMark(p) \/ (\E i \in Ids : Sweep(p, i))
    BY <2>6, ResettingSound
  <2>7. CASE ListLockFails(p) \/ ReadMark(p) \/ ClaimCheck(p) \/ Swept(p) \/ Crash(p)
    <3>1. UNCHANGED <<there, torn, task, issued, holder, mark, markTorn, high, seenMark,
                      overlapped, listLock, taskLock, unread, snap, todo, target, buf, linked>>
      BY <2>7 DEF ListLockFails, ReadMark, ClaimCheck, Swept, Crash,
                  files, marks, locks, reads, writes, ghosts
    <3> QED BY <3>1, Kept DEF Sound
  <2>8. ~DecideDelete(p) /\ ~RemoveFile(p)
    BY DEF DecideDelete, RemoveFile, Read, IInv, Stage
  <2> QED BY <1>2, <2>1, <2>2, <2>3, <2>4, <2>5, <2>6, <2>7, <2>8 DEF Work, GiveUp
<1>3. CASE UNCHANGED vars
  <2>1. UNCHANGED <<there, torn, task, issued, holder, mark, markTorn, high, seenMark,
                    overlapped, listLock, taskLock, unread, snap, todo, target, buf, linked>>
    BY <1>3 DEF vars, files, marks, locks, reads, writes, ghosts
  <2> QED BY <2>1, Kept DEF Sound
<1> QED BY <1>1, <1>2, <1>3 DEF Next

-----------------------------------------------------------------------------
(* What a session knows is not disturbed by the others.                    *)

Step(p) == StartWhole(p) \/ StartOnTask(p) \/ Work(p) \/ GiveUp(p) \/ Crash(p)

\* What the code keeps for each session is a function of the sessions.
Tables ==
    /\ pc = [q \in Procs |-> pc[q]] /\ call = [q \in Procs |-> call[q]]
    /\ todo = [q \in Procs |-> todo[q]] /\ unread = [q \in Procs |-> unread[q]]
    /\ snap = [q \in Procs |-> snap[q]] /\ target = [q \in Procs |-> target[q]]
    /\ buf = [q \in Procs |-> buf[q]] /\ linked = [q \in Procs |-> linked[q]]

LEMMA SoundTables == Types /\ Sound => Tables
BY DEF Types, Sound, ReadsSound, WritesSound, Tables

\* A step is one session's: it changes no other row of a table, but that it
\* may unlink the file that another session has open.
Row(p, f, g) == g = f \/ \E v : g = [f EXCEPT ![p] = v]
Rows(p) == Row(p, pc, pc') /\ Row(p, call, call') /\ Row(p, todo, todo')
           /\ Row(p, unread, unread') /\ Row(p, snap, snap')
           /\ Row(p, target, target') /\ Row(p, buf, buf')

LEMMA RowKept ==
  ASSUME NEW p \in Procs, NEW f, NEW g, Row(p, f, g), f = [q \in Procs |-> f[q]]
  PROVE  g = [q \in Procs |-> g[q]] /\ \A q \in Procs : q # p => g[q] = f[q]
BY DEF Row

LEMMA StepRows ==
  ASSUME NEW p \in Procs, Step(p)
  PROVE  Rows(p) /\ (Row(p, linked, linked') \/ linked' = [q \in Procs |-> linked'[q]])
<1> USE DEF reads, writes
<1>1. \A l : Goto(p, l) => Row(p, pc, pc')
  BY DEF Goto, Row
<1>2. ASSUME NEW us, NEW l, Then(p, us, l) PROVE Rows(p) /\ Row(p, linked, linked')
  BY <1>1, <1>2 DEF Then, Rows, Row
<1> HIDE DEF Goto, Then
<1>3. CASE StartWhole(p) \/ StartOnTask(p)
  <2>1. PICK c, l : Start(p, c, l)
    BY <1>3, Zenon DEF StartWhole, StartOnTask
  <2>2. UNCHANGED todo \/ \E us : todo' = [todo EXCEPT ![p] = us]
    BY <1>3, Zenon DEF StartWhole, StartOnTask
  <2>3. UNCHANGED unread \/ \E us : unread' = [unread EXCEPT ![p] = us]
    BY <1>3, Zenon DEF StartWhole, StartOnTask
  <2> QED BY <1>1, <2>1, <2>2, <2>3 DEF Start, Rows, Row
<1>4. CASE \/ LockList(p) \/ UnlockList(p) \/ LockTask(p) \/ ListLockFails(p) \/ Crash(p)
           \/ ClaimCheck(p) \/ ReadMark(p) \/ OpenMark(p) \/ FillMark(p) \/ Swept(p)
  <2>1. (\E l : Goto(p, l)) /\ UNCHANGED <<call, todo, unread, snap, target, buf, linked>>
    BY <1>4 DEF LockList, UnlockList, LockTask, ListLockFails, Crash, ClaimCheck,
                ReadMark, OpenMark, FillMark, Swept
  <2> QED BY <1>1, <2>1 DEF Rows, Row
<1>5. CASE ScanDir(p) \/ ScanMark(p) \/ ReadHigh(p)
  <2>1. /\ UNCHANGED pc \/ \E l : Goto(p, l)
        /\ UNCHANGED <<call, todo, unread, snap, target, buf, linked>>
    BY <1>5 DEF ScanDir, ScanMark, ReadHigh
  <2> QED BY <1>1, <2>1 DEF Rows, Row
<1>6. CASE List(p) \/ (\E i \in Ids : ReadTask(p, i)) \/ Inspect(p) \/ SweepList(p)
  <2>1. /\ UNCHANGED pc \/ \E l : Goto(p, l)
        /\ UNCHANGED <<call, todo, target, buf, linked>>
    BY <1>6 DEF List, ReadTask, Inspect, SweepList
  <2>2. /\ UNCHANGED unread \/ \E v : unread' = [unread EXCEPT ![p] = v]
        /\ UNCHANGED snap \/ \E v : snap' = [snap EXCEPT ![p] = v]
    BY <1>6, Zenon DEF List, ReadTask, Inspect, SweepList
  <2> QED BY <1>1, <2>1, <2>2 DEF Rows, Row
<1>7. CASE (\E i \in Ids : Sweep(p, i)) \/ RemoveFile(p)
  <2>1. /\ UNCHANGED pc \/ \E l : Goto(p, l)
        /\ UNCHANGED <<call, todo, snap, target, buf>>
        /\ UNCHANGED unread \/ \E v : unread' = [unread EXCEPT ![p] = v]
    BY <1>7, Zenon DEF Sweep, RemoveFile, Unlink
  <2>2. UNCHANGED linked \/ linked' = [q \in Procs |-> linked'[q]]
    BY <1>7 DEF Sweep, RemoveFile, Unlink
  <2> QED BY <1>1, <2>1, <2>2 DEF Rows, Row
<1>8. CASE OpenNew(p) \/ Reread(p) \/ OpenOld(p) \/ Fill(p)
  <2>1. (\E l : Goto(p, l)) /\ UNCHANGED <<call, todo, unread, snap>>
    BY <1>8 DEF OpenNew, Reread, OpenOld, Fill, Open
  <2>2. /\ UNCHANGED target \/ \E i : target' = [target EXCEPT ![p] = i]
        /\ UNCHANGED buf \/ \E b : buf' = [buf EXCEPT ![p] = b]
        /\ UNCHANGED linked \/ \E b : linked' = [linked EXCEPT ![p] = b]
    BY <1>8 DEF OpenNew, Reread, OpenOld, Fill, Open
  <2> QED BY <1>1, <2>1, <2>2 DEF Rows, Row
<1>9. CASE Check(p) \/ UnlockTask(p) \/ TaskLockFails(p)
  <2>1. (\E l : Goto(p, l)) /\ UNCHANGED <<call, unread, snap, target, buf, linked>>
    BY <1>9 DEF Check, UnlockTask, TaskLockFails
  <2>2. UNCHANGED todo \/ \E us : todo' = [todo EXCEPT ![p] = us]
    BY <1>9, Zenon DEF Check, UnlockTask, TaskLockFails
  <2> QED BY <1>1, <2>1, <2>2 DEF Rows, Row
<1>10. CASE DecideClaim(p) \/ DecideBusyClaim(p) \/ DecideBlock(p) \/ DecideAutoclear(p)
            \/ DecideDelete(p) \/ DecideUnassign(p)
  <2>1. \E us, l : Then(p, us, l)
    BY <1>10, Zenon DEF DecideClaim, DecideBusyClaim, DecideBlock, DecideAutoclear,
                        DecideDelete, DecideUnassign, UpdateEach
  <2> QED BY <1>2, <2>1
<1> QED BY <1>3, <1>4, <1>5, <1>6, <1>7, <1>8, <1>9, <1>10 DEF Step, Work, GiveUp

LEMMA StepTables ==
  ASSUME Tables, NEW p \in Procs, Step(p)
  PROVE  Tables'
<1>1. Rows(p) /\ (Row(p, linked, linked') \/ linked' = [q \in Procs |-> linked'[q]])
  BY StepRows
<1> QED BY <1>1, RowKept DEF Tables, Rows

LEMMA OthersStay ==
  ASSUME Tables, NEW p \in Procs, Step(p), NEW q \in Procs, q # p
  PROVE  /\ pc'[q] = pc[q] /\ call'[q] = call[q] /\ todo'[q] = todo[q]
         /\ target'[q] = target[q] /\ buf'[q] = buf[q]
<1>1. Rows(p)
  BY StepRows
<1> QED BY <1>1, RowKept DEF Tables, Rows

\* What a session knows depends on its own state, on the file it has
\* locked, on its lock, and on the file it is creating.
LEMMA StaysCareful ==
  ASSUME NEW q \in Procs, Careful(q), issued \subseteq issued',
         pc'[q] = pc[q], call'[q] = call[q], todo'[q] = todo[q],
         target'[q] = target[q], buf'[q] = buf[q],
         Within(q) => /\ taskLock'[Locking(q)] = taskLock[Locking(q)]
                      /\ task'[Locking(q)] = task[Locking(q)],
         linked'[q] => linked[q] /\ target[q] \in there',
         Creating(q) => /\ listLock' = listLock /\ target[q] \in torn'
                        /\ task'[target[q]] = task[target[q]]
  PROVE  Careful(q)'
<1>1. /\ Locking(q)' = Locking(q) /\ (Within(q)' <=> Within(q))
      /\ (Writing(q)' <=> Writing(q)) /\ (Creating(q)' <=> Creating(q))
      /\ (Claims(q)' <=> Claims(q))
  BY DEF Locking, Within, Writing, Creating, Claims
<1>2. Writing(q) => Within(q)
  BY DEF Within
<1>3. call[q].op = "claim" => Locking(q) = call[q].id
  BY DEF Locking
<1>4. Writing(q) => buf'[q] = Merge(Head(todo'[q]).patch, task'[target'[q]])
  BY <1>2 DEF Careful
<1> QED BY <1>1, <1>2, <1>3, <1>4 DEF Careful

OwnerInv == IInv /\ Sound /\ (\A p \in Procs : Careful(p)) /\ Apart

\* The files and the locks are changed by these steps only.
LEMMA QuietFiles ==
  ASSUME NEW p \in Procs, Step(p),
         ~LockList(p), ~UnlockList(p), ~LockTask(p), ~UnlockTask(p), ~OpenNew(p),
         ~OpenOld(p), ~Fill(p), ~(\E i \in Ids : Sweep(p, i)), ~RemoveFile(p)
  PROVE  /\ UNCHANGED <<there, torn, task, issued, linked, listLock, taskLock>>
         /\ UNCHANGED holder \/ Check(p)
<1> USE DEF files, locks, writes, ghosts
<1>1. CASE StartWhole(p) \/ StartOnTask(p)
  <2>1. PICK c, l : Start(p, c, l)
    BY <1>1, Zenon DEF StartWhole, StartOnTask
  <2> QED BY <2>1 DEF Start
<1>2. CASE GiveUp(p) \/ Crash(p)
  BY <1>2 DEF GiveUp, ListLockFails, TaskLockFails, Crash
<1>3. CASE \/ DecideClaim(p) \/ DecideBusyClaim(p) \/ DecideBlock(p)
           \/ DecideAutoclear(p) \/ DecideDelete(p) \/ DecideUnassign(p)
  <2> HIDE DEF Then
  <2>1. PICK us, l : Then(p, us, l)
    BY <1>3, Zenon DEF DecideClaim, DecideBusyClaim, DecideBlock, DecideAutoclear,
                       DecideDelete, DecideUnassign, UpdateEach
  <2> QED BY <2>1 DEF Then
<1>4. CASE \/ ScanDir(p) \/ ScanMark(p) \/ Check(p) \/ Reread(p) \/ List(p)
           \/ (\E i \in Ids : ReadTask(p, i))
  BY <1>4 DEF ScanDir, ScanMark, Check, Reread, List, ReadTask
<1>5. CASE \/ ClaimCheck(p) \/ Inspect(p) \/ ReadHigh(p) \/ ReadMark(p)
           \/ OpenMark(p) \/ FillMark(p) \/ SweepList(p) \/ Swept(p)
  BY <1>5 DEF ClaimCheck, Inspect, ReadHigh, ReadMark, OpenMark, FillMark, SweepList, Swept
<1> QED BY <1>1, <1>2, <1>3, <1>4, <1>5 DEF Step, Work

\* A session that writes a file either holds its lock or is creating it.
LEMMA FillsOwn ==
  ASSUME OwnerInv, NEW p \in Procs, NEW q \in Procs, q # p, pc[p] = "fill"
  PROVE  /\ Within(q) => Locking(q) # target[p]
         /\ Creating(q) => target[q] # target[p]
<1>1. CASE Creating(p)
  <2>1. Within(q) => Locking(q) # target[p]
    BY <1>1 DEF OwnerInv, Apart
  <2>2. Creating(q) => FALSE
    BY <1>1 DEF OwnerInv, Careful
  <2> QED BY <2>1, <2>2
<1>2. CASE ~Creating(p)
  <2>1. Writing(p) /\ Within(p) /\ Careful(p)
    BY <1>2 DEF Creating, Writing, Within, OwnerInv
  <2>2. taskLock[target[p]] = p /\ target[p] = Locking(p)
    BY <2>1 DEF Careful
  <2>3. Within(q) => taskLock[Locking(q)] = q
    BY DEF OwnerInv, Careful
  <2>4. Creating(q) => Locking(p) # target[q]
    BY <2>1 DEF OwnerInv, Apart
  <2> QED BY <2>2, <2>3, <2>4
<1> QED BY <1>1, <1>2

LEMMA Undisturbed ==
  ASSUME OwnerInv, NEW p \in Procs, Step(p), ~RemoveFile(p), NEW q \in Procs, q # p
  PROVE  Careful(q)'
<1> USE DEF files, locks, writes, ghosts
<1>0. /\ Careful(q) /\ Careful(p) /\ Types /\ Sound /\ Stage(p)
      /\ q # NoProc /\ p # NoProc
  BY TaskListAssumption DEF OwnerInv, IInv
<1>1. /\ pc'[q] = pc[q] /\ call'[q] = call[q] /\ todo'[q] = todo[q]
      /\ target'[q] = target[q] /\ buf'[q] = buf[q]
  BY <1>0, SoundTables, OthersStay
<1>2. /\ Creating(q) => listLock = q /\ target[q] \in torn
      /\ linked[q] => target[q] \in there
      /\ Within(q) => taskLock[Locking(q)] = q
  BY <1>0 DEF Careful
<1>3. CASE LockList(p) \/ UnlockList(p)
  <2>1. /\ UNCHANGED <<there, torn, task, issued, linked, taskLock>>
        /\ Creating(q) => listLock' = listLock
    BY <1>0, <1>2, <1>3 DEF LockList, UnlockList
  <2> QED BY <1>0, <1>1, <1>2, <2>1, StaysCareful
<1>4. CASE LockTask(p) \/ UnlockTask(p)
  <2>1. UNCHANGED <<there, torn, task, issued, linked, listLock>>
    BY <1>4 DEF LockTask, UnlockTask
  <2>2. \E h : /\ taskLock' = [taskLock EXCEPT ![Locking(p)] = h]
               /\ taskLock[Locking(p)] = q => h = q
    <3>1. CASE LockTask(p)
      BY <1>0, <3>1 DEF LockTask
    <3>2. CASE UnlockTask(p)
      BY <1>0, <3>2 DEF UnlockTask
    <3> QED BY <1>4, <3>1, <3>2
  <2>3. Within(q) => Locking(q) \in Ids
    BY <1>0, LockingIssued DEF Sound, FilesSound
  <2>4. Within(q) => taskLock'[Locking(q)] = taskLock[Locking(q)]
    <3> HIDE DEF Locking
    <3> QED BY <1>2, <2>2, <2>3, <1>0 DEF Sound, LocksSound
  <2> QED BY <1>0, <1>1, <1>2, <2>1, <2>4, StaysCareful
<1>5. CASE OpenNew(p) \/ OpenOld(p)
  <2>1. /\ UNCHANGED <<task, listLock, taskLock>>
        /\ there \subseteq there' /\ torn \subseteq torn' /\ issued \subseteq issued'
        /\ linked' = [linked EXCEPT ![p] = TRUE]
    BY <1>5 DEF OpenNew, OpenOld, Open
  <2>2. linked'[q] = linked[q]
    BY <1>0, <2>1 DEF Sound, WritesSound
  <2> QED BY <1>0, <1>1, <1>2, <2>1, <2>2, StaysCareful
<1>6. CASE Fill(p)
  <2>1. /\ Within(q) => Locking(q) # target[p]
        /\ Creating(q) => target[q] # target[p]
    BY <1>6, FillsOwn DEF Fill
  <2>2. /\ UNCHANGED <<there, listLock, taskLock, issued>>
        /\ linked' = [linked EXCEPT ![p] = FALSE]
        /\ \/ UNCHANGED <<task, torn>>
           \/ /\ task' = [task EXCEPT ![target[p]] = buf[p]]
              /\ torn' = torn \ {target[p]}
    BY <1>6 DEF Fill
  <2>3. linked'[q] = linked[q]
    BY <1>0, <2>2 DEF Sound, WritesSound
  <2>4. Within(q) => Locking(q) \in Ids
    BY <1>0, LockingIssued DEF Sound, FilesSound
  <2>5. Within(q) => task'[Locking(q)] = task[Locking(q)]
    BY <1>0, <2>1, <2>2, <2>4 DEF Sound, FilesSound
  <2>6. Creating(q) => target[q] \in Ids
    BY <1>0, <1>2 DEF Sound, FilesSound
  <2>7. Creating(q) => task'[target[q]] = task[target[q]] /\ target[q] \in torn'
    BY <1>0, <1>2, <2>1, <2>2, <2>6 DEF Sound, FilesSound
  <2> QED BY <1>0, <1>1, <1>2, <2>2, <2>3, <2>5, <2>7, StaysCareful
<1>7. CASE \E i \in Ids : Sweep(p, i)
  <2>1. PICK i \in Ids : Sweep(p, i)
    BY <1>7
  <2>2. /\ UNCHANGED <<task, issued, listLock, taskLock>>
        /\ there' = there \ {i} /\ linked'[q] => linked[q] /\ target[q] # i
    BY <2>1 DEF Sweep, Unlink
  <2>3. listLock = p
    BY <1>0, <2>1 DEF Sweep, Stage, Critical
  <2>4. ~Creating(q)
    BY <1>2, <2>3
  <2>5. linked'[q] => linked[q] /\ target[q] \in there'
    BY <1>2, <2>1 DEF Sweep, Unlink
  <2> QED BY <1>0, <1>1, <2>2, <2>4, <2>5, StaysCareful
<1>8. CASE /\ ~LockList(p) /\ ~UnlockList(p) /\ ~LockTask(p) /\ ~UnlockTask(p) /\ ~OpenNew(p)
           /\ ~OpenOld(p) /\ ~Fill(p) /\ ~(\E i \in Ids : Sweep(p, i))
  <2>1. UNCHANGED <<there, torn, task, issued, linked, listLock, taskLock>>
    BY <1>8, QuietFiles
  <2> QED BY <1>0, <1>1, <1>2, <2>1, StaysCareful
<1> QED BY <1>3, <1>4, <1>5, <1>6, <1>7, <1>8

-----------------------------------------------------------------------------
(* A session keeps up what it has to know, step by step.                   *)

\* Where a session has nothing to remember of the tasks.
Plain == {"idle", "dead", "lockList", "unlockList", "unlockTask", "claimCheck", "readHigh",
          "readMark", "openMark", "fillMark", "sweepList", "sweep"}

Away(p) == ~Within(p) /\ ~Creating(p) /\ pc[p] # "lockTask"

LEMMA Settles ==
  ASSUME NEW p \in Procs, Careful(p), pc'[p] \in Plain, call'[p] = call[p],
         todo'[p] = <<>> \/ (pc'[p] \in {"dead", "unlockTask"} /\ todo'[p] = todo[p]),
         issued \subseteq issued', linked'[p] => pc'[p] = "dead" /\ target'[p] \in there'
  PROVE  Careful(p)' /\ Away(p)'
<1>1. ~Within(p)' /\ ~Writing(p)' /\ ~Creating(p)' /\ (Claims(p)' <=> Claims(p))
  BY DEF Within, Writing, Creating, Claims, Plain
<1>2. \A k \in DOMAIN todo'[p] : "status" \in DOMAIN todo'[p][k].patch =>
          call'[p].op \in {"update", "unassign"}
  <2>1. CASE todo'[p] = <<>>
    <3>1. DOMAIN <<>> = {}
      OBVIOUS
    <3> QED BY <2>1, <3>1
  <2>2. CASE todo'[p] = todo[p]
    BY <2>2 DEF Careful
  <2> QED BY <2>1, <2>2
<1> QED BY <1>1, <1>2 DEF Careful, Plain, Away

\* A call starts.
LEMMA StartsCareful ==
  ASSUME NoDelete, OwnerInv, NEW p \in Procs, StartWhole(p) \/ StartOnTask(p)
  PROVE  Careful(p)' /\ Away(p)'
<1>0. Careful(p) /\ Types /\ Sound /\ todo = [q \in Procs |-> todo[q]]
  BY DEF OwnerInv, IInv, Sound, WritesSound
<1>1. ASSUME NEW c, NEW l, Start(p, c, l)
      PROVE  /\ pc'[p] = l /\ call'[p] = c /\ c.op \in Menu /\ c.op # "delete" /\ todo[p] = <<>>
             /\ issued' = issued /\ ~linked'[p]
  <2>1. pc[p] = "idle" /\ pc'[p] = l /\ call'[p] = c /\ c.op \in Menu
    BY <1>0, <1>1 DEF Start, Goto, Types
  <2>2. UNCHANGED <<issued, linked>>
    BY <1>1 DEF Start, files, writes
  <2> QED BY <1>0, <2>1, <2>2 DEF Careful, NoDelete
<1>2. ASSUME NEW c, NEW l, Start(p, c, l), todo' = todo,
             l \in {"lockList", "list", "claimCheck", "reading"},
             c.op # "create" \/ l = "lockList",
             c.op # "claim" \/ l = "claimCheck",
             c.op \in {"claim", "busyclaim"} => c.id \in issued,
             c.op = "block" => c.from \in issued /\ c.to \in issued
      PROVE  Careful(p)' /\ Away(p)'
  <2>1. DOMAIN todo'[p] = {}
    BY <1>1, <1>2
  <2> QED BY <1>1, <1>2, <2>1 DEF Careful, Claims, Within, Writing, Creating, Away
<1>3. CASE StartWhole(p)
  <2>1. UNCHANGED todo
    BY <1>3 DEF StartWhole
  <2>2. ASSUME NEW op \in {"create", "reset"}, Start(p, [op |-> op], "lockList")
        PROVE  Careful(p)' /\ Away(p)'
    BY <1>2, <2>1, <2>2
  <2>3. CASE Start(p, [op |-> "autoclear"], "list")
    BY <1>2, <2>1, <2>3
  <2>4. ASSUME NEW q \in Procs, Start(p, [op |-> "unassign", who |-> q], "list")
        PROVE  Careful(p)' /\ Away(p)'
    BY <1>2, <2>1, <2>4
  <2> QED BY <1>3, <2>2, <2>3, <2>4 DEF StartWhole
<1>4. CASE StartOnTask(p)
  <2>1. PICK i \in issued :
           \/ /\ \/ Start(p, [op |-> "delete", id |-> i], "readMark")
                 \/ \E op \in {"claim", "busyclaim"} :
                        Start(p, [op |-> op, id |-> i], "claimCheck")
              /\ UNCHANGED todo
           \/ \E u \in Updates(i) :
                 /\ Start(p, [op |-> "update", id |-> i], "check")
                 /\ todo' = [todo EXCEPT ![p] = <<[id |-> i, patch |-> u]>>]
           \/ \E j \in issued : /\ Start(p, [op |-> "block", from |-> i, to |-> j], "reading")
                               /\ UNCHANGED todo
    <3> HIDE DEF Start
    <3> QED BY <1>4 DEF StartOnTask
  <2>2. ~Start(p, [op |-> "delete", id |-> i], "readMark")
    BY DEF Start, NoDelete
  <2>3. ASSUME NEW op \in {"claim", "busyclaim"}, UNCHANGED todo,
               Start(p, [op |-> op, id |-> i], "claimCheck")
        PROVE  Careful(p)' /\ Away(p)'
    BY <1>2, <2>3
  <2>4. ASSUME NEW j \in issued, UNCHANGED todo,
               Start(p, [op |-> "block", from |-> i, to |-> j], "reading")
        PROVE  Careful(p)' /\ Away(p)'
    BY <1>2, <2>4
  <2>5. ASSUME NEW u \in Updates(i), Start(p, [op |-> "update", id |-> i], "check"),
               todo' = [todo EXCEPT ![p] = <<[id |-> i, patch |-> u]>>]
        PROVE  Careful(p)' /\ Away(p)'
    <3>1. todo'[p] = <<[id |-> i, patch |-> u]>>
      BY <1>0, <2>5
    <3>2. /\ pc'[p] = "check" /\ call'[p].op = "update" /\ "update" \in Menu
          /\ issued' = issued /\ ~linked'[p]
      BY <1>1, <2>5
    <3> QED BY <3>1, <3>2 DEF Careful, Claims, Within, Writing, Creating, Away
  <2> QED BY <2>1, <2>2, <2>3, <2>4, <2>5
<1> QED BY <1>3, <1>4

\* The steps after which a session has nothing to remember.
LEMMA SettlesCareful ==
  ASSUME NoDelete, OwnerInv, NEW p \in Procs,
         \/ ListLockFails(p) \/ UnlockList(p) \/ TaskLockFails(p) \/ Crash(p) \/ Fill(p)
         \/ DecideAutoclear(p) \/ ReadHigh(p) \/ ReadMark(p) \/ OpenMark(p) \/ FillMark(p)
         \/ SweepList(p) \/ (\E i \in Ids : Sweep(p, i)) \/ Swept(p)
  PROVE  Careful(p)' /\ Away(p)'
<1> USE DEF files, marks, locks, reads, writes, ghosts, Plain
<1>0. /\ Careful(p) /\ Types /\ Sound /\ Stage(p) /\ todo = [q \in Procs |-> todo[q]]
      /\ linked[p] => pc[p] \in {"fill", "dead"} /\ target[p] \in there
  BY DEF OwnerInv, IInv, Sound, WritesSound, Careful
<1>1. \A l : Goto(p, l) => pc'[p] = l
  BY <1>0 DEF Goto, Types
<1> HIDE DEF Goto
<1>2. CASE ListLockFails(p) \/ UnlockList(p) \/ ReadHigh(p)
           \/ OpenMark(p) \/ SweepList(p) \/ Swept(p)
  <2>1. /\ pc'[p] \in Plain /\ UNCHANGED <<call, todo, issued, there, linked, target>>
        /\ pc[p] \in {"lockList", "unlockList", "readHigh", "openMark", "sweepList", "sweep"}
    BY <1>1, <1>2 DEF ListLockFails, UnlockList, ReadHigh, OpenMark, SweepList, Swept
  <2>2. todo'[p] = <<>>
    BY <1>0, <2>1 DEF Careful
  <2> QED BY <1>0, <2>1, <2>2, Settles
<1>3. CASE ReadMark(p) \/ FillMark(p)
  <2>1. /\ pc'[p] \in Plain /\ UNCHANGED <<call, todo, issued, there, linked, target>>
        /\ pc[p] \in {"readMark", "fillMark"}
    BY <1>0, <1>1, <1>3 DEF ReadMark, FillMark, Marked, Stage
  <2>2. todo'[p] = <<>>
    BY <1>0, <2>1 DEF Careful
  <2> QED BY <1>0, <2>1, <2>2, Settles
<1>4. CASE TaskLockFails(p)
  <2>1. /\ pc'[p] \in Plain /\ UNCHANGED <<call, issued, there, linked, target>>
        /\ todo'[p] = <<>> /\ pc[p] = "lockTask"
    BY <1>0, <1>1, <1>4 DEF TaskLockFails, Resume
  <2> QED BY <1>0, <2>1, Settles
<1>5. CASE Crash(p)
  <2>1. pc'[p] = "dead" /\ UNCHANGED <<call, todo, issued, there, linked, target>>
    BY <1>1, <1>5 DEF Crash
  <2> QED BY <1>0, <2>1, Settles
<1>6. CASE Fill(p)
  <2>1. /\ UNCHANGED <<call, todo, issued, there, target>> /\ linked'[p] = FALSE
        /\ pc'[p] = IF call[p].op = "create" THEN "unlockList" ELSE "unlockTask"
    BY <1>0, <1>1, <1>6 DEF Fill, Sound, WritesSound
  <2>2. todo'[p] = <<>> \/ (pc'[p] = "unlockTask" /\ todo'[p] = todo[p])
    BY <1>0, <2>1 DEF Careful
  <2> QED BY <1>0, <2>1, <2>2, Settles
<1>7. CASE DecideAutoclear(p)
  <2>1. /\ pc'[p] \in Plain /\ UNCHANGED <<call, issued, there, linked, target>>
        /\ todo'[p] = <<>> /\ pc[p] = "reading"
    BY <1>0, <1>1, <1>7 DEF DecideAutoclear, Then, Read
  <2> QED BY <1>0, <2>1, Settles
<1>8. CASE \E i \in Ids : Sweep(p, i)
  <2>1. PICK i \in Ids : Sweep(p, i)
    BY <1>8
  <2>2. /\ UNCHANGED <<pc, call, todo, issued, target>> /\ pc[p] = "sweep"
        /\ there' = there \ {i} /\ (linked'[p] => linked[p] /\ target[p] # i)
    BY <2>1 DEF Sweep, Unlink
  <2>3. ~linked'[p]
    BY <1>0, <2>2
  <2>4. todo'[p] = <<>>
    BY <1>0, <2>2 DEF Careful
  <2> QED BY <1>0, <2>2, <2>3, <2>4, Settles
<1> QED BY <1>2, <1>3, <1>4, <1>5, <1>6, <1>7, <1>8

\* The steps on the way to a task and through a listing.
LEMMA ReadsCareful ==
  ASSUME OwnerInv, NEW p \in Procs,
         \/ ScanDir(p) \/ ScanMark(p) \/ (\E i \in Ids : ReadTask(p, i)) \/ LockList(p)
         \/ List(p) \/ ClaimCheck(p) \/ Inspect(p)
  PROVE  Careful(p)'
<1> USE DEF files, marks, locks, writes, ghosts
<1>0. /\ Careful(p) /\ Types /\ Sound /\ Stage(p)
      /\ linked[p] => pc[p] \in {"fill", "dead"} /\ target[p] \in there
      /\ Creating(p) => target[p] \in torn
  BY DEF OwnerInv, IInv, Careful
<1>1. \A l : Goto(p, l) => pc'[p] = l
  BY <1>0 DEF Goto, Types
<1> HIDE DEF Goto
<1>2. CASE ScanDir(p) \/ ScanMark(p) \/ \E i \in Ids : ReadTask(p, i)
  <2>1. UNCHANGED <<there, torn, task, issued, holder, linked, target, buf, listLock, taskLock,
                    pc, call, todo>>
    BY <1>2 DEF ScanDir, ScanMark, ReadTask
  <2> QED BY <1>0, <2>1, StaysCareful
<1>3. CASE LockList(p)
  <2>1. /\ UNCHANGED <<there, issued, linked, target, call, todo>> /\ pc[p] = "lockList"
        /\ \/ pc'[p] = "scan" /\ call[p].op = "create"
           \/ pc'[p] = "readHigh"
           \/ pc'[p] = "list" /\ call[p].op = "busyclaim"
    BY <1>0, <1>1, <1>3 DEF LockList, Stage
  <2>2. todo[p] = <<>> /\ DOMAIN todo[p] = {}
    BY <1>0, <2>1 DEF Careful
  <2> QED BY <1>0, <2>1, <2>2 DEF Careful, Claims, Within, Writing, Creating
<1>4. CASE List(p)
  <2>1. /\ UNCHANGED <<there, task, issued, linked, target, buf, taskLock, call, todo>>
        /\ pc[p] = "list" /\ pc'[p] = "reading"
    BY <1>1, <1>4 DEF List
  <2>2. /\ (Within(p)' <=> Within(p)) /\ ~Writing(p)' /\ ~Creating(p)'
        /\ Locking(p)' = Locking(p) /\ (Claims(p)' <=> Claims(p))
    BY <2>1 DEF Within, Writing, Creating, Locking, Claims
  <2> QED BY <1>0, <2>1, <2>2 DEF Careful
<1>5. CASE ClaimCheck(p)
  <2>1. /\ UNCHANGED <<there, issued, linked, target, call, todo>> /\ pc[p] = "claimCheck"
        /\ pc'[p] \in {"idle", "lockList"} \/ (pc'[p] = "lockTask" /\ call[p].op = "claim")
    BY <1>1, <1>5 DEF ClaimCheck
  <2>2. todo[p] = <<>> /\ DOMAIN todo[p] = {}
    BY <1>0, <2>1 DEF Careful
  <2> QED BY <1>0, <2>1, <2>2 DEF Careful, Claims, Within, Writing, Creating
<1>6. CASE Inspect(p)
  <2>1. /\ UNCHANGED <<there, task, issued, linked, target, taskLock, call, todo>>
        /\ pc[p] = "inspect" /\ call[p].op = "claim"
        /\ \/ pc'[p] = "list" /\ task[call[p].id].owner \in {NoProc, p}
           \/ pc'[p] = "unlockTask"
    BY <1>0, <1>1, <1>6 DEF Inspect, Claimable, Careful
  <2>2. todo[p] = <<>> /\ DOMAIN todo[p] = {}
    BY <1>0, <2>1 DEF Careful
  <2>3. taskLock[Locking(p)] = p /\ Locking(p)' = Locking(p)
    BY <1>0, <2>1 DEF Careful, Within, Locking
  <2> QED BY <1>0, <2>1, <2>2, <2>3 DEF Careful, Claims, Within, Writing, Creating
<1> QED BY <1>2, <1>3, <1>4, <1>5, <1>6

\* The locks of the tasks, and the steps from one update to the next.
LEMMA UpdatesCareful ==
  ASSUME OwnerInv, NEW p \in Procs, LockTask(p) \/ UnlockTask(p) \/ Check(p)
  PROVE  Careful(p)'
<1> USE DEF files, marks, locks, reads, writes, ghosts
<1>0. /\ Careful(p) /\ Types /\ Sound /\ todo[p] \in Seq(Entry)
      /\ todo = [q \in Procs |-> todo[q]]
      /\ linked[p] => pc[p] \in {"fill", "dead"} /\ target[p] \in there
  BY DEF OwnerInv, IInv, Careful, Sound, WritesSound
<1>1. \A l : Goto(p, l) => pc'[p] = l
  BY <1>0 DEF Goto, Types
<1> HIDE DEF Goto
<1>2. CASE LockTask(p)
  <2>1. /\ UNCHANGED <<there, task, issued, linked, target, call, todo>> /\ pc[p] = "lockTask"
        /\ pc'[p] = IF call[p].op = "claim" THEN "inspect" ELSE "reread"
        /\ taskLock' = [taskLock EXCEPT ![Locking(p)] = p]
    BY <1>1, <1>2 DEF LockTask
  <2>2. Locking(p) \in Ids /\ Locking(p)' = Locking(p)
    <3>1. Locking(p) \in issued
      BY <1>0, <2>1, LockingIssued
    <3> QED BY <1>0, <2>1, <3>1 DEF Sound, FilesSound, Locking
  <2>3. taskLock'[Locking(p)] = p
    <3> HIDE DEF Locking
    <3> QED BY <1>0, <2>1, <2>2 DEF Sound, LocksSound
  <2>4. ~Writing(p)' /\ ~Creating(p)' /\ (Claims(p)' <=> Claims(p))
    BY <2>1 DEF Writing, Creating, Claims
  <2>5. Within(p)' /\ pc'[p] # "inspect" => call[p].op # "claim"
    BY <2>1
  <2> QED BY <1>0, <2>1, <2>2, <2>3, <2>4, <2>5 DEF Careful
<1>3. ASSUME UNCHANGED <<there, issued, linked, target, call>>, todo[p] # <<>>,
             pc[p] \in {"check", "unlockTask"}, todo'[p] = Tail(todo[p]),
             pc'[p] \in {"idle", "unlockList"} \/ pc'[p] = "check",
             pc'[p] = "check" <=> Tail(todo[p]) # <<>>
      PROVE  Careful(p)'
  <2>1. CASE Tail(todo[p]) = <<>>
    BY <1>0, <1>3, <2>1, Settles DEF Plain
  <2>2. CASE Tail(todo[p]) # <<>>
    <3>1. /\ Tail(todo[p]) \in Seq(Entry)
          /\ \A k \in DOMAIN Tail(todo[p]) :
                k + 1 \in DOMAIN todo[p] /\ Tail(todo[p])[k] = todo[p][k + 1]
      BY <1>0, <1>3, Rest
    <3>2. ~Claims(p)
      <4>1. ASSUME Claims(p) PROVE FALSE
        <5>1. todo[p] = <<[id |-> call[p].id, patch |-> [owner |-> p]]>>
          BY <1>0, <1>3, <4>1 DEF Careful
        <5>2. Tail(todo[p]) = <<>>
          BY <5>1
        <5> QED BY <2>2, <5>2
      <4> QED BY <4>1
    <3>3. \A k \in DOMAIN todo'[p] : "status" \in DOMAIN todo'[p][k].patch =>
            call'[p].op \in {"update", "unassign"}
      BY <1>0, <1>3, <3>1 DEF Careful
    <3>4. ~Within(p)' /\ ~Writing(p)' /\ ~Creating(p)' /\ ~Claims(p)'
      BY <1>3, <2>2, <3>2 DEF Within, Writing, Creating, Claims
    <3>5. pc'[p] = "check" /\ call'[p].op # "create" /\ call'[p].op # "claim"
      BY <1>0, <1>3, <2>2, <3>2 DEF Careful, Claims
    <3> QED BY <1>0, <1>3, <2>2, <3>3, <3>4, <3>5 DEF Careful
  <2> QED BY <2>1, <2>2
<1>4. CASE UnlockTask(p)
  <2>1. /\ UNCHANGED <<there, issued, linked, target, call>> /\ pc[p] = "unlockTask"
        /\ todo'[p] = IF todo[p] = <<>> THEN <<>> ELSE Tail(todo[p])
        /\ pc'[p] = Resume(p, todo'[p])
    BY <1>0, <1>1, <1>4 DEF UnlockTask
  <2>2. /\ pc'[p] \in {"idle", "unlockList", "check"}
        /\ pc'[p] = "check" <=> todo'[p] # <<>>
    BY <2>1 DEF Resume
  <2>3. CASE todo[p] = <<>>
    BY <1>0, <2>1, <2>2, <2>3, Settles DEF Plain
  <2>4. CASE todo[p] # <<>>
    BY <1>3, <2>1, <2>2, <2>4
  <2> QED BY <2>3, <2>4
<1>5. CASE Check(p)
  <2>1. /\ UNCHANGED <<there, task, issued, linked, target, call>> /\ pc[p] = "check"
        /\ \/ pc'[p] = "lockTask" /\ todo'[p] = todo[p]
           \/ todo'[p] = Tail(todo[p]) /\ pc'[p] = Resume(p, Tail(todo[p]))
    BY <1>0, <1>1, <1>5 DEF Check
  <2>2. todo[p] # <<>> /\ call[p].op # "claim" /\ call[p].op # "create"
    BY <1>0, <2>1 DEF Careful
  <2>3. CASE pc'[p] = "lockTask" /\ todo'[p] = todo[p]
    <3>1. ~Within(p)' /\ ~Writing(p)' /\ ~Creating(p)' /\ (Claims(p)' <=> Claims(p))
      BY <2>1, <2>3 DEF Within, Writing, Creating, Claims
    <3> QED BY <1>0, <2>1, <2>2, <2>3, <3>1 DEF Careful
  <2>4. CASE todo'[p] = Tail(todo[p]) /\ pc'[p] = Resume(p, Tail(todo[p]))
    <3>1. /\ pc'[p] \in {"idle", "unlockList", "check"}
          /\ pc'[p] = "check" <=> Tail(todo[p]) # <<>>
      BY <2>4 DEF Resume
    <3> QED BY <1>3, <2>1, <2>2, <2>4, <3>1
  <2> QED BY <2>1, <2>3, <2>4
<1> QED BY <1>2, <1>4, <1>5

\* The steps that open a file, and the one that prepares what to write.
LEMMA OpensCareful ==
  ASSUME OwnerInv, NEW p \in Procs, OpenNew(p) \/ Reread(p) \/ OpenOld(p)
  PROVE  Careful(p)'
<1> USE DEF files, marks, locks, reads, ghosts
<1>0. /\ Careful(p) /\ Types /\ Sound /\ todo[p] \in Seq(Entry) /\ Stage(p)
      /\ linked[p] => pc[p] \in {"fill", "dead"} /\ target[p] \in there
  BY DEF OwnerInv, IInv, Careful, Sound, WritesSound
<1>1. \A l : Goto(p, l) => pc'[p] = l
  BY <1>0 DEF Goto, Types
<1> HIDE DEF Goto
<1>2. CASE OpenNew(p)
  <2> DEFINE n == NewId(p)
  <2>1. /\ UNCHANGED <<task, holder, listLock, taskLock, call, todo>> /\ pc[p] = "scan"
        /\ n \in Ids /\ there' = there \cup {n} /\ torn' = torn \cup {n}
        /\ issued' = issued \cup {n} /\ pc'[p] = "fill"
        /\ target'[p] = n /\ buf'[p] = NewTask
    BY <1>0, <1>1, <1>2 DEF OpenNew, Open, Sound, WritesSound
  <2>2. n \notin issued
    BY <1>2, FreshId DEF OwnerInv
  <2> HIDE DEF n
  <2>3. call[p].op = "create" /\ todo[p] = <<>> /\ DOMAIN todo[p] = {}
    BY <1>0, <2>1 DEF Careful
  <2>4. listLock = p
    BY <1>0, <2>1 DEF Stage, Critical
  <2>5. task[n] = NewTask
    BY <1>0, <2>1, <2>2 DEF Sound, FilesSound
  <2>6. ~Within(p)' /\ ~Writing(p)' /\ ~Claims(p)'
    BY <2>1, <2>3 DEF Within, Writing, Claims
  <2> QED BY <1>0, <2>1, <2>3, <2>4, <2>5, <2>6 DEF Careful
<1>3. CASE Reread(p)
  <2> DEFINE i == Head(todo[p]).id
             b == Merge(Head(todo[p]).patch, task[i])
  <2>1. /\ UNCHANGED <<there, task, issued, linked, taskLock, call, todo>> /\ pc[p] = "reread"
        /\ \/ pc'[p] = "open" /\ target'[p] = i /\ buf'[p] = b
           \/ pc'[p] = "unlockTask" /\ UNCHANGED target
    BY <1>0, <1>1, <1>3 DEF Reread, Sound, WritesSound
  <2>2. todo[p] # <<>> /\ Within(p) /\ taskLock[Locking(p)] = p /\ call[p].op # "create"
    BY <1>0, <2>1 DEF Careful, Within
  <2>3. i = Locking(p)
    <3>1. CASE call[p].op = "claim"
      <4>1. todo[p] = <<[id |-> call[p].id, patch |-> [owner |-> p]]>>
        BY <1>0, <2>2, <3>1 DEF Careful, Claims
      <4> QED BY <3>1, <4>1 DEF Locking
    <3>2. CASE call[p].op # "claim"
      BY <3>2 DEF Locking
    <3> QED BY <3>1, <3>2
  <2>4. Locking(p)' = Locking(p) /\ (Claims(p)' <=> Claims(p)) /\ ~Creating(p)'
    BY <2>1 DEF Locking, Claims, Creating
  <2>5. CASE pc'[p] = "unlockTask"
    BY <1>0, <2>1, <2>5, Settles DEF Plain
  <2>6. CASE pc'[p] = "open"
    <3>1. target'[p] = Locking(p)' /\ buf'[p] = Merge(Head(todo'[p]).patch, task'[target'[p]])
      BY <2>1, <2>3, <2>4, <2>6
    <3>2. ~linked'[p]
      BY <1>0, <2>1
    <3> QED BY <1>0, <2>1, <2>2, <2>4, <2>6, <3>1, <3>2 DEF Careful, Within
  <2> QED BY <2>1, <2>5, <2>6
<1>4. CASE OpenOld(p)
  <2>1. /\ UNCHANGED <<task, issued, taskLock, call, todo, target, buf>> /\ pc[p] = "open"
        /\ pc'[p] = "fill" /\ there' = there \cup {target[p]}
    BY <1>1, <1>4 DEF OpenOld, Open
  <2>2. call[p].op # "create" /\ Writing(p) /\ Within(p)
    BY <1>0, <2>1 DEF Careful, Writing, Within
  <2>3. /\ Locking(p)' = Locking(p) /\ (Claims(p)' <=> Claims(p)) /\ ~Creating(p)'
        /\ Within(p)' /\ Writing(p)'
    BY <2>1, <2>2 DEF Locking, Claims, Creating, Within, Writing
  <2> QED BY <1>0, <2>1, <2>2, <2>3 DEF Careful
<1> QED BY <1>2, <1>3, <1>4

\* The decisions to update.
LEMMA DecidesCareful ==
  ASSUME OwnerInv, NEW p \in Procs,
         DecideClaim(p) \/ DecideBusyClaim(p) \/ DecideUnassign(p) \/ DecideBlock(p)
  PROVE  Careful(p)'
<1> USE DEF files, marks, locks, reads, writes, ghosts
<1>0. /\ Careful(p) /\ Types /\ Sound /\ todo = [q \in Procs |-> todo[q]]
      /\ linked[p] => pc[p] \in {"fill", "dead"} /\ target[p] \in there
  BY DEF OwnerInv, IInv, Careful, Sound, WritesSound
<1>1. ASSUME NEW us, NEW l, Then(p, us, l), pc[p] = "reading"
      PROVE  /\ pc'[p] = l /\ todo'[p] = us /\ ~linked'[p]
             /\ UNCHANGED <<there, task, issued, linked, target, taskLock, call>>
  BY <1>0, <1>1 DEF Then, Goto, Types
<1>2. ASSUME NEW l \in Plain, Then(p, <<>>, l), pc[p] = "reading"
      PROVE  Careful(p)'
  BY <1>0, <1>1, <1>2, Settles
<1>3. ASSUME NEW us, Then(p, us, Resume(p, us)), pc[p] = "reading",
             ~Claims(p), call[p].op # "create",
             \A k \in DOMAIN us : "status" \in DOMAIN us[k].patch => call[p].op = "unassign"
      PROVE  Careful(p)'
  <2>1. CASE us = <<>>
    BY <1>2, <1>3, <2>1 DEF Resume, Plain
  <2>2. CASE us # <<>>
    <3>1. pc'[p] = "check"
      BY <1>1, <1>3, <2>2 DEF Resume
    <3> QED BY <1>0, <1>1, <1>3, <2>2, <3>1
            DEF Careful, Claims, Within, Writing, Creating
  <2> QED BY <2>1, <2>2
<1> HIDE DEF Then
<1>4. CASE DecideClaim(p) \/ DecideBusyClaim(p)
  <2> DEFINE us == <<[id |-> call[p].id, patch |-> [owner |-> p]]>>
  <2>1. /\ pc[p] = "reading"
        /\ \/ call[p].op = "claim" /\ Then(p, us, "reread")
           \/ call[p].op = "busyclaim" /\ Then(p, us, "check")
           \/ Then(p, <<>>, "unlockTask") \/ Then(p, <<>>, "unlockList")
    BY <1>4 DEF DecideClaim, DecideBusyClaim, Read
  <2>2. us # <<>> /\ DOMAIN us = {1} /\ us[1].patch = [owner |-> p]
        /\ "status" \notin DOMAIN us[1].patch
    OBVIOUS
  <2>3. CASE call[p].op = "claim" /\ Then(p, us, "reread")
    <3>1. /\ taskLock[call[p].id] = p /\ task[call[p].id].owner \in {NoProc, p}
      BY <1>0, <2>1, <2>3 DEF Careful, Within, Locking
    <3>2. Locking(p)' = call[p].id /\ ~Writing(p)' /\ ~Creating(p)' /\ Claims(p)'
      BY <1>1, <2>1, <2>3 DEF Locking, Writing, Creating, Claims
    <3>3. todo'[p] = <<[id |-> call'[p].id, patch |-> [owner |-> p]]>>
      BY <1>1, <2>1, <2>3
    <3> HIDE DEF us
    <3> QED BY <1>0, <1>1, <2>1, <2>2, <2>3, <3>1, <3>2, <3>3 DEF Careful, Claims
  <2>4. CASE call[p].op = "busyclaim" /\ Then(p, us, "check")
    <3>1. ~Within(p)' /\ ~Writing(p)' /\ ~Creating(p)' /\ Claims(p)'
      BY <1>1, <2>1, <2>4 DEF Within, Writing, Creating, Claims
    <3>2. todo'[p] = <<[id |-> call'[p].id, patch |-> [owner |-> p]]>>
      BY <1>1, <2>1, <2>4
    <3> HIDE DEF us
    <3> QED BY <1>0, <1>1, <2>1, <2>2, <2>4, <3>1, <3>2 DEF Careful, Claims
  <2> QED BY <1>2, <2>1, <2>3, <2>4 DEF Plain
<1>5. CASE DecideUnassign(p)
  <2> DEFINE theirs == {i \in OpenTasks(p) : snap[p][i].owner = call[p].who}
             patches == [i \in theirs |-> [owner |-> NoProc, status |-> "pending"]]
  <2>1. /\ UpdateEach(p, patches) /\ DOMAIN patches \subseteq DOMAIN snap[p]
        /\ \A i \in DOMAIN patches :
              patches[i] = [owner |-> NoProc, status |-> "pending"]
        /\ call[p].op = "unassign" /\ pc[p] = "reading"
    BY <1>5 DEF DecideUnassign, OpenTasks, Listed, Read
  <2> HIDE DEF patches
  <2>2. DOMAIN patches \subseteq issued
    BY <1>0, <2>1 DEF Sound, ReadsSound
  <2>3. [owner |-> NoProc, status |-> "pending"] \in Patch
    BY DEF Patch, Statuses
  <2>4. \E us \in Seq(Entry) : Then(p, us, Resume(p, us))
    BY <1>0, <2>1, <2>2, <2>3, OneEach
  <2> QED BY <1>3, <2>1, <2>4 DEF Claims
<1>6. CASE DecideBlock(p)
  <2> DEFINE a == call[p].from
             b == call[p].to
             t == snap[p]
             ea == [id |-> a, patch |-> [blocks |-> t[a].blocks \cup {b}]]
             eb == [id |-> b, patch |-> [blockedBy |-> t[b].blockedBy \cup {a}]]
             ua == IF b \in t[a].blocks THEN <<>> ELSE <<ea>>
             ub == IF a \in t[b].blockedBy THEN <<>> ELSE <<eb>>
             us == IF ~({a, b} \subseteq Listed(p)) THEN <<>> ELSE ua \o ub
  <2>1. Then(p, us, Resume(p, us)) /\ call[p].op = "block" /\ pc[p] = "reading"
    BY <1>6 DEF DecideBlock, Read
  <2>2. "status" \notin DOMAIN ea.patch /\ "status" \notin DOMAIN eb.patch
    OBVIOUS
  <2>3. us \in Seq({ea, eb})
    <3>1. ua \in Seq({ea, eb}) /\ ub \in Seq({ea, eb}) /\ <<>> \in Seq({ea, eb})
      <4>1. \A x, y : <<x>> \in Seq({x, y}) /\ <<y>> \in Seq({x, y}) /\ <<>> \in Seq({x, y})
        OBVIOUS
      <4> HIDE DEF ea, eb
      <4> QED BY <4>1
    <3> HIDE DEF ua, ub, ea, eb
    <3> QED BY <3>1
  <2>4. \A k \in DOMAIN us : us[k] = ea \/ us[k] = eb
    <3> HIDE DEF us, ea, eb
    <3> QED BY <2>3
  <2>5. \A k \in DOMAIN us : "status" \notin DOMAIN us[k].patch
    <3> HIDE DEF us, ea, eb
    <3> QED BY <2>2, <2>4
  <2> HIDE DEF us
  <2> QED BY <1>3, <2>1, <2>5 DEF Claims
<1> QED BY <1>4, <1>5, <1>6

\* A step of a session leaves it careful, and the others as well.
LEMMA NextCareful ==
  ASSUME NoDelete, OwnerInv, NEW p \in Procs, Step(p)
  PROVE  \A q \in Procs : Careful(q)'
<1>1. ~DecideDelete(p) /\ ~RemoveFile(p)
  BY DEF DecideDelete, RemoveFile, Read, OwnerInv, IInv, Stage
<1>2. ASSUME NEW q \in Procs, q # p PROVE Careful(q)'
  BY <1>1, <1>2, Undisturbed
<1>3. Careful(p)'
  <2>1. CASE StartWhole(p) \/ StartOnTask(p)
    BY <2>1, StartsCareful
  <2>2. CASE \/ ListLockFails(p) \/ UnlockList(p) \/ TaskLockFails(p) \/ Crash(p) \/ Fill(p)
             \/ DecideAutoclear(p) \/ ReadHigh(p) \/ ReadMark(p) \/ OpenMark(p) \/ FillMark(p)
             \/ SweepList(p) \/ (\E i \in Ids : Sweep(p, i)) \/ Swept(p)
    BY <2>2, SettlesCareful
  <2>3. CASE \/ ScanDir(p) \/ ScanMark(p) \/ (\E i \in Ids : ReadTask(p, i)) \/ LockList(p)
             \/ List(p) \/ ClaimCheck(p) \/ Inspect(p)
    BY <2>3, ReadsCareful
  <2>4. CASE LockTask(p) \/ UnlockTask(p) \/ Check(p)
    BY <2>4, UpdatesCareful
  <2>5. CASE OpenNew(p) \/ Reread(p) \/ OpenOld(p)
    BY <2>5, OpensCareful
  <2>6. CASE DecideClaim(p) \/ DecideBusyClaim(p) \/ DecideUnassign(p) \/ DecideBlock(p)
    BY <2>6, DecidesCareful
  <2> QED BY <1>1, <2>1, <2>2, <2>3, <2>4, <2>5, <2>6 DEF Step, Work, GiveUp
<1> QED BY <1>2, <1>3

\* Whoever comes to lock a task's file has found it readable.
LEMMA Entering ==
  ASSUME NoDelete, OwnerInv, NEW p \in Procs, Step(p), Within(p)' \/ pc'[p] = "lockTask"
  PROVE  \/ Locking(p)' = Locking(p) /\ (Within(p) \/ pc[p] = "lockTask")
         \/ Readable(Locking(p)')
<1>0. Careful(p) /\ Types /\ Sound /\ todo = [q \in Procs |-> todo[q]]
  BY DEF OwnerInv, IInv, Sound, WritesSound
<1>1. \A l : Goto(p, l) => pc'[p] = l
  BY <1>0 DEF Goto, Types
<1> HIDE DEF Goto
<1>2. ~Away(p)'
  BY DEF Away
<1>3. CASE LockTask(p) \/ Reread(p) \/ OpenOld(p) \/ List(p)
           \/ (\E i \in Ids : ReadTask(p, i)) \/ Inspect(p)
  <2>1. UNCHANGED <<call, todo>>
    BY <1>3 DEF LockTask, Reread, OpenOld, Open, List, ReadTask, Inspect
  <2>2. Within(p) \/ pc[p] = "lockTask"
    <3>1. CASE LockTask(p) \/ Reread(p) \/ OpenOld(p) \/ Inspect(p)
      BY <3>1 DEF LockTask, Reread, OpenOld, Inspect, Within, Writing
    <3>2. CASE List(p)
      <4>1. pc[p] = "list" /\ pc'[p] = "reading"
        BY <1>1, <3>2 DEF List
      <4> QED BY <2>1, <4>1 DEF Within, Writing
    <3>3. CASE \E i \in Ids : ReadTask(p, i)
      <4>1. pc[p] = "reading" /\ pc'[p] = "reading"
        BY <3>3 DEF ReadTask
      <4> QED BY <2>1, <4>1 DEF Within, Writing
    <3> QED BY <1>3, <3>1, <3>2, <3>3
  <2> QED BY <2>1, <2>2 DEF Locking
<1>4. CASE Check(p)
  <2>1. /\ UNCHANGED call /\ pc[p] = "check" /\ call[p].op # "claim"
        /\ \/ pc'[p] = "lockTask" /\ todo'[p] = todo[p] /\ Readable(Head(todo[p]).id)
           \/ pc'[p] \in {"check", "idle", "unlockList"}
    BY <1>0, <1>1, <1>4 DEF Check, Resume, Careful
  <2> QED BY <2>1 DEF Within, Writing, Locking
<1>5. CASE ClaimCheck(p)
  <2>1. /\ UNCHANGED <<call, todo>>
        /\ \/ pc'[p] = "lockTask" /\ call[p].op = "claim" /\ Readable(call[p].id)
           \/ pc'[p] \in {"idle", "lockList"}
    BY <1>1, <1>5 DEF ClaimCheck
  <2> QED BY <2>1 DEF Within, Writing, Locking
<1>6. CASE UnlockTask(p) \/ LockList(p) \/ ScanDir(p) \/ ScanMark(p) \/ OpenNew(p)
  <2>1. UNCHANGED call
    BY <1>6 DEF UnlockTask, LockList, ScanDir, ScanMark, OpenNew, Open
  <2>2. \/ pc'[p] \in {"check", "idle", "unlockList", "readHigh", "scan"}
        \/ pc'[p] = "list" /\ call[p].op # "claim"
        \/ pc'[p] = "fill" /\ call[p].op = "create"
    <3>1. CASE UnlockTask(p)
      BY <1>1, <3>1 DEF UnlockTask, Resume
    <3>2. CASE LockList(p)
      <4>1. Stage(p)
        BY DEF OwnerInv, IInv
      <4> QED BY <1>1, <3>2, <4>1 DEF LockList, Stage
    <3>3. CASE ScanDir(p) \/ ScanMark(p) \/ OpenNew(p)
      BY <1>0, <1>1, <3>3 DEF ScanDir, ScanMark, OpenNew, Open, Careful
    <3> QED BY <1>6, <3>1, <3>2, <3>3
  <2> QED BY <2>1, <2>2 DEF Within, Writing
<1>7. CASE DecideClaim(p) \/ DecideBusyClaim(p) \/ DecideUnassign(p) \/ DecideBlock(p)
  <2>1. \A us, l : Then(p, us, l) => pc'[p] = l /\ UNCHANGED call
    BY <1>1 DEF Then
  <2>2. CASE DecideClaim(p)
    <3>1. /\ UNCHANGED call /\ call[p].op = "claim" /\ pc[p] = "reading"
      <4> HIDE DEF Then
      <4> QED BY <2>1, <2>2 DEF DecideClaim, Read
    <3> QED BY <3>1 DEF Locking, Within
  <2>3. CASE DecideBusyClaim(p) \/ DecideUnassign(p) \/ DecideBlock(p)
    <3>1. \E us, l : Then(p, us, l) /\ l \in {"check", "idle", "unlockList"}
      <4> HIDE DEF Then
      <4>1. \A us : Resume(p, us) \in {"check", "idle", "unlockList"}
        BY DEF Resume
      <4> HIDE DEF Resume
      <4>2. CASE DecideBusyClaim(p)
        BY <4>2 DEF DecideBusyClaim
      <4>3. CASE DecideBlock(p)
        BY <4>1, <4>3 DEF DecideBlock
      <4>4. CASE DecideUnassign(p)
        <5>1. PICK us : Then(p, us, Resume(p, us))
          BY <4>4, Zenon DEF DecideUnassign, UpdateEach
        <5> QED BY <4>1, <5>1
      <4> QED BY <2>3, <4>2, <4>3, <4>4
    <3>2. pc'[p] \in {"check", "idle", "unlockList"}
      <4> HIDE DEF Then
      <4> QED BY <2>1, <3>1
    <3> QED BY <3>2 DEF Within, Writing
  <2> QED BY <1>7, <2>2, <2>3
<1>8. CASE StartWhole(p) \/ StartOnTask(p)
  BY <1>2, <1>8, StartsCareful
<1>9. CASE \/ ListLockFails(p) \/ UnlockList(p) \/ TaskLockFails(p) \/ Crash(p) \/ Fill(p)
           \/ DecideAutoclear(p) \/ ReadHigh(p) \/ ReadMark(p) \/ OpenMark(p) \/ FillMark(p)
           \/ SweepList(p) \/ (\E i \in Ids : Sweep(p, i)) \/ Swept(p)
  BY <1>2, <1>9, SettlesCareful
<1>10. ~DecideDelete(p) /\ ~RemoveFile(p)
  BY DEF DecideDelete, RemoveFile, Read, OwnerInv, IInv, Stage
<1> QED BY <1>3, <1>4, <1>5, <1>6, <1>7, <1>8, <1>9, <1>10 DEF Step, Work, GiveUp

LEMMA Created ==
  ASSUME NoDelete, OwnerInv, NEW p \in Procs, Step(p), Creating(p)'
  PROVE  OpenNew(p)
<1>0. Careful(p) /\ Types /\ Sound /\ Stage(p)
  BY DEF OwnerInv, IInv
<1>1. \A l : Goto(p, l) => pc'[p] = l
  BY <1>0 DEF Goto, Types
<1>2. pc'[p] = "fill" /\ call'[p].op = "create" /\ ~Away(p)'
  BY DEF Creating, Away
<1> HIDE DEF Goto
<1>3. ~OpenOld(p)
  BY <1>0, <1>2 DEF OpenOld, Open, Careful
<1>4. ~LockTask(p) /\ ~Reread(p) /\ ~List(p) /\ ~Inspect(p) /\ ~Check(p) /\ ~ClaimCheck(p)
      /\ ~UnlockTask(p)
  BY <1>1, <1>2 DEF LockTask, Reread, List, Inspect, Check, ClaimCheck, UnlockTask, Resume
<1>5. ~LockList(p)
  BY <1>0, <1>1, <1>2 DEF LockList, Stage
<1>6. ~ScanDir(p) /\ ~ScanMark(p) /\ ~(\E i \in Ids : ReadTask(p, i))
  BY <1>2 DEF ScanDir, ScanMark, ReadTask
<1>7. ~DecideClaim(p) /\ ~DecideBusyClaim(p) /\ ~DecideUnassign(p) /\ ~DecideBlock(p)
  <2>1. ASSUME DecideClaim(p) \/ DecideBusyClaim(p) \/ DecideUnassign(p) \/ DecideBlock(p)
        PROVE  FALSE
    <3>1. \E us, l : Then(p, us, l) /\ l \in {"check", "idle", "unlockList", "unlockTask", "reread"}
      <4> HIDE DEF Then
      <4>1. \A us : Resume(p, us) \in {"check", "idle", "unlockList"}
        BY DEF Resume
      <4> HIDE DEF Resume
      <4>2. CASE DecideClaim(p) \/ DecideBusyClaim(p)
        BY <4>2 DEF DecideClaim, DecideBusyClaim
      <4>3. CASE DecideBlock(p)
        BY <4>1, <4>3 DEF DecideBlock
      <4>4. CASE DecideUnassign(p)
        <5>1. PICK us : Then(p, us, Resume(p, us))
          BY <4>4, Zenon DEF DecideUnassign, UpdateEach
        <5> QED BY <4>1, <5>1
      <4> QED BY <2>1, <4>2, <4>3, <4>4
    <3> QED BY <1>1, <1>2, <3>1 DEF Then
  <2> QED BY <2>1
<1>8. ~StartWhole(p) /\ ~StartOnTask(p)
  BY <1>2, StartsCareful
<1>9. ~(\/ ListLockFails(p) \/ UnlockList(p) \/ TaskLockFails(p) \/ Crash(p) \/ Fill(p)
        \/ DecideAutoclear(p) \/ ReadHigh(p) \/ ReadMark(p) \/ OpenMark(p) \/ FillMark(p)
        \/ SweepList(p) \/ (\E i \in Ids : Sweep(p, i)) \/ Swept(p))
  BY <1>2, SettlesCareful
<1>10. ~DecideDelete(p) /\ ~RemoveFile(p)
  BY <1>0 DEF DecideDelete, RemoveFile, Read, Stage
<1> QED BY <1>3, <1>4, <1>5, <1>6, <1>7, <1>8, <1>9, <1>10 DEF Step, Work, GiveUp

\* Nobody is about to write the file of a task that is being created.
LEMMA NextApart ==
  ASSUME NoDelete, OwnerInv, NEW p \in Procs, Step(p)
  PROVE  Apart'
<1> SUFFICES ASSUME NEW x \in Procs, NEW y \in Procs, Creating(x)',
                    Within(y)' \/ pc'[y] = "lockTask"
             PROVE  Locking(y)' # target'[x]
  BY DEF Apart
<1>0. /\ Types /\ Sound /\ Careful(x) /\ Careful(y)
      /\ Creating(x) => target[x] \in torn
      /\ Careful(x)' /\ Careful(y)'
  BY NextCareful DEF OwnerInv, IInv, Careful
<1>1. x # y
  BY <1>0 DEF Creating, Within, Writing, Careful
<1>2. ASSUME NEW q \in Procs, q # p
      PROVE  /\ target'[q] = target[q] /\ Locking(q)' = Locking(q) /\ pc'[q] = pc[q]
             /\ Within(q)' <=> Within(q)
             /\ Creating(q)' <=> Creating(q)
  <2>1. /\ pc'[q] = pc[q] /\ call'[q] = call[q] /\ todo'[q] = todo[q]
        /\ target'[q] = target[q] /\ buf'[q] = buf[q]
    BY <1>0, <1>2, SoundTables, OthersStay
  <2> QED BY <2>1 DEF Locking, Within, Writing, Creating
<1>3. CASE x = p
  <2>1. OpenNew(p)
    BY <1>3, Created
  <2>2. target'[p] = NewId(p) /\ NewId(p) \notin issued
    BY <1>0, <2>1, FreshId DEF OpenNew, OwnerInv, Sound, WritesSound
  <2>3. Locking(y)' = Locking(y) /\ (Within(y) \/ pc[y] = "lockTask")
    BY <1>1, <1>2, <1>3
  <2>4. Locking(y) \in issued
    BY <1>0, <2>3, LockingIssued
  <2> QED BY <1>3, <2>2, <2>3, <2>4
<1>4. CASE x # p /\ y = p
  <2>1. Creating(x) /\ target'[x] = target[x] /\ target[x] \in torn
    BY <1>0, <1>2, <1>4
  <2>2. CASE Locking(p)' = Locking(p) /\ (Within(p) \/ pc[p] = "lockTask")
    BY <1>4, <2>1, <2>2 DEF OwnerInv, Apart
  <2>3. CASE Readable(Locking(p)')
    BY <1>4, <2>1, <2>3 DEF Readable
  <2> QED BY <1>4, <2>2, <2>3, Entering
<1>5. CASE x # p /\ y # p
  <2>1. /\ Creating(x) /\ target'[x] = target[x] /\ Locking(y)' = Locking(y)
        /\ Within(y) \/ pc[y] = "lockTask"
    BY <1>2, <1>5
  <2> QED BY <2>1 DEF OwnerInv, Apart
<1> QED BY <1>3, <1>4, <1>5

\* What filling a file does to the task in it.
LEMMA Filling ==
  ASSUME OwnerInv, NEW p \in Procs, Fill(p), linked[p]
  PROVE  /\ target[p] \in there /\ target[p] \in Ids
         /\ task' = [task EXCEPT ![target[p]] = buf[p]]
         /\ holder' = [holder EXCEPT ![target[p]] = IF Reassigns(p) THEN NoProc ELSE @]
         /\ Creating(p) => buf[p] = task[target[p]] /\ ~Reassigns(p)
         /\ Claims(p) => buf[p].owner = p /\ ~Reassigns(p)
         /\ ~Reassigns(p) /\ ~Claims(p) => buf[p].owner = task[target[p]].owner
         /\ \/ buf[p].status = task[target[p]].status
            \/ /\ call[p].op \in {"update", "unassign"}
               /\ "status" \in DOMAIN Head(todo[p]).patch
<1> DEFINE i == target[p]
<1>0. /\ Careful(p) /\ Sound /\ i \in there /\ i \in Ids /\ pc[p] = "fill"
      /\ task[i] \in Task
  BY DEF OwnerInv, Careful, Sound, FilesSound, Fill
<1>1. /\ task' = [task EXCEPT ![i] = buf[p]]
      /\ holder' = [holder EXCEPT ![i] = IF Reassigns(p) THEN NoProc ELSE @]
  BY DEF Fill
<1>2. CASE Creating(p)
  <2>1. /\ buf[p] = task[i] /\ ~Claims(p) /\ todo[p] = <<>> /\ ~Reassigns(p)
    BY <1>0, <1>2 DEF Careful, Creating, Claims, Reassigns
  <2> QED BY <1>0, <1>1, <2>1
<1>3. CASE ~Creating(p)
  <2> DEFINE patch == Head(todo[p]).patch
  <2>1. Writing(p) /\ todo[p] # <<>> /\ todo[p] \in Seq(Entry)
    BY <1>0, <1>3 DEF Creating, Writing, Careful, Sound, WritesSound
  <2>2. Head(todo[p]) \in Entry /\ Head(todo[p]) = todo[p][1] /\ 1 \in DOMAIN todo[p]
    BY <2>1, Rest
  <2>3. patch \in Patch
    BY <2>2 DEF Entry
  <2>4. buf[p] = Merge(patch, task[i])
    BY <1>0, <2>1 DEF Careful
  <2>5. Claims(p) => patch = [owner |-> p] /\ "owner" \in DOMAIN patch
    <3>1. ASSUME Claims(p) PROVE patch = [owner |-> p]
      <4>1. todo[p] = <<[id |-> call[p].id, patch |-> [owner |-> p]]>>
        BY <1>0, <2>1, <3>1 DEF Careful
      <4> QED BY <4>1
    <3> QED BY <3>1
  <2>6. "status" \in DOMAIN patch => call[p].op \in {"update", "unassign"}
    BY <1>0, <2>2 DEF Careful
  <2>7. /\ ~Claims(p) => (Reassigns(p) <=> "owner" \in DOMAIN patch)
        /\ Claims(p) => ~Reassigns(p)
    BY <2>1 DEF Reassigns
  <2> HIDE DEF patch
  <2>8. "status" \in DOMAIN patch \/ buf[p].status = task[i].status
    BY <1>0, <2>3, <2>4, Merged
  <2>9. Claims(p) => buf[p].owner = p
    BY <1>0, <2>3, <2>4, <2>5, Merged
  <2>10. ~Reassigns(p) /\ ~Claims(p) => buf[p].owner = task[i].owner
    BY <1>0, <2>3, <2>4, <2>7, Merged
  <2> QED BY <1>0, <1>1, <1>3, <2>6, <2>7, <2>8, <2>9, <2>10 DEF patch
<1> QED BY <1>2, <1>3

\* What a step may do to the tasks' files and to who was told what.
LEMMA Changes ==
  ASSUME NoDelete, OwnerInv, NEW p \in Procs, Step(p)
  PROVE  \/ Fill(p) /\ linked[p]
         \/ \E i \in Ids : Sweep(p, i)
         \/ OpenNew(p) \/ OpenOld(p)
         \/ UNCHANGED <<task, there, torn>> /\ (Check(p) \/ UnlockTask(p))
         \/ UNCHANGED <<task, there, torn, holder>>
<1> USE DEF files, writes, ghosts
<1>1. CASE Fill(p)
  BY <1>1 DEF Fill
<1>2. CASE LockList(p) \/ UnlockList(p) \/ LockTask(p) \/ UnlockTask(p)
  BY <1>2 DEF LockList, UnlockList, LockTask, UnlockTask
<1>3. ~RemoveFile(p)
  BY DEF RemoveFile, OwnerInv, IInv, Stage
<1> QED BY <1>1, <1>2, <1>3, QuietFiles

LEMMA InitOwner == Init => OwnerInv
<1> SUFFICES ASSUME Init PROVE OwnerInv
  OBVIOUS
<1>1. IInv /\ Sound
  BY InitIInv, InitSound
<1>2. ASSUME NEW p \in Procs PROVE Careful(p)
  <2>1. /\ pc[p] = "idle" /\ call[p].op = "none" /\ todo[p] = <<>> /\ linked[p] = FALSE
        /\ DOMAIN <<>> = {}
    BY DEF Init, NoCall
  <2> QED BY <2>1 DEF Careful, Claims, Within, Writing, Creating
<1>3. Apart
  BY DEF Init, Apart, Creating
<1> QED BY <1>1, <1>2, <1>3 DEF OwnerInv

\* A lock that expires is one of a dead session.
LEMMA ExpiringKeeps ==
  ASSUME Sound, LockExpires, NEW q \in Procs, pc[q] # "dead"
  PROVE  /\ listLock = q => listLock' = q
         /\ \A i \in Ids : taskLock[i] = q => taskLock'[i] = q
BY DEF LockExpires, Sound, LocksSound

LEMMA NextOwner ==
  ASSUME NoDelete, OwnerInv, [Next]_vars
  PROVE  OwnerInv'
<1>1. IInv' /\ Sound'
  BY NextIInv, NextSound DEF OwnerInv
<1>2. CASE \E p \in Procs : Step(p)
  BY <1>1, <1>2, NextCareful, NextApart DEF OwnerInv
<1>3. CASE LockExpires
  <2>1. UNCHANGED <<there, torn, task, issued, holder, linked, target, buf, pc, call, todo>>
    BY <1>3 DEF LockExpires, files, writes, ghosts
  <2>2. ASSUME NEW q \in Procs PROVE Careful(q)'
    <3>1. /\ Careful(q) /\ Sound
          /\ linked[q] => target[q] \in there
          /\ Creating(q) => listLock = q /\ target[q] \in torn /\ pc[q] # "dead"
          /\ Within(q) => taskLock[Locking(q)] = q /\ pc[q] # "dead"
      BY DEF OwnerInv, Careful, Creating, Within, Writing
    <3>2. Creating(q) => listLock' = listLock
      BY <1>3, <3>1, ExpiringKeeps
    <3>3. Within(q) => taskLock'[Locking(q)] = taskLock[Locking(q)]
      <4>1. Within(q) => Locking(q) \in Ids
        BY <3>1, LockingIssued DEF Sound, FilesSound
      <4> QED BY <1>3, <3>1, <4>1, ExpiringKeeps
    <3> QED BY <2>1, <3>1, <3>2, <3>3, StaysCareful
  <2>3. Apart'
    BY <2>1 DEF OwnerInv, Apart, Creating, Within, Writing, Locking
  <2> QED BY <1>1, <2>2, <2>3 DEF OwnerInv
<1>4. CASE UNCHANGED vars
  <2>1. UNCHANGED <<there, torn, task, issued, holder, linked, target, buf, pc, call, todo,
                    listLock, taskLock>>
    BY <1>4 DEF vars, files, locks, writes, ghosts
  <2>2. \A q \in Procs : Careful(q)'
    BY <2>1 DEF OwnerInv, Careful, Claims, Creating, Within, Writing, Locking
  <2>3. Apart'
    BY <2>1 DEF OwnerInv, Apart, Creating, Within, Writing, Locking
  <2> QED BY <1>1, <2>2, <2>3 DEF OwnerInv
<1> QED BY <1>2, <1>3, <1>4 DEF Next, Step

-----------------------------------------------------------------------------
(* Who was told what.  A plain claim is answered under the lock of the     *)
(* task's file; from its look at the task to its answer the session is the *)
(* only one that changes the owner, or the file is gone.                   *)

NoBusy == "busyclaim" \notin Menu

Sure(p) == call[p].op = "claim" /\ pc[p] \in {"list", "reading", "reread"}
Aware(p) == Sure(p) \/ Writing(p)
Answering(p) == call[p].op = "claim" /\ pc[p] = "unlockTask"

Honest(p) ==
    /\ Answering(p) => taskLock[call[p].id] = p
    /\ Aware(p) => holder[Locking(p)] \in {NoProc, task[Locking(p)].owner}
    /\ Sure(p) => call[p].id \notin torn
    /\ call[p].op = "claim" /\ pc[p] = "fill" => linked[p] \/ call[p].id \notin there
    /\ Answering(p) /\ todo[p] # <<>> =>
          /\ holder[call[p].id] \in {NoProc, p}
          /\ call[p].id \in there => task[call[p].id].owner = p

HolderInv == OwnerInv /\ HolderIsOwner /\ \A p \in Procs : Honest(p)

\* The lock under which a session looks at a task.
LEMMA Guarding ==
  ASSUME HolderInv, NEW q \in Procs, Aware(q) \/ Answering(q)
  PROVE  /\ taskLock[Locking(q)] = q /\ Locking(q) \in issued /\ Locking(q) \in Ids
         /\ call[q].op = "claim" => Locking(q) = call[q].id
         /\ Writing(q) => target[q] = Locking(q)
<1>1. Careful(q) /\ Honest(q) /\ Sound
  BY DEF HolderInv, OwnerInv
<1>2. CASE Aware(q)
  <2>1. Within(q)
    BY <1>2 DEF Aware, Sure, Within
  <2> QED BY <1>1, <2>1, LockingIssued DEF Careful, Sound, FilesSound, Locking
<1>3. CASE Answering(q)
  BY <1>1, <1>3 DEF Honest, Answering, Careful, Claims, Sound, FilesSound, Locking, Writing
<1> QED BY <1>2, <1>3

\* The steps of others that bear on the task whose lock a session holds.
LEMMA Sheltered ==
  ASSUME NoDelete, NoBusy, HolderInv, NEW p \in Procs, Step(p), NEW q \in Procs, q # p,
         NEW j \in issued, taskLock[j] = q
  PROVE  /\ taskLock'[j] = q /\ task'[j] = task[j] /\ holder'[j] \in {holder[j], NoProc}
         /\ j \in there' => j \in there
         /\ j \in torn' => j \in torn
         /\ linked[q] /\ target[q] = j => linked'[q] \/ j \notin there'
<1> USE DEF files, locks, writes, ghosts
<1>0. /\ OwnerInv /\ Careful(p) /\ Types /\ Sound /\ j \in Ids /\ q # NoProc /\ p # NoProc
      /\ task = [i \in Ids |-> task[i]] /\ holder = [i \in Ids |-> holder[i]]
      /\ taskLock = [i \in Ids |-> taskLock[i]] /\ linked = [r \in Procs |-> linked[r]]
  BY TaskListAssumption
     DEF HolderInv, OwnerInv, IInv, Sound, FilesSound, LocksSound, WritesSound
<1>1. CASE Fill(p) /\ linked[p]
  <2>1. /\ UNCHANGED <<there, taskLock>> /\ linked' = [linked EXCEPT ![p] = FALSE]
        /\ torn' = torn \ {target[p]} /\ task' = [task EXCEPT ![target[p]] = buf[p]]
        /\ holder' = [holder EXCEPT ![target[p]] = IF Reassigns(p) THEN NoProc ELSE @]
        /\ Creating(p) => buf[p] = task[target[p]]
    BY <1>0, <1>1, Filling DEF Fill
  <2>2. target[p] = j => Creating(p)
    <3>1. ~Creating(p) => Writing(p)
      BY <1>1 DEF Fill, Creating, Writing
    <3>2. Writing(p) => taskLock[target[p]] = p
      BY Guarding DEF Aware
    <3> QED BY <3>1, <3>2
  <2>3. task'[j] = task[j]
    BY <1>0, <2>1, <2>2
  <2> QED BY <1>0, <2>1, <2>3
<1>2. CASE \E i \in Ids : Sweep(p, i)
  <2>1. PICK i \in Ids : Sweep(p, i)
    BY <1>2
  <2>2. /\ UNCHANGED <<task, taskLock>> /\ holder' = [holder EXCEPT ![i] = NoProc]
        /\ there' = there \ {i} /\ torn' = torn \ {i}
        /\ linked' = [r \in Procs |-> linked[r] /\ target[r] # i]
    BY <2>1 DEF Sweep, Unlink
  <2> QED BY <1>0, <2>2
<1>3. CASE OpenNew(p)
  <2>1. /\ UNCHANGED <<task, taskLock, holder>> /\ linked' = [linked EXCEPT ![p] = TRUE]
        /\ there' = there \cup {NewId(p)} /\ torn' = torn \cup {NewId(p)}
    BY <1>3 DEF OpenNew, Open
  <2>2. NewId(p) \notin issued
    BY <1>0, <1>3, FreshId DEF OwnerInv
  <2> QED BY <1>0, <2>1, <2>2
<1>4. CASE OpenOld(p)
  <2>1. /\ UNCHANGED <<task, taskLock, holder>> /\ linked' = [linked EXCEPT ![p] = TRUE]
        /\ there' = there \cup {target[p]} /\ torn' = torn \cup {target[p]} /\ Writing(p)
    BY <1>4 DEF OpenOld, Open, Writing
  <2>2. taskLock[target[p]] = p
    BY <2>1, Guarding DEF Aware
  <2> QED BY <1>0, <2>1, <2>2
<1>5. CASE UnlockTask(p)
  <2>1. /\ UNCHANGED <<task, there, torn, linked>> /\ pc[p] = "unlockTask" /\ holder' = Told(p)
        /\ taskLock' = [taskLock EXCEPT ![Locking(p)] = IF @ = p THEN NoProc ELSE @]
    BY <1>5 DEF UnlockTask
  <2>2. holder'[j] = holder[j]
    <3>1. CASE Claims(p) /\ todo[p] # <<>>
      <4>1. Answering(p)
        BY <1>0, <2>1, <3>1 DEF Claims, Answering, Careful, NoBusy
      <4>2. taskLock[call[p].id] = p
        BY <4>1 DEF HolderInv, Honest
      <4> QED BY <1>0, <2>1, <3>1, <4>2 DEF Told
    <3>2. CASE ~(Claims(p) /\ todo[p] # <<>>)
      BY <2>1, <3>2 DEF Told
    <3> QED BY <3>1, <3>2
  <2>3. taskLock'[j] = q
    <3> HIDE DEF Locking
    <3> QED BY <1>0, <2>1
  <2> QED BY <2>1, <2>2, <2>3
<1>6. CASE LockTask(p)
  <2>1. /\ UNCHANGED <<task, there, torn, linked, holder>> /\ taskLock[Locking(p)] = NoProc
        /\ taskLock' = [taskLock EXCEPT ![Locking(p)] = p]
    BY <1>6 DEF LockTask
  <2> HIDE DEF Locking
  <2> QED BY <1>0, <2>1
<1>7. CASE Check(p)
  <2>1. UNCHANGED <<task, there, torn, linked, taskLock>> /\ pc[p] = "check"
    BY <1>7 DEF Check
  <2>2. ~Claims(p)
    BY <1>0, <2>1 DEF Claims, Careful, NoBusy
  <2>3. UNCHANGED holder
    BY <1>7, <2>2 DEF Check, Told
  <2> QED BY <2>1, <2>3
<1>8. CASE LockList(p) \/ UnlockList(p)
  BY <1>8 DEF LockList, UnlockList
<1>9. CASE Fill(p) /\ ~linked[p]
  <2>1. UNCHANGED <<task, there, torn, holder, taskLock>> /\ linked' = [linked EXCEPT ![p] = FALSE]
    BY <1>9 DEF Fill
  <2> QED BY <1>0, <2>1
<1>10. ~RemoveFile(p)
  BY <1>0 DEF RemoveFile, OwnerInv, IInv, Stage
<1> QED
  BY <1>1, <1>2, <1>3, <1>4, <1>5, <1>6, <1>7, <1>8, <1>9, <1>10, QuietFiles

\* What a session was told or is about to be told is not disturbed by the others.
LEMMA HonestStays ==
  ASSUME NoDelete, NoBusy, HolderInv, NEW p \in Procs, Step(p), NEW q \in Procs, q # p
  PROVE  Honest(q)'
<1>0. Honest(q) /\ Types /\ Sound /\ Careful(q)
  BY DEF HolderInv, OwnerInv, IInv
<1>1. /\ pc'[q] = pc[q] /\ call'[q] = call[q] /\ todo'[q] = todo[q] /\ target'[q] = target[q]
  BY <1>0, SoundTables, OthersStay
<1>2. /\ Locking(q)' = Locking(q) /\ (Sure(q)' <=> Sure(q)) /\ (Aware(q)' <=> Aware(q))
      /\ (Answering(q)' <=> Answering(q))
  BY <1>1 DEF Locking, Sure, Aware, Answering, Writing
<1>3. CASE ~Aware(q) /\ ~Answering(q)
  BY <1>1, <1>2, <1>3 DEF Honest, Sure, Aware, Writing
<1>4. CASE Aware(q) \/ Answering(q)
  <2> DEFINE j == Locking(q)
  <2>1. /\ taskLock[j] = q /\ j \in issued
        /\ call[q].op = "claim" => j = call[q].id
        /\ Writing(q) => target[q] = j
    BY <1>4, Guarding
  <2> HIDE DEF j
  <2>2. /\ taskLock'[j] = q /\ task'[j] = task[j] /\ holder'[j] \in {holder[j], NoProc}
        /\ j \in there' => j \in there
        /\ j \in torn' => j \in torn
        /\ linked[q] /\ target[q] = j => linked'[q] \/ j \notin there'
    BY <2>1, Sheltered
  <2>3. Aware(q) => holder'[j] \in {NoProc, task'[j].owner}
    BY <1>0, <2>2 DEF Honest, j
  <2>4. Sure(q) => j \notin torn'
    BY <1>0, <2>1, <2>2 DEF Honest, Sure
  <2>5. call[q].op = "claim" /\ pc[q] = "fill" => linked'[q] \/ j \notin there'
    BY <1>0, <2>1, <2>2 DEF Honest, Writing
  <2>6. Answering(q) => call[q].op = "claim"
    BY DEF Answering
  <2>7. Answering(q) /\ todo[q] # <<>> =>
           holder'[j] \in {NoProc, q} /\ (j \in there' => task'[j].owner = q)
    BY <1>0, <2>1, <2>2, <2>6 DEF Honest
  <2>8. j' = j
    BY <1>2 DEF j
  <2>9. /\ Answering(q)' => taskLock'[call'[q].id] = q
        /\ Aware(q)' => holder'[Locking(q)'] \in {NoProc, task'[Locking(q)'].owner}
        /\ Sure(q)' => call'[q].id \notin torn'
        /\ call'[q].op = "claim" /\ pc'[q] = "fill" => linked'[q] \/ call'[q].id \notin there'
        /\ Answering(q)' /\ todo'[q] # <<>> =>
              /\ holder'[call'[q].id] \in {NoProc, q}
              /\ call'[q].id \in there' => task'[call'[q].id].owner = q
    BY <1>1, <1>2, <2>1, <2>2, <2>3, <2>4, <2>5, <2>6, <2>7 DEF Sure, j
  <2> QED BY <2>9 DEF Honest
<1> QED BY <1>3, <1>4

\* The steps of a plain claim from its look at the task to its answer.
LEMMA Turning ==
  ASSUME NoDelete, OwnerInv, NEW p \in Procs, Step(p),
         Aware(p)' \/ Answering(p)' \/ (call'[p].op = "claim" /\ pc'[p] = "fill")
  PROVE  /\ \/ Inspect(p) \/ DecideClaim(p) \/ Reread(p) \/ OpenOld(p) \/ Fill(p)
            \/ List(p) \/ (\E i \in Ids : ReadTask(p, i))
         /\ UNCHANGED call
<1>0. Careful(p) /\ Types /\ Sound /\ Stage(p)
  BY DEF OwnerInv, IInv
<1>1. \A l : Goto(p, l) => pc'[p] = l
  BY <1>0 DEF Goto, Types
<1>2. pc'[p] = "unlockTask" \/ Aware(p)' \/ (call'[p].op = "claim" /\ pc'[p] = "fill")
  BY DEF Answering
<1>3. pc'[p] = "unlockTask" \/ ~Away(p)'
  BY <1>2 DEF Away, Aware, Sure, Within, Writing
<1>4. /\ pc'[p] \in {"unlockTask", "list", "reading", "reread", "open", "fill"}
      /\ pc'[p] \in {"list", "reading", "reread"} => call'[p].op = "claim"
      /\ pc'[p] = "fill" => call'[p].op # "create"
  BY <1>2 DEF Aware, Sure, Writing
<1> HIDE DEF Goto
<1>5. ~StartWhole(p) /\ ~StartOnTask(p)
  <2>1. StartWhole(p) \/ StartOnTask(p) => pc'[p] # "unlockTask"
    <3>1. \A c, l : Start(p, c, l) => pc'[p] = l
      BY <1>1 DEF Start
    <3>2. StartWhole(p) \/ StartOnTask(p) =>
             \E c : \E l \in {"lockList", "list", "readMark", "claimCheck", "check", "reading"} :
                Start(p, c, l)
      BY Zenon DEF StartWhole, StartOnTask
    <3> HIDE DEF Start
    <3> QED BY <3>1, <3>2
  <2> QED BY <1>3, <2>1, StartsCareful
<1>6. ~(\/ ListLockFails(p) \/ UnlockList(p) \/ TaskLockFails(p) \/ Crash(p)
        \/ DecideAutoclear(p) \/ ReadHigh(p) \/ ReadMark(p) \/ OpenMark(p) \/ FillMark(p)
        \/ SweepList(p) \/ (\E i \in Ids : Sweep(p, i)) \/ Swept(p))
  <2>1. pc'[p] # "unlockTask" =>
          ~(\/ ListLockFails(p) \/ UnlockList(p) \/ TaskLockFails(p) \/ Crash(p)
            \/ DecideAutoclear(p) \/ ReadHigh(p) \/ ReadMark(p) \/ OpenMark(p) \/ FillMark(p)
            \/ SweepList(p) \/ (\E i \in Ids : Sweep(p, i)) \/ Swept(p))
    BY <1>3, SettlesCareful
  <2>2. ASSUME pc'[p] = "unlockTask" PROVE ~DecideAutoclear(p)
    BY <1>1, <2>2 DEF DecideAutoclear, Then
  <2>3. ASSUME pc'[p] = "unlockTask"
        PROVE  /\ ~ListLockFails(p) /\ ~UnlockList(p) /\ ~TaskLockFails(p) /\ ~Crash(p)
               /\ ~ReadHigh(p) /\ ~ReadMark(p) /\ ~OpenMark(p) /\ ~FillMark(p)
               /\ ~SweepList(p) /\ ~(\E i \in Ids : Sweep(p, i)) /\ ~Swept(p)
    BY <1>1, <2>3 DEF ListLockFails, UnlockList, TaskLockFails, Crash, ReadHigh, ReadMark,
                      OpenMark, FillMark, SweepList, Sweep, Swept, Marked, Resume
  <2> QED BY <2>1, <2>2, <2>3
<1>7. ~LockTask(p) /\ ~Check(p) /\ ~ClaimCheck(p) /\ ~UnlockTask(p)
  BY <1>1, <1>4 DEF LockTask, Check, ClaimCheck, UnlockTask, Resume
<1>8. ~LockList(p) /\ ~ScanDir(p) /\ ~ScanMark(p) /\ ~OpenNew(p)
  <2>1. ~LockList(p)
    BY <1>0, <1>1, <1>4 DEF LockList, Stage
  <2>2. ~ScanDir(p) /\ ~ScanMark(p)
    BY <1>4 DEF ScanDir, ScanMark
  <2>3. ~OpenNew(p)
    BY <1>0, <1>1, <1>4 DEF OpenNew, Open, Careful
  <2> QED BY <2>1, <2>2, <2>3
<1>9. ~DecideBusyClaim(p) /\ ~DecideUnassign(p) /\ ~DecideBlock(p)
  <2>1. ASSUME DecideBusyClaim(p) \/ DecideUnassign(p) \/ DecideBlock(p)
        PROVE  \E us, l : Then(p, us, l) /\ l \in {"check", "idle", "unlockList"}
    <3> HIDE DEF Then
    <3>1. \A us : Resume(p, us) \in {"check", "idle", "unlockList"}
      BY DEF Resume
    <3> HIDE DEF Resume
    <3>2. CASE DecideBusyClaim(p)
      BY <3>2 DEF DecideBusyClaim
    <3>3. CASE DecideBlock(p)
      BY <3>1, <3>3 DEF DecideBlock
    <3>4. CASE DecideUnassign(p)
      <4>1. PICK us : Then(p, us, Resume(p, us))
        BY <3>4, Zenon DEF DecideUnassign, UpdateEach
      <4> QED BY <3>1, <4>1
    <3> QED BY <2>1, <3>2, <3>3, <3>4
  <2>2. \A us, l : Then(p, us, l) => pc'[p] = l
    BY <1>1 DEF Then
  <2> QED BY <1>4, <2>1, <2>2
<1>10. ~DecideDelete(p) /\ ~RemoveFile(p)
  BY <1>0 DEF DecideDelete, RemoveFile, Read, Stage
<1>11. \/ Inspect(p) \/ DecideClaim(p) \/ Reread(p) \/ OpenOld(p) \/ Fill(p)
       \/ List(p) \/ (\E i \in Ids : ReadTask(p, i))
  BY <1>5, <1>6, <1>7, <1>8, <1>9, <1>10 DEF Step, Work, GiveUp
<1>12. UNCHANGED call
  BY <1>11 DEF Inspect, DecideClaim, Then, Reread, OpenOld, Open, Fill, List, ReadTask
<1> QED BY <1>11, <1>12

\* A session's own step leaves it honest.
LEMMA HonestTurns ==
  ASSUME NoDelete, NoBusy, HolderInv, NEW p \in Procs, Step(p)
  PROVE  Honest(p)'
<1> USE DEF files, locks, writes, ghosts
<1>0. /\ OwnerInv /\ Honest(p) /\ Types /\ Sound /\ Careful(p) /\ HolderIsOwner
      /\ task = [i \in Ids |-> task[i]] /\ holder = [i \in Ids |-> holder[i]]
      /\ linked = [r \in Procs |-> linked[r]] /\ target = [r \in Procs |-> target[r]]
      /\ p # NoProc
  BY TaskListAssumption DEF HolderInv, OwnerInv, IInv, Sound, FilesSound, WritesSound
<1>1. \A l : Goto(p, l) => pc'[p] = l
  BY <1>0 DEF Goto, Types
<1> HIDE DEF Goto
<1>2. CASE ~(Aware(p)' \/ Answering(p)' \/ (call'[p].op = "claim" /\ pc'[p] = "fill"))
  BY <1>2 DEF Honest, Aware
<1>3. CASE Inspect(p)
  <2>1. /\ UNCHANGED <<there, torn, task, holder, taskLock, call, todo>>
        /\ pc[p] = "inspect" /\ call[p].op = "claim" /\ todo[p] = <<>>
        /\ taskLock[call[p].id] = p /\ call[p].id \in Ids
        /\ \/ pc'[p] = "list" /\ Readable(call[p].id)
           \/ pc'[p] = "unlockTask"
    BY <1>0, <1>1, <1>3
       DEF Inspect, Careful, Claims, Within, Locking, Sound, FilesSound
  <2>2. Readable(call[p].id) =>
           call[p].id \notin torn /\ holder[call[p].id] \in {NoProc, task[call[p].id].owner}
    BY <1>0, <2>1 DEF Readable, HolderIsOwner, Sound, FilesSound
  <2> QED BY <2>1, <2>2 DEF Honest, Answering, Aware, Sure, Writing, Locking
<1>4. CASE List(p) \/ (\E i \in Ids : ReadTask(p, i))
  <2>1. /\ UNCHANGED <<there, torn, task, holder, taskLock, call, todo>>
        /\ pc[p] \in {"list", "reading"} /\ pc'[p] = "reading"
    BY <1>1, <1>4 DEF List, ReadTask
  <2> QED BY <1>0, <2>1 DEF Honest, Answering, Aware, Sure, Writing, Locking
<1>5. CASE DecideClaim(p)
  <2>1. /\ UNCHANGED <<there, torn, task, holder, taskLock, call>>
        /\ pc[p] = "reading" /\ call[p].op = "claim"
        /\ \/ pc'[p] = "reread"
           \/ pc'[p] = "unlockTask" /\ todo'[p] = <<>>
    BY <1>0, <1>1, <1>5 DEF DecideClaim, Read, Then, Sound, WritesSound
  <2>2. taskLock[call[p].id] = p /\ Sure(p) /\ Locking(p) = call[p].id /\ Locking(p)' = call[p].id
    BY <1>0, <2>1 DEF Careful, Within, Locking, Sure
  <2> QED BY <1>0, <2>1, <2>2 DEF Honest, Answering, Aware, Sure, Writing
<1>6. CASE Reread(p)
  <2> DEFINE i == Head(todo[p]).id
  <2>1. /\ UNCHANGED <<there, torn, task, holder, taskLock, call, todo>> /\ pc[p] = "reread"
        /\ \/ pc'[p] = "open" /\ Readable(i)
           \/ pc'[p] = "unlockTask" /\ ~Readable(i)
    BY <1>1, <1>6 DEF Reread
  <2>2. /\ todo[p] # <<>> /\ Within(p) /\ taskLock[Locking(p)] = p
        /\ call[p].op = "claim" => task[call[p].id].owner \in {NoProc, p}
    BY <1>0, <2>1 DEF Careful, Within
  <2>3. i = Locking(p) /\ Locking(p)' = Locking(p) /\ Locking(p) \in Ids
    <3>1. Locking(p) \in Ids
      BY <1>0, <2>2, LockingIssued DEF Sound, FilesSound
    <3>2. CASE call[p].op = "claim"
      <4>1. todo[p] = <<[id |-> call[p].id, patch |-> [owner |-> p]]>>
        BY <1>0, <2>2, <3>2 DEF Careful, Claims
      <4> QED BY <2>1, <3>1, <3>2, <4>1 DEF Locking
    <3>3. CASE call[p].op # "claim"
      BY <2>1, <3>1, <3>3 DEF Locking
    <3> QED BY <3>2, <3>3
  <2> HIDE DEF i
  <2>4. CASE pc'[p] = "open"
    <3>1. holder[Locking(p)] \in {NoProc, task[Locking(p)].owner}
      BY <1>0, <2>1, <2>3, <2>4 DEF Readable, HolderIsOwner, Sound, FilesSound
    <3> QED BY <2>1, <2>3, <2>4, <3>1 DEF Honest, Answering, Aware, Sure
  <2>5. CASE pc'[p] = "unlockTask" /\ call[p].op = "claim"
    <3>1. Sure(p) /\ Locking(p) = call[p].id
      BY <2>1, <2>5 DEF Sure, Locking
    <3>2. call[p].id \notin there
      BY <1>0, <2>1, <2>3, <2>5, <3>1 DEF Honest, Readable
    <3>3. holder[call[p].id] \in {NoProc, p}
      BY <1>0, <2>2, <2>5, <3>1 DEF Honest, Aware
    <3> QED BY <2>1, <2>2, <2>5, <3>1, <3>2, <3>3 DEF Honest, Answering, Aware, Sure, Writing
  <2>6. CASE pc'[p] = "unlockTask" /\ call[p].op # "claim"
    BY <2>1, <2>6 DEF Honest, Answering, Aware, Sure, Writing
  <2> QED BY <2>1, <2>4, <2>5, <2>6
<1>7. CASE OpenOld(p)
  <2>1. /\ UNCHANGED <<task, holder, taskLock, call, todo>> /\ pc[p] = "open" /\ pc'[p] = "fill"
        /\ linked'[p]
    BY <1>0, <1>1, <1>7 DEF OpenOld, Open
  <2>2. holder[Locking(p)] \in {NoProc, task[Locking(p)].owner} /\ Locking(p)' = Locking(p)
    BY <1>0, <2>1 DEF Honest, Aware, Writing, Locking
  <2> QED BY <2>1, <2>2 DEF Honest, Answering, Aware, Sure
<1>8. CASE Fill(p)
  <2>1. /\ UNCHANGED <<there, taskLock, call, todo>> /\ pc[p] = "fill"
        /\ pc'[p] = IF call[p].op = "create" THEN "unlockList" ELSE "unlockTask"
        /\ linked[p] \/ UNCHANGED <<task, holder>>
    BY <1>1, <1>8 DEF Fill
  <2>2. CASE call[p].op # "claim"
    BY <2>1, <2>2 DEF Honest, Answering, Aware, Sure, Writing
  <2>3. CASE call[p].op = "claim"
    <3> DEFINE i == call[p].id
    <3>1. /\ Writing(p) /\ Aware(p) /\ Within(p) /\ Locking(p) = i /\ Claims(p)
      BY <2>1, <2>3 DEF Writing, Aware, Within, Locking, Claims
    <3>2. taskLock[i] = p /\ target[p] = i /\ i \in Ids
      BY <3>1, Guarding
    <3>3. holder[i] \in {NoProc, p}
      <4>1. holder[i] \in {NoProc, task[i].owner} /\ task[i].owner \in {NoProc, p}
        BY <1>0, <2>1, <2>3, <3>1 DEF Honest, Careful
      <4> QED BY <4>1
    <3> HIDE DEF i
    <3>4. holder'[i] \in {NoProc, p} /\ (i \in there => task'[i].owner = p)
      <4>1. CASE linked[p]
        <5>1. /\ task' = [task EXCEPT ![target[p]] = buf[p]]
              /\ buf[p].owner = p /\ ~Reassigns(p)
              /\ holder' = [holder EXCEPT ![target[p]] = IF Reassigns(p) THEN NoProc ELSE @]
          <6>1. OwnerInv
            BY DEF HolderInv
          <6> QED BY <6>1, <1>8, <3>1, <4>1, Filling
        <5>2. task'[i] = buf[p]
          BY <1>0, <3>2, <5>1
        <5>3. holder'[i] = holder[i]
          BY <1>0, <3>2, <5>1
        <5> QED BY <3>3, <5>1, <5>2, <5>3
      <4>2. CASE ~linked[p]
        <5>1. i \notin there
          BY <1>0, <2>1, <2>3, <4>2 DEF Honest, i
        <5> QED BY <2>1, <3>3, <4>2, <5>1
      <4> QED BY <4>1, <4>2
    <3>5. pc'[p] = "unlockTask"
      BY <2>1, <2>3
    <3> QED BY <2>1, <3>2, <3>4, <3>5 DEF Honest, Answering, Aware, Sure, Writing, i
  <2> QED BY <2>2, <2>3
<1> QED BY <1>0, <1>2, <1>3, <1>4, <1>5, <1>6, <1>7, <1>8, Turning

\* Who is told, and what it means for the one who was told before.
LEMMA Telling ==
  ASSUME NoBusy, HolderInv, NEW p \in Procs, Check(p) \/ UnlockTask(p)
  PROVE  \/ UNCHANGED holder
         \/ \E i \in Ids : /\ holder' = [holder EXCEPT ![i] = p]
                           /\ holder[i] \in {NoProc, p}
                           /\ i \in there => task[i].owner = p
<1>0. Careful(p) /\ Honest(p) /\ Sound
  BY DEF HolderInv, OwnerInv
<1>1. UNCHANGED holder \/ (Claims(p) /\ todo[p] # <<>> /\ holder' = [holder EXCEPT ![call[p].id] = p])
  BY DEF Check, UnlockTask, Told
<1>2. pc[p] \in {"check", "unlockTask"}
  BY DEF Check, UnlockTask
<1>3. Claims(p) => call[p].op = "claim" /\ pc[p] = "unlockTask" /\ call[p].id \in Ids
  BY <1>0, <1>2 DEF Claims, Careful, NoBusy, Sound, FilesSound
<1> QED BY <1>0, <1>1, <1>3 DEF Honest, Answering

LEMMA NextHolder ==
  ASSUME NoDelete, NoBusy, HolderInv, NEW p \in Procs, Step(p)
  PROVE  HolderIsOwner'
<1> USE DEF files, writes, ghosts
<1>0. /\ OwnerInv /\ Sound /\ HolderIsOwner /\ Honest(p) /\ Careful(p)
      /\ task = [i \in Ids |-> task[i]] /\ holder = [i \in Ids |-> holder[i]]
      /\ there \subseteq Ids /\ p # NoProc
  BY TaskListAssumption DEF HolderInv, OwnerInv, Sound, FilesSound
<1>1. CASE Fill(p) /\ linked[p]
  <2> DEFINE i == target[p]
  <2>1. /\ UNCHANGED there /\ i \in Ids /\ i \in there
        /\ task' = [task EXCEPT ![i] = buf[p]]
        /\ holder' = [holder EXCEPT ![i] = IF Reassigns(p) THEN NoProc ELSE @]
        /\ Creating(p) => buf[p] = task[i] /\ ~Reassigns(p)
        /\ Claims(p) => buf[p].owner = p /\ ~Reassigns(p)
        /\ ~Reassigns(p) /\ ~Claims(p) => buf[p].owner = task[i].owner
    BY <1>0, <1>1, Filling DEF Fill
  <2>2. ~Creating(p) => Writing(p) /\ Within(p) /\ Locking(p) = i
    <3>1. ~Creating(p) => Writing(p)
      BY <1>1 DEF Fill, Creating, Writing
    <3> QED BY <3>1, Guarding DEF Aware, Within
  <2>3. Claims(p) => holder[i] \in {NoProc, p}
    <3>1. ASSUME Claims(p) PROVE holder[i] \in {NoProc, p}
      <4>1. call[p].op = "claim" /\ ~Creating(p) /\ pc[p] = "fill"
        BY <1>0, <1>1, <3>1 DEF Claims, Careful, NoBusy, Creating, Fill
      <4>2. i = call[p].id /\ task[i].owner \in {NoProc, p}
        BY <1>0, <2>2, <4>1 DEF Careful, Locking
      <4>3. holder[i] \in {NoProc, task[i].owner}
        BY <1>0, <2>2, <4>1 DEF Honest, Aware
      <4> QED BY <4>2, <4>3
    <3> QED BY <3>1
  <2>4. holder[i] \in {NoProc, task[i].owner}
    BY <1>0, <2>1 DEF HolderIsOwner
  <2> HIDE DEF i
  <2>5. holder'[i] # NoProc => task'[i].owner = holder'[i]
    BY <1>0, <2>1, <2>3, <2>4
  <2>6. ASSUME NEW j \in there', holder'[j] # NoProc PROVE task'[j].owner = holder'[j]
    <3>1. CASE j = i
      BY <2>5, <2>6, <3>1
    <3>2. CASE j # i
      <4>1. j \in there /\ task'[j] = task[j] /\ holder'[j] = holder[j]
        BY <1>0, <2>1, <3>2
      <4> QED BY <1>0, <2>6, <4>1 DEF HolderIsOwner
    <3> QED BY <3>1, <3>2
  <2> QED BY <2>6 DEF HolderIsOwner
<1>2. CASE \E i \in Ids : Sweep(p, i)
  <2>1. PICK i \in Ids : Sweep(p, i)
    BY <1>2
  <2>2. UNCHANGED task /\ there' = there \ {i} /\ holder' = [holder EXCEPT ![i] = NoProc]
    BY <2>1 DEF Sweep, Unlink
  <2> QED BY <1>0, <2>2 DEF HolderIsOwner
<1>3. CASE OpenNew(p) \/ OpenOld(p)
  <2>1. /\ UNCHANGED <<task, holder>>
        /\ \/ there' = there \cup {NewId(p)} /\ OpenNew(p)
           \/ there' = there \cup {target[p]} /\ OpenOld(p)
    BY <1>3 DEF OpenNew, OpenOld, Open
  <2>2. OpenNew(p) => holder[NewId(p)] = NoProc
    <3>1. OpenNew(p) => NewId(p) \in Ids \ issued
      BY <1>0, FreshId DEF OwnerInv, OpenNew
    <3> QED BY <1>0, <3>1 DEF Sound, FilesSound
  <2>3. OpenOld(p) => holder[target[p]] \in {NoProc, task[target[p]].owner}
    <3>1. OpenOld(p) => Writing(p)
      BY DEF OpenOld, Writing
    <3> QED BY <1>0, <3>1, Guarding DEF Aware, Honest
  <2> QED BY <1>0, <2>1, <2>2, <2>3 DEF HolderIsOwner
<1>4. CASE UNCHANGED <<task, there, torn>> /\ (Check(p) \/ UnlockTask(p))
  <2>1. CASE UNCHANGED holder
    BY <1>0, <1>4, <2>1 DEF HolderIsOwner
  <2>2. CASE \E i \in Ids : /\ holder' = [holder EXCEPT ![i] = p]
                            /\ i \in there => task[i].owner = p
    BY <1>0, <1>4, <2>2 DEF HolderIsOwner
  <2> QED BY <1>4, <2>1, <2>2, Telling
<1>5. CASE UNCHANGED <<task, there, torn, holder>>
  BY <1>0, <1>5 DEF HolderIsOwner
<1> QED BY <1>0, <1>1, <1>2, <1>3, <1>4, <1>5, Changes

LEMMA InitHolder == Init => HolderInv
<1> SUFFICES ASSUME Init PROVE HolderInv
  OBVIOUS
<1>1. OwnerInv
  BY InitOwner
<1>2. HolderIsOwner
  <2>1. there \subseteq Ids /\ holder = [i \in Ids |-> NoProc]
    BY <1>1 DEF Init, OwnerInv, Sound, FilesSound
  <2> QED BY <2>1 DEF HolderIsOwner
<1>3. ASSUME NEW p \in Procs PROVE Honest(p)
  <2>1. pc[p] = "idle"
    BY DEF Init
  <2> QED BY <2>1 DEF Honest, Answering, Aware, Sure, Writing
<1> QED BY <1>1, <1>2, <1>3 DEF HolderInv

LEMMA NextHolderInv ==
  ASSUME NoDelete, NoBusy, HolderInv, [Next]_vars
  PROVE  HolderInv'
<1>1. OwnerInv'
  BY NextOwner DEF HolderInv
<1>2. CASE \E p \in Procs : Step(p)
  <2>1. PICK p \in Procs : Step(p)
    BY <1>2
  <2>2. ASSUME NEW q \in Procs PROVE Honest(q)'
    BY <2>1, HonestStays, HonestTurns
  <2>3. HolderIsOwner'
    BY <2>1, NextHolder
  <2> QED BY <1>1, <2>2, <2>3 DEF HolderInv
<1>3. CASE LockExpires
  <2>1. UNCHANGED <<there, torn, task, holder, linked, target, pc, call, todo>>
    BY <1>3 DEF LockExpires, files, writes, ghosts
  <2>2. ASSUME NEW q \in Procs PROVE Honest(q)'
    <3>1. Honest(q) /\ Sound
      BY DEF HolderInv, OwnerInv
    <3>2. Answering(q) => taskLock[call[q].id] = q /\ call[q].id \in Ids /\ pc[q] # "dead"
      BY Guarding DEF Answering
    <3>3. Answering(q) => taskLock'[call[q].id] = q
      BY <1>3, <3>1, <3>2, ExpiringKeeps
    <3> QED BY <2>1, <3>1, <3>3 DEF Honest, Answering, Aware, Sure, Writing, Locking
  <2>3. HolderIsOwner'
    BY <2>1 DEF HolderInv, HolderIsOwner
  <2> QED BY <1>1, <2>2, <2>3 DEF HolderInv
<1>4. CASE UNCHANGED vars
  <2>1. UNCHANGED <<there, torn, task, holder, linked, target, pc, call, todo, taskLock>>
    BY <1>4 DEF vars, files, locks, writes, ghosts
  <2>2. HolderIsOwner' /\ \A q \in Procs : Honest(q)'
    BY <2>1 DEF HolderInv, HolderIsOwner, Honest, Answering, Aware, Sure, Writing, Locking
  <2> QED BY <1>1, <2>2 DEF HolderInv
<1> QED BY <1>2, <1>3, <1>4 DEF Next, Step

(* The state of the list and of the calls is well formed: see TypeOK.      *)
THEOREM TypesAlways ==
  ASSUME NoDelete
  PROVE  Spec => []TypeOK
<1>1. OwnerInv => TypeOK
  BY DEF OwnerInv, Sound, FilesSound, ScalarsSound, LocksSound, ReadsSound, WritesSound, TypeOK
<1> QED BY <1>1, InitOwner, NextOwner, PTL DEF Spec

(* A session whose plain claim was answered with success is the owner last *)
(* written to the task's file, or the file is gone, until an update names  *)
(* another owner: see HolderIsOwner.  The claim looks, writes and answers  *)
(* under the lock of the file, and so does every update.  The busy claim   *)
(* writes through updateTask, whose null it takes for success when another *)
(* session is in the middle of writing the file, and is left out.          *)
THEOREM HolderIsOwnerAlways ==
  ASSUME NoDelete, NoBusy
  PROVE  Spec => []HolderIsOwner
<1>1. HolderInv => HolderIsOwner
  BY DEF HolderInv
<1> QED BY <1>1, InitHolder, NextHolderInv, PTL DEF Spec

(* claimTask takes a task from no session that was told it has it: see     *)
(* ClaimExclusive.  The claim decides and writes under one lock; the busy  *)
(* claim does not, and is left out.                                        *)
THEOREM ClaimsAreExclusive ==
  ASSUME NoDelete, NoBusy
  PROVE  Spec => ClaimExclusive
<1>1. ASSUME HolderInv, [Next]_vars, NEW i \in Ids, holder[i] # NoProc
      PROVE  holder'[i] \in {holder[i], NoProc}
  <2>0. OwnerInv /\ holder = [j \in Ids |-> holder[j]]
    BY <1>1 DEF HolderInv, OwnerInv, Sound, FilesSound
  <2>1. CASE \E p \in Procs : Step(p)
    <3>1. PICK p \in Procs : Step(p)
      BY <2>1
    <3>2. CASE Fill(p) /\ linked[p]
      BY <2>0, <3>2, Filling
    <3>3. CASE \E j \in Ids : Sweep(p, j)
      BY <2>0, <3>3 DEF Sweep, Unlink
    <3>4. CASE Check(p) \/ UnlockTask(p)
      <4>1. CASE \E j \in Ids : holder' = [holder EXCEPT ![j] = p] /\ holder[j] \in {NoProc, p}
        BY <1>1, <2>0, <4>1
      <4> QED BY <1>1, <3>4, <4>1, Telling
    <3>5. CASE OpenNew(p) \/ OpenOld(p)
      BY <3>5 DEF OpenNew, OpenOld, Open
    <3> QED BY <2>0, <3>1, <3>2, <3>3, <3>4, <3>5, Changes
  <2>2. CASE LockExpires \/ UNCHANGED vars
    BY <2>2 DEF LockExpires, vars, ghosts
  <2> QED BY <1>1, <2>1, <2>2 DEF Next, Step
<1>2. HolderInv /\ [Next]_vars =>
        [\A i \in Ids : holder[i] # NoProc => holder'[i] \in {holder[i], NoProc}]_vars
  BY <1>1
<1> QED BY <1>2, InitHolder, NextHolderInv, PTL DEF Spec, ClaimExclusive

(* A completed task is open again only because a caller asked to set its   *)
(* status: see CompletedStays.  unassignTeammateTasks decides on what it   *)
(* read before it locks the file, and is left out.                         *)
THEOREM CompletedTasksStay ==
  ASSUME NoDelete, "unassign" \notin Menu
  PROVE  Spec => CompletedStays
<1>1. ASSUME OwnerInv, [Next]_vars, NEW i \in there \cap there',
             task[i].status = "completed", task'[i].status # "completed"
      PROVE  \E p \in Procs : pc[p] = "fill" /\ target[p] = i
                              /\ pc'[p] # "fill" /\ call[p].op = "update"
                              /\ "status" \in DOMAIN Head(todo[p]).patch
  <2>0. task = [j \in Ids |-> task[j]] /\ i \in Ids /\ Types
    BY <1>1 DEF OwnerInv, Sound, FilesSound, IInv
  <2>1. ~LockExpires /\ ~UNCHANGED vars
    BY <1>1 DEF LockExpires, vars, files
  <2>2. PICK p \in Procs : Step(p)
    BY <1>1, <2>1 DEF Next, Step
  <2>3. Fill(p) /\ linked[p]
    <3>1. (OpenNew(p) \/ OpenOld(p) \/ \E j \in Ids : Sweep(p, j)) => UNCHANGED task
      BY DEF OpenNew, OpenOld, Open, Sweep, Unlink
    <3> QED BY <1>1, <2>2, <3>1, Changes
  <2>4. /\ task' = [task EXCEPT ![target[p]] = buf[p]]
        /\ \/ buf[p].status = task[target[p]].status
           \/ /\ call[p].op \in {"update", "unassign"}
              /\ "status" \in DOMAIN Head(todo[p]).patch
    BY <1>1, <2>3, Filling
  <2>5. /\ i = target[p] /\ call[p].op \in {"update", "unassign"}
        /\ "status" \in DOMAIN Head(todo[p]).patch
    BY <1>1, <2>0, <2>4
  <2>6. call[p].op = "update"
    BY <1>1, <2>5 DEF OwnerInv, Careful
  <2>7. pc[p] = "fill" /\ pc'[p] # "fill"
    BY <2>0, <2>3 DEF Fill, Goto, Types
  <2> QED BY <2>5, <2>6, <2>7
<1>2. OwnerInv /\ [Next]_vars =>
        [\A i \in there \cap there' :
            task[i].status = "completed" /\ task'[i].status # "completed"
               => \E p \in Procs : pc[p] = "fill" /\ target[p] = i
                                    /\ pc'[p] # "fill" /\ call[p].op = "update"
                                    /\ "status" \in DOMAIN Head(todo[p]).patch]_vars
  BY <1>1
<1> QED BY <1>2, InitOwner, NextOwner, PTL DEF Spec, CompletedStays
-----------------------------------------------------------------------------
(***************************************************************************)
(* Calls that do not overlap.  What a call still has to write is known     *)
(* from its updates: when they are made, the links of the tasks are those  *)
(* of a list f whose blocks and blockedBy mirror each other.  Here any     *)
(* session may delete tasks.                                               *)
(***************************************************************************)
Mirrors(t, S) ==
    \A i \in S : /\ t[i].blocks = {j \in S : i \in t[j].blockedBy}
                 /\ t[i].blockedBy = {j \in S : i \in t[j].blocks}
Halves == {"blocks", "blockedBy"}

\* The steps that a call goes through.
Loop == {"check", "lockTask", "reread", "open", "fill", "unlockTask"}
Clearing == {"readHigh", "readMark", "openMark", "fillMark", "sweepList", "sweep"}
Routed(op, l) ==
    \/ l = "idle"
    \/ op = "create" /\ l \in {"lockList", "scan", "fill", "unlockList"}
    \/ op = "reset" /\ l \in {"lockList", "unlockList"} \cup Clearing
    \/ op = "autoclear" /\ l \in {"list", "reading", "lockList", "unlockList"} \cup Clearing
    \/ op = "delete" /\ l \in {"readMark", "openMark", "fillMark", "remove", "list", "reading"} \cup Loop
    \/ op = "update" /\ l \in Loop
    \/ op = "block" /\ l \in {"reading"} \cup Loop
    \/ op = "unassign" /\ l \in {"list", "reading"} \cup Loop
    \/ op = "claim" /\ l \in {"claimCheck", "inspect", "list", "reading"} \cup (Loop \ {"check"})
    \/ op = "busyclaim" /\ l \in {"claimCheck", "lockList", "list", "reading", "unlockList"} \cup Loop

\* The locks that a call holds.
HasList(p) ==
    \/ call[p].op = "busyclaim" /\ pc[p] \notin {"idle", "claimCheck", "lockList"}
    \/ /\ call[p].op \in {"create", "reset", "autoclear"}
       /\ pc[p] \notin {"idle", "lockList", "list", "reading"}
HasTask(p) ==
    \/ pc[p] \in {"inspect", "reread", "open", "unlockTask"}
    \/ pc[p] = "fill" /\ call[p].op # "create"
    \/ pc[p] \in {"list", "reading"} /\ call[p].op = "claim"
Locks(p) ==
    /\ listLock = IF HasList(p) THEN p ELSE NoProc
    /\ \A i \in Ids : taskLock[i] = IF HasTask(p) /\ i = Locking(p) THEN p ELSE NoProc

\* The updates that are still to be written, and the links they lead to.
Left(p) == IF pc[p] = "unlockTask" THEN Tail(todo[p]) ELSE todo[p]
Aims(p, f) ==
    /\ Mirrors(f, there)
    /\ \A k \in DOMAIN todo[p] : \A x \in Halves :
          todo[p][k].id \in there /\ x \in DOMAIN todo[p][k].patch
             => todo[p][k].patch[x] = f[todo[p][k].id][x]
    /\ \A i \in there : \A x \in Halves :
          \/ task[i][x] = f[i][x]
          \/ \E k \in DOMAIN Left(p) : Left(p)[k].id = i /\ x \in DOMAIN Left(p)[k].patch

\* The file that a call has open.
Fills(p) ==
    /\ pc[p] # "fill" => torn = {}
    /\ pc[p] = "fill" => torn = {target[p]} /\ linked[p] /\ target[p] \in there
    /\ pc[p] = "fill" /\ call[p].op = "create" =>
          buf[p] = NewTask /\ Mirrors([task EXCEPT ![target[p]] = NewTask], there)
    /\ pc[p] = "open" \/ (pc[p] = "fill" /\ call[p].op # "create") =>
          /\ target[p] = Head(todo[p]).id /\ target[p] \in there
          /\ buf[p] = Merge(Head(todo[p]).patch, task[target[p]])

Updating(p) ==
    /\ todo[p] # <<>> => pc[p] \in Loop /\ call[p].op # "create"
    /\ pc[p] \in {"check", "reread", "open"} => todo[p] # <<>>
    /\ pc[p] = "fill" /\ call[p].op # "create" => todo[p] # <<>>
    /\ pc[p] = "lockTask" => (todo[p] = <<>> <=> call[p].op = "claim") /\ Locking(p) \in there
    /\ pc[p] = "unlockTask" /\ call[p].op # "claim" => todo[p] # <<>>
    /\ call[p].op = "claim" /\ todo[p] # <<>> =>
          Tail(todo[p]) = <<>> /\ Head(todo[p]).id = call[p].id
    /\ todo[p] # <<>> => \E f : Aims(p, f)

\* What a call has read; a deletion has removed the file and not the links to it.
Undone(p) == call[p].op = "delete" /\ pc[p] \in {"list", "reading"}
Without(d) == [i \in Ids |-> [blocks    |-> task[i].blocks \ {d},
                              blockedBy |-> task[i].blockedBy \ {d}]]
Knows(p) ==
    /\ pc[p] = "lockList" /\ call[p].op = "create" => high[p] = Unknown
    /\ pc[p] = "scan" => high[p] \in {Unknown, Highest}
    /\ pc[p] = "sweep" => unread[p] = there
    /\ call[p].op = "busyclaim" /\ pc[p] \in {"claimCheck", "lockList"} => snap[p] = <<>>
    /\ call[p].op = "delete" /\ pc[p] \in Clearing \cup {"remove", "list"} => snap[p] = <<>>
    /\ pc[p] \in {"list", "reading"} => /\ DOMAIN snap[p] \subseteq there
                                      /\ \A i \in DOMAIN snap[p] : snap[p][i] = task[i]
    /\ Undone(p) => call[p].id \notin there /\ Mirrors(Without(call[p].id), there)
    /\ Undone(p) /\ pc[p] = "reading" => unread[p] \cup DOMAIN snap[p] = there
    /\ todo[p] = <<>> /\ pc[p] \notin {"sweep", "fill"} /\ ~Undone(p) => Mirrors(task, there)

Links(p) == Routed(call[p].op, pc[p]) /\ Locks(p) /\ Fills(p) /\ Updating(p) /\ Knows(p)

Calm == /\ torn = {} /\ listLock = NoProc /\ \A i \in Ids : taskLock[i] = NoProc
        /\ Mirrors(task, there)

\* The types, as far as they matter here.
Update == [id: Ids, patch: Patch]
Numbers == high \in [Procs -> Int] /\ seenMark \in [Procs -> Int] /\ mark \in Int
Board ==
    /\ there \subseteq Ids /\ issued \subseteq Ids
    /\ task \in [Ids -> Task] /\ taskLock = [i \in Ids |-> taskLock[i]]
Asked(c) ==
    /\ c.op \in {"claim", "busyclaim", "delete"} => c.id \in Ids
    /\ c.op = "block" => c.from \in Ids /\ c.to \in Ids /\ c.from # c.to
Shape ==
    /\ Tables /\ Numbers /\ Board
    /\ \A q \in Procs : todo[q] \in Seq(Update) /\ Asked(call[q])

\* No two sessions are in a call, and when none is the links are in order.
Orderly ==
    /\ Shape
    /\ \A p, q \in Procs : pc[p] # "idle" /\ pc[q] # "idle" => p = q
    /\ \A p \in Procs : pc[p] = "idle" => todo[p] = <<>>
    /\ (\A p \in Procs : pc[p] = "idle") => Calm
    /\ \A p \in Procs : pc[p] \notin {"idle", "dead"} => Links(p)

LinkInv == ~overlapped => Orderly

\* Where links are the same, they mirror each other as well.
LEMMA SameLinks ==
  ASSUME NEW t, NEW u, NEW S, Mirrors(t, S),
         \A i \in S : \A x \in Halves : u[i][x] = t[i][x]
  PROVE  Mirrors(u, S)
<1>1. \A i \in S : u[i].blocks = t[i].blocks /\ u[i].blockedBy = t[i].blockedBy
  BY DEF Halves
<1> QED BY <1>1 DEF Mirrors

\* A step that leaves the files and its updates alone.
LEMMA AimsStay ==
  ASSUME NEW p \in Procs, UNCHANGED <<there, task>>, todo'[p] = todo[p],
         pc[p] # "unlockTask", pc'[p] # "unlockTask"
  PROVE  \A f : Aims(p, f) => Aims(p, f)'
BY DEF Aims, Left

\* A step to where nothing is open and nothing is to be updated.
LEMMA EaseNext ==
  ASSUME NEW p \in Procs, todo'[p] = <<>>, torn' = {},
         pc'[p] \notin {"check", "reread", "open", "fill"},
         pc'[p] = "lockTask" => call'[p].op = "claim" /\ call'[p].id \in there',
         pc'[p] = "unlockTask" => call'[p].op = "claim"
  PROVE  Fills(p)' /\ Updating(p)'
<1>1. Fills(p)'
  BY DEF Fills
<1>2. Updating(p)'
  BY DEF Updating, Locking
<1> QED BY <1>1, <1>2

\* A step to where nothing is known but that the links are in order.
LEMMA KnowsNext ==
  ASSUME NEW p \in Procs, UNCHANGED <<task, there>>, Mirrors(task, there),
         pc'[p] \notin {"lockList", "scan", "claimCheck", "remove", "list", "reading", "sweep"},
         call'[p].op = "delete" => pc'[p] \notin Clearing
  PROVE  Knows(p)'
<1>1. Mirrors(task, there)'
  BY DEF Mirrors
<1> QED BY <1>1 DEF Knows, Undone

\* The locks.
LEMMA LockListLinks ==
  ASSUME Shape, NEW p \in Procs, Links(p), LockList(p) \/ UnlockList(p) \/ ListLockFails(p)
  PROVE  Links(p)'
<1> USE DEF files, reads, writes, marks, locks
<1>1. /\ UNCHANGED <<there, torn, task, call, todo, unread, snap, high, target, buf, linked, taskLock>>
      /\ pc[p] \in {"lockList", "unlockList"} /\ todo[p] = <<>> /\ ~Undone(p)
  BY DEF LockList, UnlockList, ListLockFails, Links, Updating, Undone, Loop
<1>2. Mirrors(task, there) /\ torn' = {}
  BY <1>1 DEF Links, Knows, Fills
<1>3. ~HasTask(p)
  BY <1>1 DEF HasTask
<1>4. CASE LockList(p)
  <2>1. /\ listLock' = p /\ pc'[p] \in {"scan", "readHigh", "list"}
        /\ call[p].op = "create" => pc'[p] = "scan"
        /\ call[p].op \in {"reset", "autoclear"} => pc'[p] = "readHigh"
        /\ call[p].op = "busyclaim" => pc'[p] = "list"
        /\ call[p].op \in {"create", "reset", "autoclear", "busyclaim"}
    BY <1>1, <1>4 DEF LockList, Goto, Links, Routed, Shape, Tables, Clearing, Loop
  <2>2. Routed(call[p].op, pc[p])' /\ Locks(p)'
    BY <1>1, <1>3, <2>1 DEF Routed, Links, Locks, HasList, HasTask, Clearing
  <2>3. Fills(p)' /\ Updating(p)'
    BY <1>1, <1>2, <2>1, EaseNext
  <2>4. Knows(p)'
    <3>1. CASE pc'[p] = "readHigh"
      BY <1>1, <1>2, <2>1, <3>1, KnowsNext
    <3>2. CASE pc'[p] = "list"
      <4>1. snap'[p] = <<>> /\ DOMAIN <<>> = {}
        BY <1>1, <1>4, <2>1, <3>2 DEF LockList, Links, Knows
      <4> QED BY <1>1, <1>2, <2>1, <3>2, <4>1 DEF Knows, Undone, Mirrors
    <3>3. CASE pc'[p] = "scan"
      BY <1>1, <1>2, <1>4, <2>1, <3>3 DEF LockList, Links, Knows, Undone, Mirrors
    <3> QED BY <2>1, <3>1, <3>2, <3>3
  <2> QED BY <2>2, <2>3, <2>4 DEF Links
<1>5. CASE UnlockList(p) \/ ListLockFails(p)
  <2>1. pc'[p] = "idle" /\ (UnlockList(p) => HasList(p)) /\ (ListLockFails(p) => ~HasList(p))
    BY <1>1, <1>5 DEF UnlockList, ListLockFails, Goto, Shape, Tables, HasList, Links, Routed,
       Clearing, Loop
  <2>2. Locks(p)'
    BY <1>1, <1>3, <1>5, <2>1 DEF UnlockList, ListLockFails, Links, Locks, HasList, HasTask
  <2>3. Fills(p)' /\ Updating(p)' /\ Knows(p)'
    BY <1>1, <1>2, <2>1, EaseNext, KnowsNext DEF Clearing
  <2> QED BY <2>1, <2>2, <2>3 DEF Links, Routed
<1> QED BY <1>4, <1>5

LEMMA ScanLinks ==
  ASSUME Shape, NEW p \in Procs, Links(p), ScanDir(p) \/ ScanMark(p) \/ ClaimCheck(p)
  PROVE  Links(p)'
<1> USE DEF files, marks, locks, writes, reads
<1>1. /\ UNCHANGED <<there, torn, task, call, todo, unread, snap, target, buf, linked, listLock, taskLock>>
      /\ pc[p] \in {"scan", "claimCheck"} /\ todo[p] = <<>> /\ ~Undone(p)
  BY DEF ScanDir, ScanMark, ClaimCheck, Links, Updating, Undone, Loop
<1>2. Mirrors(task, there) /\ torn' = {} /\ Highest' = Highest
  BY <1>1 DEF Links, Knows, Fills, Highest
<1>3. CASE ScanDir(p) \/ ScanMark(p)
  <2>1. pc'[p] = "scan" /\ call[p].op = "create" /\ high'[p] \in {Unknown, Highest} /\ pc[p] = "scan"
    BY <1>1, <1>3 DEF ScanDir, ScanMark, Links, Routed, Knows, Loop, Clearing, Shape, Tables,
       Numbers
  <2>2. Routed(call[p].op, pc[p])' /\ Locks(p)'
    BY <1>1, <2>1 DEF Routed, Links, Locks, HasList, HasTask
  <2>3. Fills(p)' /\ Updating(p)'
    BY <1>1, <1>2, <2>1, EaseNext
  <2>4. Knows(p)'
    BY <1>1, <1>2, <2>1 DEF Knows, Undone, Mirrors, Clearing
  <2> QED BY <2>2, <2>3, <2>4 DEF Links
<1>4. CASE ClaimCheck(p)
  <2>1. /\ call[p].op \in {"claim", "busyclaim"} /\ pc[p] = "claimCheck" /\ UNCHANGED high
        /\ pc'[p] \in {"idle", "lockTask", "lockList"}
        /\ pc'[p] = "lockTask" => call[p].op = "claim" /\ call[p].id \in there
        /\ pc'[p] = "lockList" => call[p].op = "busyclaim"
    BY <1>1, <1>4 DEF ClaimCheck, Goto, Links, Routed, Loop, Clearing, Shape, Tables, Readable
  <2>2. Routed(call[p].op, pc[p])' /\ Locks(p)'
    BY <1>1, <2>1 DEF Routed, Links, Locks, HasList, HasTask, Loop
  <2>3. Fills(p)' /\ Updating(p)'
    BY <1>1, <1>2, <2>1, EaseNext
  <2>4. Knows(p)'
    <3>1. snap[p] = <<>> \/ pc'[p] # "lockList"
      BY <2>1 DEF Links, Knows
    <3> QED BY <1>1, <1>2, <2>1, <3>1 DEF Knows, Undone, Mirrors, Clearing
  <2> QED BY <2>2, <2>3, <2>4 DEF Links
<1> QED BY <1>3, <1>4

LEMMA ListLinks ==
  ASSUME Shape, NEW p \in Procs, Links(p),
         Inspect(p) \/ List(p) \/ DecideAutoclear(p)
  PROVE  Links(p)'
<1> USE DEF files, marks, locks, writes, reads
<1>1. /\ UNCHANGED <<there, torn, task, call, high, target, buf, linked, listLock, taskLock>>
      /\ pc[p] \in {"inspect", "list", "reading"}
  BY DEF Inspect, List, DecideAutoclear, Then, Read
<1>a. todo[p] = <<>> /\ todo'[p] = <<>>
  BY <1>1 DEF Inspect, List, DecideAutoclear, Then, Links, Updating, Loop, Shape, Tables
<1>2. torn' = {}
  BY <1>1 DEF Links, Fills
<1>3. CASE Inspect(p)
  <2>1. /\ call[p].op = "claim" /\ pc[p] = "inspect" /\ pc'[p] \in {"list", "unlockTask"}
        /\ ~Undone(p) /\ Mirrors(task, there)
    BY <1>a, <1>3 DEF Inspect, Goto, Links, Routed, Loop, Clearing, Shape, Tables, Knows, Undone
  <2>2. Routed(call[p].op, pc[p])' /\ Locks(p)'
    BY <1>1, <2>1 DEF Routed, Links, Locks, HasList, HasTask, Loop, Locking
  <2>3. Fills(p)' /\ Updating(p)'
    BY <1>1, <1>a, <1>2, <2>1, EaseNext
  <2>4. Knows(p)'
    <3>1. pc'[p] = "list" => /\ DOMAIN snap'[p] = {call[p].id} /\ call[p].id \in there
                             /\ snap'[p][call[p].id] = task[call[p].id]
      BY <1>3, <2>1 DEF Inspect, Goto, Readable, Content, Shape, Tables
    <3> QED BY <1>1, <2>1, <3>1 DEF Knows, Undone, Mirrors, Clearing
  <2> QED BY <2>2, <2>3, <2>4 DEF Links
<1>4. CASE List(p)
  <2>1. /\ call[p].op \in {"claim", "busyclaim", "delete", "unassign", "autoclear"}
        /\ pc[p] = "list" /\ pc'[p] = "reading"
        /\ UNCHANGED snap /\ unread'[p] = there \cap Wanted(p)
    BY <1>4 DEF List, Goto, Links, Routed, Loop, Clearing, Shape, Tables
  <2>2. Routed(call[p].op, pc[p])' /\ Locks(p)'
    BY <1>1, <1>a, <2>1 DEF Routed, Links, Locks, HasList, HasTask, Loop, Locking
  <2>3. Fills(p)' /\ Updating(p)'
    BY <1>1, <1>a, <1>2, <2>1, EaseNext
  <2>4. Knows(p)'
    <3>1. call[p].op = "delete" => unread'[p] = there /\ snap[p] = <<>> /\ DOMAIN <<>> = {}
      BY <2>1 DEF Links, Knows, Wanted, Shape, Board
    <3>2. Undone(p)' = Undone(p)
      BY <1>1, <2>1 DEF Undone
    <3>3. Undone(p) => call[p].id \notin there /\ Mirrors(Without(call[p].id), there)'
      <4>1. Undone(p) => call[p].id \notin there /\ Mirrors(Without(call[p].id), there)
        BY DEF Links, Knows
      <4> QED BY <1>1, <4>1 DEF Mirrors, Without
    <3>4. ~Undone(p) => Mirrors(task, there)'
      BY <1>1, <1>a, <2>1 DEF Links, Knows, Mirrors
    <3>5. DOMAIN snap[p] \subseteq there /\ \A i \in DOMAIN snap[p] : snap[p][i] = task[i]
      BY <2>1 DEF Links, Knows
    <3>6. Undone(p) => unread'[p] \cup DOMAIN snap[p] = there
      BY <3>1 DEF Undone
    <3> QED BY <1>1, <2>1, <3>2, <3>3, <3>4, <3>5, <3>6 DEF Knows, Clearing
  <2> QED BY <2>2, <2>3, <2>4 DEF Links
<1>5. CASE DecideAutoclear(p)
  <2>1. /\ pc[p] = "reading" /\ call[p].op = "autoclear" /\ pc'[p] \in {"lockList", "idle"}
        /\ ~Undone(p) /\ Mirrors(task, there)
    BY <1>a, <1>5 DEF DecideAutoclear, Read, Then, Goto, Shape, Tables, Links, Knows, Undone
  <2>2. Routed(call[p].op, pc[p])' /\ Locks(p)'
    BY <1>1, <2>1 DEF Routed, Links, Locks, HasList, HasTask, Loop, Locking
  <2>3. Fills(p)' /\ Updating(p)'
    BY <1>1, <1>a, <1>2, <2>1, EaseNext
  <2>4. Knows(p)'
    BY <1>1, <2>1 DEF Knows, Undone, Mirrors, Clearing
  <2> QED BY <2>2, <2>3, <2>4 DEF Links
<1> QED BY <1>3, <1>4, <1>5

\* One task is read.
LEMMA ReadLinks ==
  ASSUME Shape, NEW p \in Procs, Links(p), NEW i \in Ids, ReadTask(p, i)
  PROVE  Links(p)'
<1> USE DEF files, marks, locks, writes
<1>1. /\ UNCHANGED <<there, torn, task, pc, call, todo, high, target, buf, linked, listLock, taskLock>>
      /\ pc[p] = "reading" /\ i \in unread[p] /\ unread'[p] = unread[p] \ {i}
  BY DEF ReadTask, Shape, Tables
<1>2. todo[p] = <<>> /\ torn = {}
  BY <1>1 DEF Links, Updating, Fills, Loop
<1>3. Routed(call[p].op, pc[p])' /\ Locks(p)'
  BY <1>1 DEF Routed, Links, Locks, HasList, HasTask, Locking
<1>4. Fills(p)' /\ Updating(p)'
  BY <1>1, <1>2, EaseNext
<1>5. IF i \in there THEN /\ DOMAIN snap'[p] = DOMAIN snap[p] \cup {i} /\ snap'[p][i] = task[i]
                           /\ \A j \in DOMAIN snap[p] : j # i => snap'[p][j] = snap[p][j]
                      ELSE snap'[p] = snap[p]
  <2>1. snap'[p] = IF i \in there THEN Merge(Content(i), snap[p]) ELSE snap[p]
    BY <1>2 DEF ReadTask, Readable, Shape, Tables
  <2>2. DOMAIN Content(i) = {i} /\ Content(i)[i] = task[i]
    BY DEF Content
  <2>3. Merge(Content(i), snap[p]) =
          [x \in {i} \cup DOMAIN snap[p] |-> IF x \in {i} THEN Content(i)[x] ELSE snap[p][x]]
    BY <2>2 DEF Merge
  <2> QED BY <2>1, <2>2, <2>3
<1>6. Knows(p)'
  <2>1. DOMAIN snap[p] \subseteq there /\ \A j \in DOMAIN snap[p] : snap[p][j] = task[j]
    BY <1>1 DEF Links, Knows
  <2>2. DOMAIN snap'[p] \subseteq there /\ \A j \in DOMAIN snap'[p] : snap'[p][j] = task[j]
    BY <1>5, <2>1
  <2>3. Undone(p)' = Undone(p)
    BY <1>1 DEF Undone
  <2>4. Undone(p) => /\ call[p].id \notin there /\ Mirrors(Without(call[p].id), there)'
                     /\ unread'[p] \cup DOMAIN snap'[p] = there
    <3>1. Undone(p) => unread[p] \cup DOMAIN snap[p] = there
      BY <1>1 DEF Links, Knows
    <3>2. Undone(p) => unread'[p] \cup DOMAIN snap'[p] = there
      BY <1>1, <1>5, <3>1
    <3>3. Undone(p) => call[p].id \notin there /\ Mirrors(Without(call[p].id), there)
      BY DEF Links, Knows
    <3> QED BY <1>1, <3>2, <3>3 DEF Mirrors, Without
  <2>5. ~Undone(p) => Mirrors(task, there)'
    BY <1>1, <1>2 DEF Links, Knows, Mirrors
  <2> QED BY <1>1, <2>2, <2>3, <2>4, <2>5 DEF Knows, Clearing
<1> QED BY <1>3, <1>4, <1>6 DEF Links

\* The mark.
LEMMA MarkLinks ==
  ASSUME Shape, NEW p \in Procs, Links(p),
         ReadHigh(p) \/ ReadMark(p) \/ OpenMark(p) \/ FillMark(p) \/ SweepList(p)
  PROVE  Links(p)'
<1> USE DEF files, marks, locks, writes, reads
<1>1. /\ UNCHANGED <<there, torn, task, call, todo, snap, target, buf, linked, listLock, taskLock>>
      /\ pc[p] \in {"readHigh", "readMark", "openMark", "fillMark", "sweepList"}
  BY DEF ReadHigh, ReadMark, OpenMark, FillMark, SweepList
<1>2. todo[p] = <<>> /\ torn = {} /\ Mirrors(task, there) /\ ~Undone(p)
  BY <1>1 DEF Links, Updating, Fills, Knows, Undone, Loop
<1>3. /\ pc[p] \in {"readHigh", "sweepList"} => call[p].op \in {"reset", "autoclear"}
      /\ call[p].op \in {"reset", "autoclear", "delete"}
  BY <1>1 DEF Links, Routed, Clearing, Loop
<1>4. /\ call[p].op = "delete" => pc'[p] \in {"openMark", "fillMark", "remove"}
      /\ call[p].op # "delete" => pc'[p] \in {"readMark", "openMark", "fillMark", "sweepList", "sweep"}
      /\ pc'[p] = "sweep" => unread'[p] = there
  BY <1>1, <1>3 DEF ReadHigh, ReadMark, OpenMark, FillMark, SweepList, Marked, Goto, Shape,
     Tables
<1>5. Routed(call[p].op, pc[p])' /\ Locks(p)'
  BY <1>1, <1>3, <1>4 DEF Routed, Links, Locks, HasList, HasTask, Clearing
<1>6. Fills(p)' /\ Updating(p)'
  BY <1>1, <1>2, <1>3, <1>4, EaseNext
<1>7. Knows(p)'
  <2>1. call[p].op = "delete" => snap[p] = <<>>
    BY <1>1, <1>3 DEF Links, Knows, Clearing
  <2> QED BY <1>1, <1>2, <1>3, <1>4, <2>1 DEF Knows, Undone, Mirrors, Clearing
<1> QED BY <1>5, <1>6, <1>7 DEF Links

\* The files of a list, or one of them, are removed.
LEMMA SweepLinks ==
  ASSUME Shape, NEW p \in Procs, Links(p),
         (\E i \in Ids : Sweep(p, i)) \/ Swept(p)
  PROVE  Links(p)'
<1> USE DEF files, marks, locks, writes, reads
<1>1. /\ UNCHANGED <<call, todo, task, listLock, taskLock>> /\ pc[p] = "sweep"
  BY DEF Sweep, Swept, Unlink
<1>2. todo[p] = <<>> /\ torn = {} /\ unread[p] = there /\ call[p].op \in {"reset", "autoclear"}
  BY <1>1 DEF Links, Updating, Fills, Knows, Routed, Loop
<1>3. CASE \E i \in Ids : Sweep(p, i)
  <2>1. pc'[p] = "sweep" /\ unread'[p] = there' /\ torn' = {}
    BY <1>2, <1>3 DEF Sweep, Unlink, Shape, Tables
  <2>2. Routed(call[p].op, pc[p])' /\ Locks(p)'
    BY <1>1, <1>2, <2>1 DEF Routed, Links, Locks, HasList, HasTask, Clearing
  <2>3. Fills(p)' /\ Updating(p)'
    BY <1>1, <1>2, <2>1, EaseNext
  <2> QED BY <1>1, <1>2, <2>1, <2>2, <2>3 DEF Links, Knows, Undone, Clearing
<1>4. CASE Swept(p)
  <2>1. pc'[p] = "unlockList" /\ there = {} /\ UNCHANGED <<there, torn>>
    BY <1>2, <1>4 DEF Swept, Goto, Shape, Tables
  <2>2. Routed(call[p].op, pc[p])' /\ Locks(p)'
    BY <1>1, <1>2, <2>1 DEF Routed, Links, Locks, HasList, HasTask, Clearing
  <2>3. Mirrors(task, there)
    BY <2>1 DEF Mirrors
  <2>4. Fills(p)' /\ Updating(p)' /\ Knows(p)'
    BY <1>1, <1>2, <2>1, <2>3, EaseNext, KnowsNext DEF Clearing
  <2> QED BY <2>2, <2>4 DEF Links
<1> QED BY <1>3, <1>4

LEMMA RemoveLinks ==
  ASSUME Shape, NEW p \in Procs, Links(p), RemoveFile(p)
  PROVE  Links(p)'
<1> USE DEF files, marks, locks, writes, reads
<1> DEFINE d == call[p].id
<1>1. /\ UNCHANGED <<call, todo, task, snap, listLock, taskLock>> /\ pc[p] = "remove"
  BY DEF RemoveFile, Unlink
<1>2. /\ todo[p] = <<>> /\ torn = {} /\ call[p].op = "delete" /\ snap[p] = <<>>
      /\ Mirrors(task, there)
  BY <1>1 DEF Links, Updating, Fills, Knows, Routed, Undone, Loop, Clearing
<1>3. CASE d \in there
  <2>1. pc'[p] = "list" /\ there' = there \ {d} /\ torn' = {}
    BY <1>2, <1>3 DEF RemoveFile, Unlink, Goto, Shape, Tables
  <2>2. Routed(call[p].op, pc[p])' /\ Locks(p)'
    BY <1>1, <1>2, <2>1 DEF Routed, Links, Locks, HasList, HasTask
  <2>3. Fills(p)' /\ Updating(p)'
    BY <1>1, <1>2, <2>1, EaseNext
  <2>4. Mirrors(Without(d), there \ {d})
    <3>1. \A i \in there : /\ task[i].blocks = {j \in there : i \in task[j].blockedBy}
                           /\ task[i].blockedBy = {j \in there : i \in task[j].blocks}
      BY <1>2 DEF Mirrors
    <3>2. \A i \in there : /\ i \in Ids /\ Without(d)[i].blocks = task[i].blocks \ {d}
                           /\ Without(d)[i].blockedBy = task[i].blockedBy \ {d}
      BY DEF Without, Shape, Board
    <3>3. ASSUME NEW i \in there \ {d}
          PROVE  Without(d)[i].blocks = {j \in there \ {d} : i \in Without(d)[j].blockedBy}
      <4>1. \A j \in there : j \in task[i].blocks <=> i \in task[j].blockedBy
        BY <3>1
      <4>2. task[i].blocks \subseteq there
        BY <3>1
      <4>3. \A j \in there \ {d} : i \in Without(d)[j].blockedBy <=> i \in task[j].blockedBy
        BY <3>2
      <4> QED BY <3>2, <4>1, <4>2, <4>3
    <3>4. ASSUME NEW i \in there \ {d}
          PROVE  Without(d)[i].blockedBy = {j \in there \ {d} : i \in Without(d)[j].blocks}
      <4>1. \A j \in there : j \in task[i].blockedBy <=> i \in task[j].blocks
        BY <3>1
      <4>2. task[i].blockedBy \subseteq there
        BY <3>1
      <4>3. \A j \in there \ {d} : i \in Without(d)[j].blocks <=> i \in task[j].blocks
        BY <3>2
      <4> QED BY <3>2, <4>1, <4>2, <4>3
    <3> QED BY <3>3, <3>4 DEF Mirrors
  <2>5. Mirrors(Without(d), there)' /\ d \notin there'
    <3>1. PICK S : S = there \ {d}
      OBVIOUS
    <3>2. there' = S /\ Mirrors(Without(d), S) /\ d \notin S
      BY <2>1, <2>4, <3>1
    <3>3. Without(d)' = Without(d)
      BY <1>1 DEF Without
    <3> QED BY <3>2, <3>3 DEF Mirrors
  <2>6. snap'[p] = <<>> /\ DOMAIN <<>> = {} /\ Undone(p)'
    BY <1>1, <1>2, <2>1 DEF Undone
  <2>7. Knows(p)'
    BY <1>1, <1>2, <2>1, <2>5, <2>6 DEF Knows
  <2> QED BY <2>2, <2>3, <2>7 DEF Links
<1>4. CASE d \notin there
  <2>1. pc'[p] = "idle" /\ UNCHANGED <<there, torn>>
    BY <1>4 DEF RemoveFile, Goto, Shape, Tables
  <2>2. Routed(call[p].op, pc[p])' /\ Locks(p)'
    BY <1>1, <1>2, <2>1 DEF Routed, Links, Locks, HasList, HasTask
  <2>3. Fills(p)' /\ Updating(p)' /\ Knows(p)'
    BY <1>1, <1>2, <2>1, EaseNext, KnowsNext DEF Clearing
  <2> QED BY <2>2, <2>3 DEF Links
<1> QED BY <1>3, <1>4


-----------------------------------------------------------------------------
(* The steps of an update.                                                 *)

\* Every update but the first is left when the first has been dealt with.
LEMMA RestBack ==
  ASSUME NEW T, NEW s \in Seq(T), s # <<>>, NEW k \in DOMAIN s, k # 1
  PROVE  k - 1 \in DOMAIN Tail(s) /\ Tail(s)[k - 1] = s[k]
<1>1. Len(s) \in Nat /\ Len(s) > 0 /\ DOMAIN s = 1..Len(s)
  OBVIOUS
<1>2. DOMAIN Tail(s) = 1..(Len(s) - 1) /\ \A j \in 1..(Len(s) - 1) : Tail(s)[j] = s[j + 1]
  BY <1>1
<1>3. k - 1 \in 1..(Len(s) - 1) /\ (k - 1) + 1 = k
  BY <1>1
<1> QED BY <1>2, <1>3

\* An update is made, or its task does not exist any more.
LEMMA AimsOnce ==
  ASSUME NEW p \in Procs, NEW f, Aims(p, f), todo[p] \in Seq(Update), todo[p] # <<>>,
         UNCHANGED there, pc[p] # "unlockTask",
         \/ pc'[p] = "unlockTask" /\ todo'[p] = todo[p]
         \/ pc'[p] # "unlockTask" /\ todo'[p] = Tail(todo[p]),
         \A i \in there : \A x \in Halves :
             task'[i][x] = IF i = Head(todo[p]).id /\ x \in DOMAIN Head(todo[p]).patch
                           THEN Head(todo[p]).patch[x] ELSE task[i][x]
  PROVE  Aims(p, f)'
<1>1. /\ Head(todo[p]) = todo[p][1] /\ 1 \in DOMAIN todo[p]
      /\ \A k \in DOMAIN Tail(todo[p]) :
            k + 1 \in DOMAIN todo[p] /\ Tail(todo[p])[k] = todo[p][k + 1]
  BY Rest
<1>2. Left(p)' = Tail(todo[p]) /\ Left(p) = todo[p]
  BY DEF Left
<1>3. Mirrors(f, there)'
  BY DEF Aims, Mirrors
<1>4. ASSUME NEW k \in DOMAIN todo'[p], NEW x \in Halves,
             todo'[p][k].id \in there', x \in DOMAIN todo'[p][k].patch
      PROVE  todo'[p][k].patch[x] = f[todo'[p][k].id][x]
  <2>1. PICK j \in DOMAIN todo[p] : todo'[p][k] = todo[p][j]
    <3>1. CASE todo'[p] = Tail(todo[p])
      BY <1>1, <1>4, <3>1
    <3>2. CASE todo'[p] = todo[p]
      BY <1>4, <3>2
    <3> QED BY <3>1, <3>2
  <2> QED BY <1>4, <2>1 DEF Aims
<1>5. ASSUME NEW i \in there, NEW x \in Halves
      PROVE  \/ task'[i][x] = f[i][x]
             \/ \E k \in DOMAIN Left(p)' : /\ Left(p)'[k].id = i
                                           /\ x \in DOMAIN Left(p)'[k].patch
  <2>1. CASE i = todo[p][1].id /\ x \in DOMAIN todo[p][1].patch
    <3>1. todo[p][1].patch[x] = f[i][x]
      BY <1>1, <2>1 DEF Aims
    <3> QED BY <1>1, <2>1, <3>1
  <2>2. CASE ~(i = todo[p][1].id /\ x \in DOMAIN todo[p][1].patch)
    <3>1. task'[i][x] = task[i][x]
      BY <1>1, <2>2
    <3>2. CASE task[i][x] = f[i][x]
      BY <3>1, <3>2
    <3>3. CASE \E k \in DOMAIN todo[p] : todo[p][k].id = i /\ x \in DOMAIN todo[p][k].patch
      <4>1. PICK k \in DOMAIN todo[p] : todo[p][k].id = i /\ x \in DOMAIN todo[p][k].patch
        BY <3>3
      <4>2. k - 1 \in DOMAIN Tail(todo[p]) /\ Tail(todo[p])[k - 1] = todo[p][k]
        BY <2>2, <4>1, RestBack
      <4> QED BY <1>2, <4>1, <4>2
    <3> QED BY <1>2, <3>2, <3>3 DEF Aims
  <2> QED BY <2>1, <2>2
<1> QED BY <1>3, <1>4, <1>5 DEF Aims

LEMMA AimsAfter ==
  ASSUME NEW p \in Procs, NEW f, Aims(p, f), todo[p] \in Seq(Update), todo[p] # <<>>,
         UNCHANGED <<there, task>>, pc[p] = "unlockTask", pc'[p] # "unlockTask",
         todo'[p] = Tail(todo[p])
  PROVE  Aims(p, f)'
<1>1. \A k \in DOMAIN Tail(todo[p]) :
            k + 1 \in DOMAIN todo[p] /\ Tail(todo[p])[k] = todo[p][k + 1]
  BY Rest
<1>2. Left(p)' = Tail(todo[p]) /\ Left(p) = Tail(todo[p])
  BY DEF Left
<1>3. Mirrors(f, there)'
  BY DEF Aims, Mirrors
<1>4. ASSUME NEW k \in DOMAIN todo'[p], NEW x \in Halves,
             todo'[p][k].id \in there', x \in DOMAIN todo'[p][k].patch
      PROVE  todo'[p][k].patch[x] = f[todo'[p][k].id][x]
  <2>1. \E j \in DOMAIN todo[p] : todo'[p][k] = todo[p][j]
    BY <1>1
  <2> QED BY <1>4, <2>1 DEF Aims
<1> QED BY <1>2, <1>3, <1>4 DEF Aims

\* When nothing is left, the links mirror each other.
LEMMA AimsMet ==
  ASSUME NEW p \in Procs, NEW f, Aims(p, f)', Left(p)' = <<>>
  PROVE  Mirrors(task, there)'
<1>1. DOMAIN Left(p)' = {}
  OBVIOUS
<1>2. Mirrors(f, there') /\ \A i \in there' : \A x \in Halves : task'[i][x] = f[i][x]
  BY <1>1 DEF Aims, Mirrors
<1>3. Mirrors(task', there')
  BY <1>2, SameLinks
<1> QED BY <1>3 DEF Mirrors

LEMMA KnowsLoop ==
  ASSUME NEW p \in Procs, pc'[p] \in Loop \cup {"idle", "unlockList"},
         todo'[p] = <<>> /\ pc'[p] # "fill" => Mirrors(task, there)'
  PROVE  Knows(p)'
BY DEF Knows, Loop, Clearing, Undone

\* The holder of the lock of the list.
LEMMA ListHeld ==
  ASSUME NEW p \in Procs, Locks(p)
  PROVE  listLock = p <=> HasList(p)
BY TaskListAssumption DEF Locks

\* From one update to the next, or to the end of the call.
LEMMA Resuming ==
  ASSUME NEW p \in Procs, NEW us, Links(p), call'[p] = call[p],
         call[p].op \in {"update", "delete", "block", "unassign", "claim", "busyclaim"},
         pc[p] \notin {"idle", "claimCheck", "lockList"},
         pc'[p] = Resume(p, us), todo'[p] = us, us = <<>> \/ call[p].op # "claim",
         UNCHANGED listLock, \A i \in Ids : taskLock'[i] = NoProc
  PROVE  Routed(call[p].op, pc[p])' /\ Locks(p)' /\ pc'[p] \in {"check", "unlockList", "idle"}
<1>1. listLock = p <=> call[p].op = "busyclaim"
  BY ListHeld DEF Links, HasList
<1>2. /\ pc'[p] = "check" => call[p].op # "claim"
      /\ pc'[p] = "unlockList" <=> us = <<>> /\ call[p].op = "busyclaim"
      /\ pc'[p] \in {"check", "unlockList", "idle"}
  BY <1>1 DEF Resume
<1>3. Routed(call[p].op, pc[p])'
  BY <1>2 DEF Routed, Loop
<1>4. ~HasTask(p)'
  BY <1>2 DEF HasTask
<1>5. HasList(p)' <=> call[p].op = "busyclaim"
  BY <1>2 DEF HasList, Resume
<1>6. listLock \in {p, NoProc}
  BY DEF Links, Locks
<1>7. Locks(p)'
  BY <1>1, <1>4, <1>5, <1>6 DEF Locks
<1> QED BY <1>2, <1>3, <1>7

LEMMA CheckLinks ==
  ASSUME Shape, NEW p \in Procs, Links(p), Check(p)
  PROVE  Links(p)'
<1> USE DEF files, marks, locks, writes, reads
<1>1. /\ UNCHANGED <<there, torn, task, call, listLock, taskLock>> /\ pc[p] = "check"
      /\ todo[p] # <<>> /\ torn = {} /\ todo[p] \in Seq(Update)
      /\ call[p].op \in {"update", "delete", "block", "unassign", "busyclaim"}
  BY DEF Check, Links, Updating, Fills, Shape, Routed, Clearing, Loop
<1>2. ~HasTask(p)
  BY <1>1 DEF HasTask
<1>3. PICK f : Aims(p, f)
  BY <1>1 DEF Links, Updating
<1>4. CASE Readable(Head(todo[p]).id)
  <2>1. pc'[p] = "lockTask" /\ UNCHANGED todo /\ Head(todo[p]).id \in there
    BY <1>4 DEF Check, Goto, Shape, Tables, Readable
  <2>2. Routed(call[p].op, pc[p])' /\ Locks(p)'
    BY <1>1, <1>2, <2>1 DEF Routed, Links, Locks, HasList, HasTask, Loop
  <2>3. Aims(p, f)'
    BY <1>1, <1>3, <2>1, AimsStay
  <2>4. Fills(p)' /\ Updating(p)'
    BY <1>1, <2>1, <2>3 DEF Fills, Updating, Loop, Locking
  <2>5. Knows(p)'
    BY <1>1, <2>1, KnowsLoop DEF Loop
  <2> QED BY <2>2, <2>4, <2>5 DEF Links
<1>5. CASE ~Readable(Head(todo[p]).id)
  <2>1. /\ todo'[p] = Tail(todo[p]) /\ pc'[p] = Resume(p, Tail(todo[p]))
        /\ Head(todo[p]).id \notin there
    BY <1>1, <1>5 DEF Check, Goto, Shape, Tables, Readable
  <2>2. \A i \in Ids : taskLock'[i] = NoProc
    BY <1>1, <1>2 DEF Links, Locks
  <2>3. Routed(call[p].op, pc[p])' /\ Locks(p)' /\ pc'[p] \in {"check", "unlockList", "idle"}
    BY <1>1, <2>1, <2>2, Resuming
  <2>4. Aims(p, f)'
    BY <1>1, <1>3, <2>1, <2>3, AimsOnce
  <2>5. pc'[p] = "check" <=> todo'[p] # <<>>
    BY <2>1 DEF Resume
  <2>6. Fills(p)' /\ Updating(p)'
    BY <1>1, <2>3, <2>4, <2>5 DEF Fills, Updating, Loop
  <2>7. todo'[p] = <<>> => Mirrors(task, there)'
    <3>1. todo'[p] = <<>> => Left(p)' = <<>>
      BY <2>3 DEF Left
    <3> QED BY <2>4, <3>1, AimsMet
  <2>8. Knows(p)'
    BY <2>3, <2>7, KnowsLoop DEF Loop
  <2> QED BY <2>3, <2>6, <2>8 DEF Links
<1> QED BY <1>4, <1>5

\* The lock of a task is free: nobody else makes a call, and the call does not
\* give up.
LEMMA LockTaskLinks ==
  ASSUME Shape, NEW p \in Procs, Links(p), LockTask(p) \/ TaskLockFails(p)
  PROVE  Links(p)'
<1> USE DEF files, marks, locks, writes, reads
<1>1. /\ pc[p] = "lockTask" /\ Locking(p) \in there /\ Locking(p) \in Ids /\ torn = {}
      /\ call[p].op = "claim" <=> todo[p] = <<>>
  BY DEF LockTask, TaskLockFails, Links, Updating, Fills, Shape, Board
<1>2. ~HasTask(p)
  BY <1>1 DEF HasTask
<1>3. LockTask(p)
  <2>1. taskLock[Locking(p)] = NoProc
    BY <1>1, <1>2 DEF Links, Locks
  <2> QED BY <1>1, <2>1 DEF TaskLockFails
<1>4. /\ UNCHANGED <<there, torn, task, call, todo, listLock>>
      /\ pc'[p] = IF call[p].op = "claim" THEN "inspect" ELSE "reread"
      /\ taskLock' = [taskLock EXCEPT ![Locking(p)] = p]
  BY <1>3 DEF LockTask, Goto, Shape, Tables
<1>5. Routed(call[p].op, pc[p])'
  BY <1>1, <1>4 DEF Routed, Links, Loop, Clearing
<1>6. Locks(p)'
  <2>1. Locking(p)' = Locking(p) /\ HasTask(p)' /\ (HasList(p)' <=> HasList(p))
    BY <1>1, <1>4 DEF Locking, HasTask, HasList
  <2>2. \A i \in Ids : taskLock'[i] = IF i = Locking(p) THEN p ELSE taskLock[i]
    BY <1>4 DEF Shape, Board
  <2>3. listLock = IF HasList(p) THEN p ELSE NoProc
    BY DEF Links, Locks
  <2>4. \A i \in Ids : taskLock[i] = NoProc
    BY <1>2 DEF Links, Locks
  <2> QED BY <1>4, <2>1, <2>2, <2>3, <2>4 DEF Locks
<1>7. Fills(p)' /\ Updating(p)' /\ Knows(p)'
  <2>1. CASE call[p].op = "claim"
    <3>1. Mirrors(task, there)
      BY <1>1, <2>1 DEF Links, Knows, Undone
    <3>2. todo'[p] = <<>> /\ pc'[p] = "inspect"
      BY <1>1, <1>4, <2>1
    <3> QED BY <1>1, <1>4, <2>1, <3>1, <3>2, EaseNext, KnowsNext
  <2>2. CASE call[p].op # "claim"
    <3>1. PICK f : Aims(p, f)
      BY <1>1, <2>2 DEF Links, Updating
    <3>2. Aims(p, f)'
      BY <1>1, <1>4, <2>2, <3>1, AimsStay
    <3>3. Fills(p)' /\ Updating(p)'
      <4>1. todo'[p] # <<>> => call[p].op # "create"
        BY <1>4 DEF Links, Updating
      <4> QED BY <1>1, <1>4, <2>2, <3>2, <4>1 DEF Fills, Updating, Loop
    <3>4. Knows(p)'
      BY <1>1, <1>4, <2>2, KnowsLoop DEF Loop
    <3> QED BY <3>3, <3>4
  <2> QED BY <2>1, <2>2
<1> QED BY <1>5, <1>6, <1>7 DEF Links

\* In the middle of an update the locks stay as they are.
LEMMA LocksKept ==
  ASSUME NEW p \in Procs, Links(p), pc[p] \in {"reread", "open", "fill"},
         pc'[p] \in {"open", "fill", "unlockTask"}, call[p].op # "create",
         UNCHANGED <<listLock, taskLock>>, call'[p] = call[p], todo'[p] = todo[p]
  PROVE  Routed(call[p].op, pc[p])' /\ Locks(p)'
<1>1. Locking(p)' = Locking(p) /\ HasTask(p)' /\ HasTask(p) /\ (HasList(p)' <=> HasList(p))
  BY DEF Locking, HasTask, HasList, Links, Routed, Loop, Clearing
<1>2. Routed(call[p].op, pc[p])'
  BY DEF Links, Routed, Loop, Clearing
<1> QED BY <1>1, <1>2 DEF Links, Locks

LEMMA RereadLinks ==
  ASSUME Shape, NEW p \in Procs, Links(p), Reread(p)
  PROVE  Links(p)'
<1> USE DEF files, marks, locks, reads
<1>1. /\ UNCHANGED <<there, torn, task, call, todo, listLock, taskLock>> /\ pc[p] = "reread"
      /\ todo[p] # <<>> /\ torn = {} /\ todo[p] \in Seq(Update) /\ call[p].op # "create"
  BY DEF Reread, Links, Updating, Fills, Shape
<1>2. PICK f : Aims(p, f)
  BY <1>1 DEF Links, Updating
<1>3. call[p].op = "claim" => Tail(todo[p]) = <<>> /\ Head(todo[p]).id = call[p].id
  BY <1>1 DEF Links, Updating
<1>4. CASE Readable(Head(todo[p]).id)
  <2>1. /\ pc'[p] = "open" /\ Head(todo[p]).id \in there /\ target'[p] = Head(todo[p]).id
        /\ buf'[p] = Merge(Head(todo[p]).patch, task[Head(todo[p]).id])
    BY <1>4 DEF Reread, Goto, Shape, Tables, Readable
  <2>2. Routed(call[p].op, pc[p])' /\ Locks(p)'
    BY <1>1, <2>1, LocksKept
  <2>3. Aims(p, f)'
    BY <1>1, <1>2, <2>1, AimsStay
  <2>4. Fills(p)'
    BY <1>1, <2>1 DEF Fills
  <2>5. Updating(p)'
    BY <1>1, <1>3, <2>1, <2>3 DEF Updating, Loop
  <2>6. Knows(p)'
    BY <1>1, <2>1, KnowsLoop DEF Loop
  <2> QED BY <2>2, <2>4, <2>5, <2>6 DEF Links
<1>5. CASE ~Readable(Head(todo[p]).id)
  <2>1. pc'[p] = "unlockTask" /\ Head(todo[p]).id \notin there
    BY <1>1, <1>5 DEF Reread, Goto, Shape, Tables, Readable
  <2>2. Routed(call[p].op, pc[p])' /\ Locks(p)'
    BY <1>1, <2>1, LocksKept
  <2>3. Aims(p, f)'
    BY <1>1, <1>2, <2>1, AimsOnce
  <2>4. Fills(p)' /\ Updating(p)'
    BY <1>1, <1>3, <2>1, <2>3 DEF Fills, Updating, Loop
  <2>5. Knows(p)'
    BY <1>1, <2>1, KnowsLoop DEF Loop
  <2> QED BY <2>2, <2>4, <2>5 DEF Links
<1> QED BY <1>4, <1>5

LEMMA OpenOldLinks ==
  ASSUME Shape, NEW p \in Procs, Links(p), OpenOld(p)
  PROVE  Links(p)'
<1> USE DEF files, marks, locks, reads
<1>1. /\ UNCHANGED <<task, call, todo, target, buf, listLock, taskLock>> /\ pc[p] = "open"
      /\ todo[p] # <<>> /\ torn = {} /\ call[p].op # "create" /\ target[p] \in there
      /\ target[p] = Head(todo[p]).id
      /\ buf[p] = Merge(Head(todo[p]).patch, task[target[p]])
  BY DEF OpenOld, Open, Links, Updating, Fills
<1>2. /\ pc'[p] = "fill" /\ UNCHANGED there /\ torn' = {target[p]} /\ linked'[p]
  BY <1>1 DEF OpenOld, Open, Goto, Shape, Tables
<1>3. PICK f : Aims(p, f)
  BY <1>1 DEF Links, Updating
<1>4. call[p].op = "claim" => Tail(todo[p]) = <<>> /\ Head(todo[p]).id = call[p].id
  BY <1>1 DEF Links, Updating
<1>5. Routed(call[p].op, pc[p])' /\ Locks(p)'
  BY <1>1, <1>2, LocksKept
<1>6. Aims(p, f)'
  BY <1>1, <1>2, <1>3, AimsStay
<1>7. Fills(p)'
  BY <1>1, <1>2 DEF Fills
<1>8. Updating(p)'
  BY <1>1, <1>2, <1>4, <1>6 DEF Updating, Loop
<1>9. Knows(p)'
  BY <1>1, <1>2, KnowsLoop DEF Loop
<1> QED BY <1>5, <1>7, <1>8, <1>9 DEF Links

LEMMA FillLinks ==
  ASSUME Shape, NEW p \in Procs, Links(p), Fill(p)
  PROVE  Links(p)'
<1> USE DEF files, marks, locks, reads
<1>1. /\ UNCHANGED <<there, call, todo, listLock, taskLock>> /\ pc[p] = "fill"
      /\ torn = {target[p]} /\ linked[p] /\ target[p] \in there
  BY DEF Fill, Links, Fills
<1>2. /\ pc'[p] = IF call[p].op = "create" THEN "unlockList" ELSE "unlockTask"
      /\ task' = [task EXCEPT ![target[p]] = buf[p]] /\ torn' = {}
  BY <1>1 DEF Fill, Goto, Shape, Tables
<1>3. CASE call[p].op = "create"
  <2>1. todo[p] = <<>> /\ buf[p] = NewTask /\ Mirrors([task EXCEPT ![target[p]] = NewTask], there)
    BY <1>1, <1>3 DEF Links, Updating, Fills
  <2>2. Routed(call[p].op, pc[p])' /\ Locks(p)'
    BY <1>1, <1>2, <1>3 DEF Routed, Links, Locks, HasList, HasTask
  <2>3. Fills(p)' /\ Updating(p)'
    BY <1>1, <1>2, <1>3, <2>1, EaseNext
  <2>4. Mirrors(task, there)'
    BY <1>1, <1>2, <2>1 DEF Mirrors
  <2>5. Knows(p)'
    BY <1>2, <1>3, <2>4, KnowsLoop
  <2> QED BY <2>2, <2>3, <2>5 DEF Links
<1>4. CASE call[p].op # "create"
  <2>1. /\ todo[p] # <<>> /\ todo[p] \in Seq(Update) /\ target[p] = Head(todo[p]).id
        /\ buf[p] = Merge(Head(todo[p]).patch, task[target[p]])
        /\ call[p].op = "claim" => Tail(todo[p]) = <<>> /\ Head(todo[p]).id = call[p].id
    BY <1>1, <1>4 DEF Links, Updating, Fills, Shape
  <2>2. PICK f : Aims(p, f)
    BY <2>1 DEF Links, Updating
  <2>3. ASSUME NEW i \in there, NEW x \in Halves
        PROVE  task'[i][x] = IF i = Head(todo[p]).id /\ x \in DOMAIN Head(todo[p]).patch
                             THEN Head(todo[p]).patch[x] ELSE task[i][x]
    <3>1. task \in [Ids -> Task] /\ i \in Ids /\ target[p] \in Ids
      BY <1>1 DEF Shape, Board
    <3>2. x \in DOMAIN task[target[p]]
      BY <3>1 DEF Task, Halves
    <3>3. buf[p][x] = IF x \in DOMAIN Head(todo[p]).patch THEN Head(todo[p]).patch[x]
                                                          ELSE task[target[p]][x]
      BY <2>1, <3>2 DEF Merge
    <3>4. task'[i] = IF i = target[p] THEN buf[p] ELSE task[i]
      BY <1>2, <3>1
    <3> QED BY <2>1, <3>3, <3>4
  <2>4. Aims(p, f)'
    <3>1. pc'[p] = "unlockTask" /\ todo'[p] = todo[p] /\ pc[p] # "unlockTask"
      BY <1>1, <1>2, <1>4
    <3> QED BY <1>1, <2>1, <2>2, <2>3, <3>1, AimsOnce
  <2>5. Routed(call[p].op, pc[p])' /\ Locks(p)'
    BY <1>1, <1>2, <1>4, LocksKept
  <2>6. Fills(p)' /\ Updating(p)'
    BY <1>1, <1>2, <1>4, <2>1, <2>4 DEF Fills, Updating, Loop
  <2>7. Knows(p)'
    BY <1>1, <1>2, <1>4, <2>1, KnowsLoop DEF Loop
  <2> QED BY <2>5, <2>6, <2>7 DEF Links
<1> QED BY <1>3, <1>4

LEMMA UnlockTaskLinks ==
  ASSUME Shape, NEW p \in Procs, Links(p), UnlockTask(p)
  PROVE  Links(p)'
<1> USE DEF files, marks, locks, reads, writes
<1> DEFINE rest == IF todo[p] = <<>> THEN <<>> ELSE Tail(todo[p])
<1>1. /\ UNCHANGED <<there, torn, task, call, listLock>> /\ pc[p] = "unlockTask" /\ torn = {}
      /\ todo'[p] = rest /\ pc'[p] = Resume(p, rest) /\ todo[p] \in Seq(Update)
  BY DEF UnlockTask, Goto, Links, Fills, Shape, Tables
<1>2. /\ call[p].op \in {"update", "delete", "block", "unassign", "claim", "busyclaim"}
      /\ rest = <<>> \/ call[p].op # "claim"
  BY <1>1 DEF Links, Routed, Updating, Clearing, Loop
<1>3. \A i \in Ids : taskLock'[i] = NoProc
  <2>1. \A i \in Ids : taskLock[i] = IF i = Locking(p) THEN p ELSE NoProc
    BY <1>1 DEF Links, Locks, HasTask
  <2> QED BY <2>1 DEF UnlockTask, Shape, Board
<1> HIDE DEF rest
<1>4. Routed(call[p].op, pc[p])' /\ Locks(p)' /\ pc'[p] \in {"check", "unlockList", "idle"}
  BY <1>1, <1>2, <1>3, Resuming
<1>5. pc'[p] = "check" <=> todo'[p] # <<>>
  BY <1>1 DEF Resume
<1>6. todo[p] # <<>> => \E f : Aims(p, f)'
  <2> SUFFICES ASSUME todo[p] # <<>> PROVE \E f : Aims(p, f)'
    OBVIOUS
  <2>1. PICK f : Aims(p, f)
    BY DEF Links, Updating
  <2>2. todo'[p] = Tail(todo[p]) /\ pc'[p] # "unlockTask"
    BY <1>1, <1>4 DEF rest
  <2>3. Aims(p, f)'
    BY <1>1, <2>1, <2>2, AimsAfter
  <2> QED BY <2>3
<1>7. todo'[p] = <<>> => Mirrors(task, there)'
  <2>1. CASE todo[p] = <<>>
    <3>1. Mirrors(task, there)
      BY <1>1, <2>1 DEF Links, Knows, Undone
    <3> QED BY <1>1, <3>1 DEF Mirrors
  <2>2. CASE todo[p] # <<>>
    <3>1. PICK f : Aims(p, f)'
      BY <1>6, <2>2
    <3>2. todo'[p] = <<>> => Left(p)' = <<>>
      BY <1>4 DEF Left
    <3> QED BY <3>1, <3>2, AimsMet
  <2> QED BY <2>1, <2>2
<1>8. todo'[p] # <<>> => todo[p] # <<>>
  BY <1>1 DEF rest
<1>9. Fills(p)' /\ Updating(p)'
  BY <1>1, <1>2, <1>4, <1>5, <1>6, <1>8 DEF Fills, Updating, Loop, rest
<1>10. Knows(p)'
  BY <1>4, <1>7, KnowsLoop DEF Loop
<1> QED BY <1>4, <1>9, <1>10 DEF Links

\* The new task's id is no task's, and no link names it.
LEMMA OpenNewLinks ==
  ASSUME Shape, NEW p \in Procs, Links(p), OpenNew(p)
  PROVE  Links(p)'
<1> USE DEF files, marks, locks, reads
<1> DEFINE n == NewId(p)
<1>1. /\ UNCHANGED <<task, call, todo, listLock, taskLock>> /\ pc[p] = "scan"
      /\ torn = {} /\ todo[p] = <<>> /\ call[p].op = "create" /\ Mirrors(task, there)
      /\ n \in Ids
  BY DEF OpenNew, Open, Links, Fills, Updating, Routed, Knows, Undone, Loop, Clearing
<1>2. /\ pc'[p] = "fill" /\ there' = there \cup {n} /\ torn' = {n} /\ linked'[p]
      /\ target'[p] = n /\ buf'[p] = NewTask
  BY <1>1 DEF OpenNew, Open, Goto, Shape, Tables
<1>3. n \notin there
  <2>1. high[p] = Highest /\ seenMark[p] \in Int
    BY <1>1 DEF OpenNew, Links, Knows, Shape, Numbers
  <2>2. there \subseteq Ids
    BY DEF Shape, Board
  <2>3. Highest \in Int /\ \A i \in there : i <= Highest
    <3>1. Highest \in there \cup {0} /\ \A i \in there : i <= Highest
      BY <2>2, HighestIsGreatest
    <3> QED BY <2>2, <3>1 DEF Ids
  <2>4. n > Highest
    BY <2>1, <2>3 DEF NewId, Larger
  <2>5. \A i \in there : i \in Int
    BY <2>2 DEF Ids
  <2> QED BY <2>3, <2>4, <2>5
<1> HIDE DEF n
<1>4. Routed(call[p].op, pc[p])' /\ Locks(p)'
  BY <1>1, <1>2 DEF Routed, Links, Locks, HasList, HasTask
<1>5. Mirrors([task EXCEPT ![n] = NewTask], there \cup {n})
  <2> DEFINE t == [task EXCEPT ![n] = NewTask]
  <2>1. t[n].blocks = {} /\ t[n].blockedBy = {} /\ \A i \in there : t[i] = task[i]
    BY <1>1, <1>3 DEF NewTask, Shape, Board
  <2>2. \A i \in there : task[i].blocks \subseteq there /\ task[i].blockedBy \subseteq there
    BY <1>1 DEF Mirrors
  <2> HIDE DEF t
  <2>3. ASSUME NEW i \in there
        PROVE  /\ t[i].blocks = {j \in there \cup {n} : i \in t[j].blockedBy}
               /\ t[i].blockedBy = {j \in there \cup {n} : i \in t[j].blocks}
    <3>1. /\ task[i].blocks = {j \in there : i \in task[j].blockedBy}
          /\ task[i].blockedBy = {j \in there : i \in task[j].blocks}
      BY <1>1 DEF Mirrors
    <3> QED BY <2>1, <3>1
  <2>4. /\ t[n].blocks = {j \in there \cup {n} : n \in t[j].blockedBy}
        /\ t[n].blockedBy = {j \in there \cup {n} : n \in t[j].blocks}
    BY <1>3, <2>1, <2>2
  <2>5. Mirrors(t, there \cup {n})
    BY <2>3, <2>4 DEF Mirrors
  <2> QED BY <2>5 DEF t
<1>6. Fills(p)'
  <2>1. Mirrors([task EXCEPT ![target[p]] = NewTask], there)'
    BY <1>1, <1>2, <1>5 DEF Mirrors
  <2> QED BY <1>1, <1>2, <2>1 DEF Fills
<1>7. Updating(p)' /\ Knows(p)'
  <2>1. Knows(p)'
    BY <1>1, <1>2, KnowsLoop DEF Loop
  <2> QED BY <1>1, <1>2, <2>1 DEF Updating
<1> QED BY <1>4, <1>6, <1>7 DEF Links

-----------------------------------------------------------------------------
(* The decisions.                                                          *)

\* The updates us lead to the links of the list f.
Leads(us, f) ==
    /\ Mirrors(f, there)
    /\ \A k \in DOMAIN us : \A x \in Halves :
          us[k].id \in there /\ x \in DOMAIN us[k].patch => us[k].patch[x] = f[us[k].id][x]
    /\ \A i \in there : \A x \in Halves :
          \/ task[i][x] = f[i][x]
          \/ \E k \in DOMAIN us : us[k].id = i /\ x \in DOMAIN us[k].patch

LEMMA LeadsAims ==
  ASSUME NEW p \in Procs, NEW us, NEW f, Leads(us, f), todo'[p] = us,
         UNCHANGED <<there, task>>, pc'[p] # "unlockTask"
  PROVE  Aims(p, f)' /\ (us = <<>> => Mirrors(task, there)')
<1>1. Left(p)' = us
  BY DEF Left
<1>2. Aims(p, f)'
  BY <1>1 DEF Leads, Aims, Mirrors
<1>3. us = <<>> => Mirrors(task, there)'
  BY <1>1, <1>2, AimsMet
<1> QED BY <1>2, <1>3

\* A call that has read the list decides on its updates.
LEMMA DecidedLinks ==
  ASSUME Shape, NEW p \in Procs, Links(p), pc[p] = "reading",
         call[p].op \in {"delete", "block", "unassign"}, NEW us, Then(p, us, Resume(p, us)),
         NEW f, Leads(us, f)
  PROVE  Links(p)'
<1> USE DEF files, marks, locks, reads, writes
<1>1. /\ UNCHANGED <<there, torn, task, call, listLock, taskLock>> /\ torn = {}
      /\ todo'[p] = us /\ pc'[p] = Resume(p, us)
  BY DEF Then, Goto, Links, Fills, Shape, Tables
<1>2. \A i \in Ids : taskLock'[i] = NoProc
  BY <1>1 DEF Links, Locks, HasTask
<1>3. Routed(call[p].op, pc[p])' /\ Locks(p)' /\ pc'[p] \in {"check", "unlockList", "idle"}
  BY <1>1, <1>2, Resuming
<1>4. Aims(p, f)' /\ (us = <<>> => Mirrors(task, there)')
  BY <1>1, <1>3, LeadsAims
<1>5. pc'[p] = "check" <=> us # <<>>
  BY <1>1 DEF Resume
<1>6. Fills(p)' /\ Updating(p)'
  BY <1>1, <1>3, <1>4, <1>5 DEF Fills, Updating, Loop
<1>7. Knows(p)'
  BY <1>1, <1>3, <1>4, KnowsLoop DEF Loop
<1> QED BY <1>3, <1>6, <1>7 DEF Links

\* Updates that change no link.
LEMMA LeadsNowhere ==
  ASSUME NEW us, Mirrors(task, there),
         \A k \in DOMAIN us : \A x \in Halves : x \notin DOMAIN us[k].patch
  PROVE  Leads(us, task)
BY DEF Leads

LEMMA ClaimLinks ==
  ASSUME Shape, NEW p \in Procs, Links(p), DecideClaim(p) \/ DecideBusyClaim(p)
  PROVE  Links(p)' /\ todo'[p] \in Seq(Update)
<1> USE DEF files, marks, locks, reads, writes
<1> DEFINE us == <<[id |-> call[p].id, patch |-> [owner |-> p]]>>
<1>1. PICK l : \/ Then(p, us, l) /\ l = (IF call[p].op = "claim" THEN "reread" ELSE "check")
               \/ Then(p, <<>>, l) /\ l = (IF call[p].op = "claim" THEN "unlockTask" ELSE "unlockList")
  <2> HIDE DEF Then, us
  <2>1. CASE DecideClaim(p)
    BY <2>1 DEF DecideClaim, Read, us
  <2>2. CASE DecideBusyClaim(p)
    BY <2>2 DEF DecideBusyClaim, Read, us
  <2> QED BY <2>1, <2>2
<1>2. /\ call[p].op \in {"claim", "busyclaim"} /\ pc[p] = "reading"
      /\ todo[p] = <<>> /\ torn = {} /\ Mirrors(task, there)
  BY DEF DecideClaim, DecideBusyClaim, Read, Links, Fills, Updating, Knows, Undone, Loop
<1>3. /\ us # <<>> /\ Head(us) = [id |-> call[p].id, patch |-> [owner |-> p]] /\ Tail(us) = <<>>
      /\ \A k \in DOMAIN us : us[k] = [id |-> call[p].id, patch |-> [owner |-> p]]
  OBVIOUS
<1>a. us \in Seq(Update) /\ <<>> \in Seq(Update)
  <2>1. call[p].id \in Ids
    BY <1>2 DEF Shape, Asked
  <2>2. [owner |-> p] \in Patch
    BY DEF Patch
  <2>3. [id |-> call[p].id, patch |-> [owner |-> p]] \in Update
    BY <2>1, <2>2 DEF Update
  <2> QED BY <2>3
<1> HIDE DEF us
<1>4. UNCHANGED <<there, torn, task, call, listLock, taskLock>>
  BY <1>1 DEF Then
<1>5. \/ todo'[p] = us /\ pc'[p] = IF call[p].op = "claim" THEN "reread" ELSE "check"
      \/ todo'[p] = <<>> /\ pc'[p] = IF call[p].op = "claim" THEN "unlockTask" ELSE "unlockList"
  BY <1>1 DEF Then, Goto, Shape, Tables
<1>6. call[p].op = "claim" => Locking(p) = call[p].id /\ Locking(p)' = call[p].id
  BY <1>4 DEF Locking
<1>7. Routed(call[p].op, pc[p])' /\ Locks(p)'
  <2>1. Routed(call[p].op, pc[p])'
    BY <1>2, <1>4, <1>5 DEF Routed, Loop
  <2>2. (HasList(p)' <=> HasList(p)) /\ (HasTask(p)' <=> HasTask(p))
        /\ (HasTask(p) => call[p].op = "claim")
    BY <1>2, <1>4, <1>5 DEF HasList, HasTask
  <2>3. Locks(p)'
    BY <1>4, <1>6, <2>2 DEF Links, Locks
  <2> QED BY <2>1, <2>3
<1>8. CASE todo'[p] = us
  <2>1. Leads(us, task)
    <3>1. \A k \in DOMAIN us : \A x \in Halves : x \notin DOMAIN us[k].patch
      BY <1>3 DEF Halves
    <3> QED BY <1>2, <3>1, LeadsNowhere
  <2>2. pc'[p] = IF call[p].op = "claim" THEN "reread" ELSE "check"
    BY <1>3, <1>5, <1>8
  <2>3. \E f : Aims(p, f)'
    <3>1. PICK f : Leads(us, f)
      BY <2>1
    <3>2. Aims(p, f)'
      BY <1>3, <1>4, <1>8, <2>2, <3>1, LeadsAims
    <3> QED BY <3>2
  <2>4. Fills(p)' /\ Updating(p)'
    BY <1>2, <1>3, <1>4, <1>8, <2>2, <2>3 DEF Fills, Updating, Loop
  <2>5. Knows(p)'
    BY <1>3, <1>8, <2>2, KnowsLoop DEF Loop
  <2> QED BY <1>7, <1>8, <1>a, <2>4, <2>5 DEF Links
<1>9. CASE todo'[p] = <<>>
  <2>1. pc'[p] = IF call[p].op = "claim" THEN "unlockTask" ELSE "unlockList"
    BY <1>3, <1>5, <1>9
  <2>2. Fills(p)' /\ Updating(p)' /\ Knows(p)'
    BY <1>2, <1>4, <1>9, <2>1, EaseNext, KnowsNext DEF Clearing
  <2> QED BY <1>7, <1>9, <1>a, <2>2 DEF Links
<1> QED BY <1>5, <1>8, <1>9

\* The tasks of a deleted list forget the deleted task.
LEMMA DeleteLinks ==
  ASSUME Shape, NEW p \in Procs, Links(p), DecideDelete(p)
  PROVE  Links(p)' /\ todo'[p] \in Seq(Update)
<1> DEFINE d == call[p].id
           linkedTo == {i \in Listed(p) : d \in snap[p][i].blocks \cup snap[p][i].blockedBy}
           patches == [i \in linkedTo |-> [blocks    |-> snap[p][i].blocks \ {d},
                                           blockedBy |-> snap[p][i].blockedBy \ {d}]]
<1>1. pc[p] = "reading" /\ call[p].op = "delete" /\ UpdateEach(p, patches)
  BY DEF DecideDelete, Read
<1>2. DOMAIN snap[p] = there /\ \A i \in there : snap[p][i] = task[i] /\ i \in Ids
  <2>1. unread[p] = {}
    BY DEF DecideDelete, Read
  <2>2. unread[p] \cup DOMAIN snap[p] = there
    BY <1>1 DEF Links, Knows, Undone
  <2>3. \A i \in DOMAIN snap[p] : snap[p][i] = task[i]
    BY <1>1 DEF Links, Knows
  <2> QED BY <2>1, <2>2, <2>3 DEF Shape, Board
<1>3. /\ DOMAIN patches \subseteq there
      /\ \A i \in DOMAIN patches : patches[i] = [blocks    |-> task[i].blocks \ {d},
                                                 blockedBy |-> task[i].blockedBy \ {d}]
      /\ \A i \in there : i \in DOMAIN patches \/ d \notin task[i].blocks \cup task[i].blockedBy
  BY <1>2 DEF Listed
<1> HIDE DEF patches, linkedTo, d
<1>4. PICK us : Then(p, us, Resume(p, us)) /\ Serves(us, patches)
  <2>1. DOMAIN patches \subseteq Ids
    BY <1>2, <1>3
  <2> QED BY <1>1, <2>1, EachTask
<1>5. PICK f : f = Without(d)
  OBVIOUS
<1>6. \A i \in there : /\ f[i].blocks = task[i].blocks \ {d}
                       /\ f[i].blockedBy = task[i].blockedBy \ {d}
  BY <1>2, <1>5 DEF Without
<1>7. Leads(us, f)
  <2>1. Mirrors(f, there)
    BY <1>1, <1>5 DEF Links, Knows, Undone, d
  <2>2. ASSUME NEW k \in DOMAIN us, NEW x \in Halves
        PROVE  us[k].patch[x] = f[us[k].id][x]
    <3>1. PICK i \in DOMAIN patches : us[k] = [id |-> i, patch |-> patches[i]]
      BY <1>4 DEF Serves
    <3>2. /\ us[k].id = i /\ us[k].patch.blocks = task[i].blocks \ {d}
          /\ us[k].patch.blockedBy = task[i].blockedBy \ {d}
      BY <1>3, <3>1
    <3> QED BY <1>3, <1>6, <3>2 DEF Halves
  <2>3. ASSUME NEW i \in there, NEW x \in Halves
        PROVE  \/ task[i][x] = f[i][x]
               \/ \E k \in DOMAIN us : us[k].id = i /\ x \in DOMAIN us[k].patch
    <3>1. CASE i \in DOMAIN patches
      <4>1. PICK k \in DOMAIN us : us[k] = [id |-> i, patch |-> patches[i]]
        BY <1>4, <3>1 DEF Serves
      <4>2. us[k].id = i /\ x \in DOMAIN us[k].patch
        BY <1>3, <3>1, <4>1 DEF Halves
      <4> QED BY <4>2
    <3>2. CASE i \notin DOMAIN patches
      <4>1. /\ task[i].blocks \ {d} = task[i].blocks
            /\ task[i].blockedBy \ {d} = task[i].blockedBy
        BY <1>3, <3>2
      <4> QED BY <1>6, <4>1 DEF Halves
    <3> QED BY <3>1, <3>2
  <2> QED BY <2>1, <2>2, <2>3 DEF Leads
<1>8. us \in Seq(Update)
  <2>1. ASSUME NEW k \in DOMAIN us PROVE us[k] \in Update
    <3>1. PICK i \in DOMAIN patches : us[k] = [id |-> i, patch |-> patches[i]]
      BY <1>4 DEF Serves
    <3>2. task[i] \in Task /\ i \in Ids
      BY <1>2, <1>3 DEF Shape, Board
    <3>3. patches[i] \in Patch
      BY <1>3, <3>2 DEF Patch, Task
    <3> QED BY <3>1, <3>2, <3>3 DEF Update
  <2> QED BY <1>4, <2>1 DEF Serves
<1>9. todo'[p] = us
  BY <1>4 DEF Then, Shape, Tables
<1> QED BY <1>1, <1>4, <1>7, <1>8, <1>9, DecidedLinks

LEMMA UnassignLinks ==
  ASSUME Shape, NEW p \in Procs, Links(p), DecideUnassign(p)
  PROVE  Links(p)' /\ todo'[p] \in Seq(Update)
<1> DEFINE theirs == {i \in OpenTasks(p) : snap[p][i].owner = call[p].who}
           patches == [i \in theirs |-> [owner |-> NoProc, status |-> "pending"]]
<1>1. pc[p] = "reading" /\ call[p].op = "unassign" /\ UpdateEach(p, patches)
  BY DEF DecideUnassign, Read
<1>2. /\ DOMAIN patches \subseteq Ids
      /\ \A i \in DOMAIN patches : patches[i] = [owner |-> NoProc, status |-> "pending"]
  <2>1. DOMAIN snap[p] \subseteq there
    BY <1>1 DEF Links, Knows
  <2> QED BY <2>1 DEF OpenTasks, Listed, Shape, Board
<1> HIDE DEF patches
<1>3. PICK us : Then(p, us, Resume(p, us)) /\ Serves(us, patches)
  BY <1>1, <1>2, EachTask
<1>4. \A k \in DOMAIN us : /\ us[k].patch = [owner |-> NoProc, status |-> "pending"]
                           /\ us[k] \in Update
  <2>1. [owner |-> NoProc, status |-> "pending"] \in Patch
    BY DEF Patch, Statuses
  <2> QED BY <1>2, <1>3, <2>1 DEF Serves, Update
<1>5. \E f : Leads(us, f)
  <2>1. Mirrors(task, there)
    BY <1>1 DEF Links, Knows, Undone, Updating, Loop
  <2>2. \A k \in DOMAIN us : \A x \in Halves : x \notin DOMAIN us[k].patch
    BY <1>4 DEF Halves
  <2> QED BY <2>1, <2>2, LeadsNowhere
<1>6. us \in Seq(Update)
  BY <1>3, <1>4 DEF Serves
<1>7. todo'[p] = us
  BY <1>3 DEF Then, Shape, Tables
<1> QED BY <1>1, <1>3, <1>5, <1>6, <1>7, DecidedLinks

\* A block writes both halves of a link, or none.
LEMMA BlockLeads ==
  ASSUME Shape, Mirrors(task, there), NEW a \in there, NEW b \in there, a # b,
         b \notin task[a].blocks, NEW us, DOMAIN us = {1, 2},
         us[1] = [id |-> a, patch |-> [blocks |-> task[a].blocks \cup {b}]],
         us[2] = [id |-> b, patch |-> [blockedBy |-> task[b].blockedBy \cup {a}]]
  PROVE  \E f : Leads(us, f)
<1>1. PICK f : f = [i \in Ids |->
                      [blocks    |-> task[i].blocks \cup {j \in {b} : i = a},
                       blockedBy |-> task[i].blockedBy \cup {j \in {a} : i = b}]]
  OBVIOUS
<1>2. \A i \in there : /\ f[i].blocks = task[i].blocks \cup {j \in {b} : i = a}
                       /\ f[i].blockedBy = task[i].blockedBy \cup {j \in {a} : i = b}
  BY <1>1 DEF Shape, Board
<1>3. ASSUME NEW i \in there
      PROVE  /\ f[i].blocks = {j \in there : i \in f[j].blockedBy}
             /\ f[i].blockedBy = {j \in there : i \in f[j].blocks}
  <2>1. /\ task[i].blocks = {j \in there : i \in task[j].blockedBy}
        /\ task[i].blockedBy = {j \in there : i \in task[j].blocks}
    BY DEF Mirrors
  <2>2. f[i].blocks = {j \in there : i \in f[j].blockedBy}
    <3>1. f[i].blocks \subseteq there
      BY <1>2, <2>1
    <3>2. \A j \in there : j \in f[i].blocks <=> j \in task[i].blocks \/ (j = b /\ i = a)
      BY <1>2
    <3>3. \A j \in there : i \in f[j].blockedBy <=> i \in task[j].blockedBy \/ (i = a /\ j = b)
      BY <1>2
    <3>4. \A j \in there : j \in task[i].blocks <=> i \in task[j].blockedBy
      BY <2>1
    <3> QED BY <3>1, <3>2, <3>3, <3>4
  <2>3. f[i].blockedBy = {j \in there : i \in f[j].blocks}
    <3>1. f[i].blockedBy \subseteq there
      BY <1>2, <2>1
    <3>2. \A j \in there : j \in f[i].blockedBy <=> j \in task[i].blockedBy \/ (j = a /\ i = b)
      BY <1>2
    <3>3. \A j \in there : i \in f[j].blocks <=> i \in task[j].blocks \/ (i = b /\ j = a)
      BY <1>2
    <3>4. \A j \in there : j \in task[i].blockedBy <=> i \in task[j].blocks
      BY <2>1
    <3> QED BY <3>1, <3>2, <3>3, <3>4
  <2> QED BY <2>2, <2>3
<1>4. Mirrors(f, there)
  BY <1>3 DEF Mirrors
<1>5. f[a].blocks = task[a].blocks \cup {b} /\ f[b].blockedBy = task[b].blockedBy \cup {a}
  BY <1>2
<1>6. ASSUME NEW k \in DOMAIN us, NEW x \in Halves, x \in DOMAIN us[k].patch
      PROVE  us[k].patch[x] = f[us[k].id][x]
  <2>1. CASE k = 1
    BY <1>5, <1>6, <2>1 DEF Halves
  <2>2. CASE k = 2
    BY <1>5, <1>6, <2>2 DEF Halves
  <2> QED BY <2>1, <2>2
<1>7. ASSUME NEW i \in there, NEW x \in Halves
      PROVE  \/ task[i][x] = f[i][x]
             \/ \E k \in DOMAIN us : us[k].id = i /\ x \in DOMAIN us[k].patch
  <2>1. CASE i = a /\ x = "blocks"
    <3>1. us[1].id = i /\ x \in DOMAIN us[1].patch
      BY <2>1
    <3> QED BY <3>1
  <2>2. CASE i = b /\ x = "blockedBy"
    <3>1. us[2].id = i /\ x \in DOMAIN us[2].patch
      BY <2>2
    <3> QED BY <3>1
  <2>3. CASE x = "blocks" /\ i # a
    <3>1. f[i].blocks = task[i].blocks
      BY <1>2, <2>3
    <3> QED BY <2>3, <3>1
  <2>4. CASE x = "blockedBy" /\ i # b
    <3>1. f[i].blockedBy = task[i].blockedBy
      BY <1>2, <2>4
    <3> QED BY <2>4, <3>1
  <2> QED BY <2>1, <2>2, <2>3, <2>4 DEF Halves
<1> QED BY <1>4, <1>6, <1>7 DEF Leads

\* Two updates, one after the other.
Pair(us, A, B) == us \in Seq({A, B}) /\ DOMAIN us = {1, 2} /\ us[1] = A /\ us[2] = B

LEMMA PairUp ==
  ASSUME NEW A, NEW B
  PROVE  Pair(<<A>> \o <<B>>, A, B)
<1>1. <<A>> \in Seq({A, B}) /\ <<B>> \in Seq({A, B}) /\ Len(<<A>>) = 1 /\ Len(<<B>>) = 1
  OBVIOUS
<1>2. /\ <<A>> \o <<B>> \in Seq({A, B}) /\ Len(<<A>> \o <<B>>) = 2
      /\ (<<A>> \o <<B>>)[1] = A /\ (<<A>> \o <<B>>)[2] = B
  BY <1>1
<1>3. DOMAIN (<<A>> \o <<B>>) = 1..2 /\ 1..2 = {1, 2}
  BY <1>2
<1> QED BY <1>2, <1>3 DEF Pair

LEMMA BlockLinks ==
  ASSUME Shape, NEW p \in Procs, Links(p), DecideBlock(p)
  PROVE  Links(p)' /\ todo'[p] \in Seq(Update)
<1> DEFINE a == call[p].from
           b == call[p].to
           A == [id |-> a, patch |-> [blocks |-> snap[p][a].blocks \cup {b}]]
           B == [id |-> b, patch |-> [blockedBy |-> snap[p][b].blockedBy \cup {a}]]
           ua == IF b \in snap[p][a].blocks THEN <<>> ELSE <<A>>
           ub == IF a \in snap[p][b].blockedBy THEN <<>> ELSE <<B>>
<1>1. /\ pc[p] = "reading" /\ call[p].op = "block" /\ a \in Ids /\ b \in Ids /\ a # b
      /\ Mirrors(task, there)
  BY DEF DecideBlock, Read, Shape, Asked, Links, Knows, Updating, Undone, Loop
<1>2. DOMAIN snap[p] \subseteq there /\ \A i \in DOMAIN snap[p] : snap[p][i] = task[i]
  BY <1>1 DEF Links, Knows
<1> DEFINE made == IF ~({a, b} \subseteq Listed(p)) THEN <<>> ELSE ua \o ub
<1>a. Then(p, made, Resume(p, made))
  BY DEF DecideBlock
<1>b. /\ ~(a \in Listed(p) /\ b \in Listed(p)) => made = <<>>
      /\ a \in Listed(p) /\ b \in Listed(p) => made = ua \o ub
  OBVIOUS
<1> HIDE DEF made, ua, ub, A, B
<1>c. PICK us : us = made
  OBVIOUS
<1>3. Then(p, us, Resume(p, us))
  BY <1>a, <1>c
<1>4. us = <<>> \/ /\ a \in there /\ b \in there /\ Pair(us, A, B) /\ b \notin task[a].blocks
                   /\ snap[p][a] = task[a] /\ snap[p][b] = task[b]
  <2> SUFFICES ASSUME a \in Listed(p), b \in Listed(p)
               PROVE  us = <<>> \/ /\ Pair(us, A, B) /\ b \notin task[a].blocks
                                   /\ a \in there /\ b \in there
                                   /\ snap[p][a] = task[a] /\ snap[p][b] = task[b]
    BY <1>b, <1>c
  <2>1. /\ a \in there /\ b \in there /\ snap[p][a] = task[a] /\ snap[p][b] = task[b]
        /\ us = ua \o ub
    BY <1>2, <1>b, <1>c DEF Listed
  <2>2. b \in task[a].blocks <=> a \in task[b].blockedBy
    BY <1>1, <2>1 DEF Mirrors
  <2>3. CASE b \in task[a].blocks
    <3>1. ua = <<>> /\ ub = <<>>
      BY <2>1, <2>2, <2>3 DEF ua, ub
    <3>2. us = <<>> \o <<>>
      BY <2>1, <3>1
    <3> QED BY <3>2
  <2>4. CASE b \notin task[a].blocks
    <3>1. ua = <<A>> /\ ub = <<B>>
      BY <2>1, <2>2, <2>4 DEF ua, ub
    <3>2. us = <<A>> \o <<B>>
      BY <2>1, <3>1
    <3>3. Pair(us, A, B)
      BY <3>2, PairUp
    <3> QED BY <2>1, <2>4, <3>3
  <2> QED BY <2>3, <2>4
<1>5. \E f : Leads(us, f)
  <2>1. CASE us = <<>>
    <3>1. \A k \in DOMAIN us : \A x \in Halves : x \notin DOMAIN us[k].patch
      BY <2>1
    <3> QED BY <1>1, <3>1, LeadsNowhere
  <2>2. CASE us # <<>>
    <3>1. /\ a \in there /\ b \in there /\ Pair(us, A, B) /\ b \notin task[a].blocks
          /\ A = [id |-> a, patch |-> [blocks |-> task[a].blocks \cup {b}]]
          /\ B = [id |-> b, patch |-> [blockedBy |-> task[b].blockedBy \cup {a}]]
      BY <1>4, <2>2 DEF A, B
    <3> HIDE DEF a, b
    <3> QED BY <1>1, <3>1, BlockLeads DEF Pair
  <2> QED BY <2>1, <2>2
<1>6. us \in Seq(Update)
  <2>1. CASE us = <<>>
    BY <2>1
  <2>2. CASE us # <<>>
    <3>1. task[a] \in Task /\ task[b] \in Task
      BY <1>1 DEF Shape, Board
    <3>2. /\ [blocks |-> snap[p][a].blocks \cup {b}] \in Patch
          /\ [blockedBy |-> snap[p][b].blockedBy \cup {a}] \in Patch
      BY <1>1, <1>4, <2>2, <3>1 DEF Patch, Task
    <3>3. A \in Update /\ B \in Update
      BY <1>1, <3>2 DEF Update, A, B
    <3>4. us \in Seq({A, B})
      BY <1>4, <2>2 DEF Pair
    <3> QED BY <3>3, <3>4
  <2> QED BY <2>1, <2>2
<1>7. todo'[p] = us
  BY <1>3 DEF Then, Shape, Tables
<1> QED BY <1>1, <1>3, <1>5, <1>6, <1>7, DecidedLinks

-----------------------------------------------------------------------------
(* The other steps, and the invariant.                                     *)

\* A call begins where no other call is under way.
LEMMA StartLinks ==
  ASSUME Shape, NEW p \in Procs, Calm, todo[p] = <<>>, StartWhole(p) \/ StartOnTask(p)
  PROVE  Links(p)' /\ todo'[p] \in Seq(Update) /\ Asked(call'[p])
<1> USE DEF files, locks, writes
<1>1. ASSUME NEW c, NEW l, Start(p, c, l)
      PROVE  /\ pc'[p] = l /\ call'[p] = c /\ snap'[p] = <<>> /\ high'[p] = Unknown
             /\ UNCHANGED <<there, torn, task, listLock, taskLock>>
             /\ Mirrors(task, there)'
  BY <1>1 DEF Start, Goto, Shape, Tables, Numbers, Calm, Mirrors
<1>2. ASSUME NEW c, NEW l, Start(p, c, l), UNCHANGED todo, Asked(c),
             \/ c.op \in {"create", "reset"} /\ l = "lockList"
             \/ c.op \in {"autoclear", "unassign"} /\ l = "list"
             \/ c.op = "delete" /\ l = "readMark"
             \/ c.op \in {"claim", "busyclaim"} /\ l = "claimCheck"
             \/ c.op = "block" /\ l = "reading"
      PROVE  Links(p)' /\ todo'[p] \in Seq(Update) /\ Asked(call'[p])
  <2>1. /\ pc'[p] = l /\ call'[p] = c /\ snap'[p] = <<>> /\ high'[p] = Unknown
        /\ UNCHANGED <<there, torn, task, listLock, taskLock>> /\ Mirrors(task, there)'
    BY <1>1, <1>2
  <2>2. Routed(call[p].op, pc[p])'
    BY <1>2, <2>1 DEF Routed, Clearing
  <2>3. Locks(p)'
    BY <1>2, <2>1 DEF Locks, HasList, HasTask, Calm
  <2>4. Fills(p)' /\ Updating(p)'
    BY <1>2, <2>1, EaseNext DEF Calm
  <2>5. Knows(p)'
    <3>1. DOMAIN <<>> = {}
      OBVIOUS
    <3> QED BY <1>2, <2>1, <3>1 DEF Knows, Undone
  <2>6. todo'[p] \in Seq(Update)
    BY <1>2 DEF Shape
  <2> QED BY <1>2, <2>1, <2>2, <2>3, <2>4, <2>5, <2>6 DEF Links
<1>3. CASE StartWhole(p)
  <2>1. UNCHANGED todo
    BY <1>3 DEF StartWhole
  <2>2. ASSUME NEW op \in {"create", "reset"}, Start(p, [op |-> op], "lockList")
        PROVE  Links(p)' /\ todo'[p] \in Seq(Update) /\ Asked(call'[p])
    BY <1>2, <2>1, <2>2 DEF Asked
  <2>3. CASE Start(p, [op |-> "autoclear"], "list")
    BY <1>2, <2>1, <2>3 DEF Asked
  <2>4. ASSUME NEW q \in Procs, Start(p, [op |-> "unassign", who |-> q], "list")
        PROVE  Links(p)' /\ todo'[p] \in Seq(Update) /\ Asked(call'[p])
    BY <1>2, <2>1, <2>4 DEF Asked
  <2> QED BY <1>3, <2>2, <2>3, <2>4 DEF StartWhole
<1>4. CASE StartOnTask(p)
  <2>1. PICK i \in issued :
           \/ /\ \/ Start(p, [op |-> "delete", id |-> i], "readMark")
                 \/ \E op \in {"claim", "busyclaim"} :
                        Start(p, [op |-> op, id |-> i], "claimCheck")
              /\ UNCHANGED todo
           \/ \E u \in Updates(i) :
                 /\ Start(p, [op |-> "update", id |-> i], "check")
                 /\ todo' = [todo EXCEPT ![p] = <<[id |-> i, patch |-> u]>>]
           \/ \E j \in issued \ {i} :
                 /\ Start(p, [op |-> "block", from |-> i, to |-> j], "reading")
                 /\ UNCHANGED todo
    <3> HIDE DEF Start
    <3> QED BY <1>4 DEF StartOnTask
  <2>a. i \in Ids /\ issued \subseteq Ids
    BY DEF Shape, Board
  <2>2. CASE UNCHANGED todo /\ Start(p, [op |-> "delete", id |-> i], "readMark")
    BY <1>2, <2>a, <2>2 DEF Asked
  <2>3. ASSUME NEW op \in {"claim", "busyclaim"}, UNCHANGED todo,
               Start(p, [op |-> op, id |-> i], "claimCheck")
        PROVE  Links(p)' /\ todo'[p] \in Seq(Update) /\ Asked(call'[p])
    BY <1>2, <2>a, <2>3 DEF Asked
  <2>4. ASSUME NEW j \in issued \ {i}, UNCHANGED todo,
               Start(p, [op |-> "block", from |-> i, to |-> j], "reading")
        PROVE  Links(p)' /\ todo'[p] \in Seq(Update) /\ Asked(call'[p])
    BY <1>2, <2>a, <2>4 DEF Asked
  <2>5. ASSUME NEW u \in Updates(i), Start(p, [op |-> "update", id |-> i], "check"),
               todo' = [todo EXCEPT ![p] = <<[id |-> i, patch |-> u]>>]
        PROVE  Links(p)' /\ todo'[p] \in Seq(Update) /\ Asked(call'[p])
    <3> DEFINE us == <<[id |-> i, patch |-> u]>>
    <3>1. todo'[p] = us
      BY <2>5 DEF Shape, Tables
    <3>2. /\ pc'[p] = "check" /\ call'[p] = [op |-> "update", id |-> i]
          /\ UNCHANGED <<there, torn, task, listLock, taskLock>> /\ Mirrors(task, there)
      BY <1>1, <2>5 DEF Calm
    <3>3. u \in Patch /\ \A x \in Halves : x \notin DOMAIN u
      BY DEF Updates, Patch, Statuses, Halves
    <3>4. us \in Seq(Update) /\ us # <<>> /\ \A k \in DOMAIN us : us[k] = [id |-> i, patch |-> u]
      <4>1. [id |-> i, patch |-> u] \in Update
        BY <2>a, <3>3 DEF Update
      <4> QED BY <4>1
    <3> HIDE DEF us
    <3>5. \E f : Leads(us, f)
      BY <3>2, <3>3, <3>4, LeadsNowhere
    <3>6. \E f : Aims(p, f)'
      <4>1. PICK f : Leads(us, f)
        BY <3>5
      <4>2. Aims(p, f)'
        BY <3>1, <3>2, <4>1, LeadsAims
      <4> QED BY <4>2
    <3>7. Routed(call[p].op, pc[p])' /\ Locks(p)'
      BY <3>2 DEF Routed, Loop, Locks, HasList, HasTask, Calm
    <3>8. Fills(p)' /\ Updating(p)'
      BY <3>1, <3>2, <3>4, <3>6 DEF Fills, Updating, Loop, Calm
    <3>9. Knows(p)'
      BY <3>1, <3>2, <3>4, KnowsLoop DEF Loop
    <3> QED BY <3>1, <3>2, <3>4, <3>7, <3>8, <3>9 DEF Links, Asked
  <2> QED BY <2>1, <2>2, <2>3, <2>4, <2>5
<1> QED BY <1>3, <1>4

LEMMA WorkLinks ==
  ASSUME Shape, NEW p \in Procs, Links(p), Work(p) \/ GiveUp(p)
  PROVE  Links(p)' /\ todo'[p] \in Seq(Update) /\ UNCHANGED call
<1> USE DEF writes
<1>0. todo[p] \in Seq(Update) /\ <<>> \in Seq(Update)
  BY DEF Shape
<1>1. CASE \/ LockList(p) \/ UnlockList(p) \/ ListLockFails(p) \/ ScanDir(p) \/ ScanMark(p)
           \/ ClaimCheck(p) \/ Inspect(p) \/ List(p) \/ (\E i \in Ids : ReadTask(p, i))
           \/ ReadHigh(p) \/ ReadMark(p) \/ OpenMark(p) \/ FillMark(p) \/ SweepList(p)
           \/ (\E i \in Ids : Sweep(p, i)) \/ Swept(p) \/ RemoveFile(p)
           \/ LockTask(p) \/ Reread(p) \/ OpenOld(p) \/ OpenNew(p) \/ Fill(p)
  <2>1. Links(p)'
    BY <1>1, LockListLinks, ScanLinks, ListLinks, ReadLinks, MarkLinks, SweepLinks, RemoveLinks,
       LockTaskLinks, RereadLinks, OpenOldLinks, OpenNewLinks, FillLinks
  <2>2. UNCHANGED <<todo, call>>
    BY <1>1 DEF LockList, UnlockList, ListLockFails, ScanDir, ScanMark, ClaimCheck,
       Inspect, List,
       ReadTask, ReadHigh, ReadMark, OpenMark, FillMark, SweepList, Sweep, Swept, RemoveFile,
       LockTask, Reread, OpenOld, OpenNew, Open, Fill
  <2> QED BY <1>0, <2>1, <2>2
<1>2. CASE Check(p) \/ UnlockTask(p) \/ TaskLockFails(p)
  <2>1. Links(p)'
    BY <1>2, CheckLinks, UnlockTaskLinks, LockTaskLinks
  <2>2. UNCHANGED call /\ todo'[p] \in {todo[p], <<>>, Tail(todo[p])}
    BY <1>2 DEF Check, UnlockTask, TaskLockFails, Shape, Tables
  <2>3. todo[p] # <<>> => Tail(todo[p]) \in Seq(Update)
    BY <1>0, Rest
  <2>4. todo[p] = <<>> => todo'[p] = <<>>
    BY <1>2 DEF Check, UnlockTask, TaskLockFails, Shape, Tables, Links, Updating
  <2> QED BY <1>0, <2>1, <2>2, <2>3, <2>4
<1>3. CASE DecideAutoclear(p)
  <2>1. UNCHANGED call /\ todo'[p] = <<>>
    BY <1>3 DEF DecideAutoclear, Then, Shape, Tables
  <2> QED BY <1>0, <1>3, <2>1, ListLinks
<1>4. CASE DecideClaim(p) \/ DecideBusyClaim(p) \/ DecideDelete(p) \/ DecideUnassign(p) \/ DecideBlock(p)
  <2>1. UNCHANGED call
    BY <1>4, Zenon DEF DecideClaim, DecideBusyClaim, DecideDelete, DecideUnassign, DecideBlock,
       UpdateEach, Then
  <2> QED BY <1>4, <2>1, ClaimLinks, DeleteLinks, UnassignLinks, BlockLinks
<1> QED BY <1>1, <1>2, <1>3, <1>4 DEF Work, GiveUp

\* What a step makes of the numbers, the files and the locks is well formed.
LEMMA StepNumbers ==
  ASSUME Shape, NEW p \in Procs, Step(p)
  PROVE  Numbers'
<1> USE DEF reads, marks
<1>1. Unknown \in Int /\ Highest \in Int /\ Mark \in Int /\ Wants(p) \in Int
  <2>1. Highest \in Ids \cup {0}
    BY HighestIsGreatest DEF Shape, Board
  <2>2. call[p].op = "delete" => call[p].id \in Int
    BY DEF Shape, Asked, Ids
  <2> QED BY <2>1, <2>2 DEF Unknown, Ids, Mark, Wants, Shape, Numbers
<1>2. /\ UNCHANGED high \/ \E v \in {Unknown, Highest} : high' = [high EXCEPT ![p] = v]
      /\ UNCHANGED seenMark \/ \E v \in {Unknown, Mark} : seenMark' = [seenMark EXCEPT ![p] = v]
      /\ UNCHANGED mark \/ mark' = Wants(p)
  <2>1. CASE StartWhole(p) \/ StartOnTask(p)
    <3>1. PICK c, l : Start(p, c, l)
      BY <2>1, Zenon DEF StartWhole, StartOnTask
    <3> QED BY <3>1 DEF Start
  <2>2. CASE Crash(p)
    BY <2>2 DEF Crash
  <2>3. CASE GiveUp(p)
    BY <2>3 DEF GiveUp, ListLockFails, TaskLockFails
  <2>4. ASSUME NEW us, NEW l, Then(p, us, l) PROVE UNCHANGED <<high, seenMark, mark>>
    BY <2>4 DEF Then
  <2>5. CASE \/ DecideClaim(p) \/ DecideBusyClaim(p) \/ DecideDelete(p)
             \/ DecideUnassign(p) \/ DecideBlock(p) \/ DecideAutoclear(p)
    <3>1. \E us, l : Then(p, us, l)
      BY <2>5, Zenon DEF DecideClaim, DecideBusyClaim, DecideBlock, DecideAutoclear,
                         DecideDelete, DecideUnassign, UpdateEach
    <3> QED BY <2>4, <3>1
  <2>6. CASE \/ LockList(p) \/ UnlockList(p) \/ LockTask(p) \/ UnlockTask(p)
             \/ ScanDir(p) \/ ScanMark(p) \/ OpenNew(p) \/ Check(p) \/ Reread(p) \/ OpenOld(p)
             \/ Fill(p) \/ List(p) \/ ClaimCheck(p) \/ Inspect(p)
    BY <2>6 DEF LockList, UnlockList, LockTask, UnlockTask, ScanDir, ScanMark, OpenNew, Open,
       Check, Reread, OpenOld, Fill, List, ClaimCheck, Inspect
  <2>7. CASE \/ (\E i \in Ids : ReadTask(p, i) \/ Sweep(p, i)) \/ ReadHigh(p) \/ ReadMark(p)
             \/ OpenMark(p) \/ FillMark(p) \/ SweepList(p) \/ Swept(p) \/ RemoveFile(p)
    BY <2>7 DEF ReadTask, Sweep, ReadHigh, ReadMark, OpenMark, FillMark, SweepList, Swept,
       RemoveFile
  <2> QED BY <2>1, <2>2, <2>3, <2>5, <2>6, <2>7 DEF Step, Work
<1> QED BY <1>1, <1>2 DEF Shape, Numbers

LEMMA StepBoard ==
  ASSUME Shape, NEW p \in Procs, Step(p), pc[p] # "idle" => Links(p)
  PROVE  Board'
<1> USE DEF files, locks, ghosts
<1>1. there \subseteq Ids /\ issued \subseteq Ids /\ task \in [Ids -> Task]
      /\ taskLock = [i \in Ids |-> taskLock[i]]
  BY DEF Shape, Board
<1>2. CASE UNCHANGED <<there, issued, task, taskLock>>
  BY <1>1, <1>2 DEF Board
<1>3. CASE LockTask(p) \/ UnlockTask(p)
  <2>1. UNCHANGED <<there, issued, task>> /\ taskLock' = [i \in Ids |-> taskLock'[i]]
    BY <1>1, <1>3 DEF LockTask, UnlockTask
  <2> QED BY <1>1, <2>1 DEF Board
<1>4. CASE OpenNew(p)
  BY <1>1, <1>4 DEF Board, OpenNew, Open
<1>5. CASE OpenOld(p)
  <2>1. target[p] \in there
    BY <1>5 DEF OpenOld, Links, Fills
  <2> QED BY <1>1, <1>5, <2>1 DEF Board, OpenOld, Open
<1>6. CASE Fill(p)
  <2>1. buf[p] \in Task
    <3>1. CASE call[p].op = "create"
      BY <1>6, <3>1, NewTaskIsTask DEF Fill, Links, Fills
    <3>2. CASE call[p].op # "create"
      <4>1. /\ todo[p] # <<>> /\ todo[p] \in Seq(Update) /\ target[p] \in there
            /\ buf[p] = Merge(Head(todo[p]).patch, task[target[p]])
        BY <1>6, <3>2 DEF Fill, Links, Fills, Updating, Shape
      <4>2. Head(todo[p]) \in Update
        BY <4>1, Rest
      <4>3. Head(todo[p]).patch \in Patch /\ task[target[p]] \in Task
        BY <1>1, <4>1, <4>2 DEF Update
      <4> QED BY <4>1, <4>3, Merged
    <3> QED BY <3>1, <3>2
  <2>2. /\ UNCHANGED <<there, issued, taskLock>>
        /\ UNCHANGED task \/ task' = [task EXCEPT ![target[p]] = buf[p]]
    BY <1>6 DEF Fill
  <2> QED BY <1>1, <2>1, <2>2 DEF Board
<1>7. CASE (\E i \in Ids : Sweep(p, i)) \/ RemoveFile(p)
  <2>1. there' \subseteq there /\ UNCHANGED <<issued, task, taskLock>>
    BY <1>7 DEF Sweep, RemoveFile, Unlink
  <2> QED BY <1>1, <2>1 DEF Board
<1>8. CASE StartWhole(p) \/ StartOnTask(p) \/ GiveUp(p) \/ Crash(p)
  <2>1. StartWhole(p) \/ StartOnTask(p) => \E c, l : Start(p, c, l)
    BY Zenon DEF StartWhole, StartOnTask
  <2> QED BY <1>2, <1>8, <2>1 DEF Start, GiveUp, ListLockFails, TaskLockFails, Crash
<1>9. CASE \/ DecideClaim(p) \/ DecideBusyClaim(p) \/ DecideDelete(p)
           \/ DecideUnassign(p) \/ DecideBlock(p) \/ DecideAutoclear(p)
  <2>1. \E us, l : Then(p, us, l)
    BY <1>9, Zenon DEF DecideClaim, DecideBusyClaim, DecideBlock, DecideAutoclear,
                       DecideDelete, DecideUnassign, UpdateEach
  <2> QED BY <1>2, <2>1 DEF Then
<1>10. CASE \/ LockList(p) \/ UnlockList(p) \/ ScanDir(p) \/ ScanMark(p) \/ Check(p) \/ Reread(p)
            \/ List(p) \/ ClaimCheck(p) \/ Inspect(p) \/ (\E i \in Ids : ReadTask(p, i))
            \/ ReadHigh(p) \/ ReadMark(p) \/ OpenMark(p) \/ FillMark(p) \/ SweepList(p) \/ Swept(p)
  BY <1>2, <1>10 DEF LockList, UnlockList, ScanDir, ScanMark, Check, Reread, List, ClaimCheck,
     Inspect, ReadTask, ReadHigh, ReadMark, OpenMark, FillMark, SweepList, Swept
<1> QED BY <1>3, <1>4, <1>5, <1>6, <1>7, <1>8, <1>9, <1>10 DEF Step, Work

\* A session that is idle or dead does no work.
LEMMA WorkLive ==
  ASSUME NEW p \in Procs, Work(p) \/ GiveUp(p) \/ Crash(p)
  PROVE  pc[p] \notin {"idle", "dead"} /\ UNCHANGED overlapped
<1> USE DEF ghosts
<1>1. CASE \/ LockList(p) \/ UnlockList(p) \/ LockTask(p) \/ UnlockTask(p)
           \/ ScanDir(p) \/ ScanMark(p) \/ OpenNew(p) \/ Check(p) \/ Reread(p) \/ OpenOld(p)
           \/ Fill(p) \/ List(p) \/ ClaimCheck(p) \/ Inspect(p) \/ GiveUp(p) \/ Crash(p)
  BY <1>1 DEF LockList, UnlockList, LockTask, UnlockTask, ScanDir, ScanMark, OpenNew, Open,
     Check,
     Reread, OpenOld, Fill, List, ClaimCheck, Inspect, GiveUp, ListLockFails, TaskLockFails, Crash
<1>2. CASE \/ (\E i \in Ids : ReadTask(p, i) \/ Sweep(p, i)) \/ ReadHigh(p) \/ ReadMark(p)
           \/ OpenMark(p) \/ FillMark(p) \/ SweepList(p) \/ Swept(p) \/ RemoveFile(p)
  BY <1>2 DEF ReadTask, Sweep, Unlink, ReadHigh, ReadMark, OpenMark, FillMark, SweepList, Swept,
     RemoveFile
<1>3. CASE \/ DecideClaim(p) \/ DecideBusyClaim(p) \/ DecideDelete(p)
           \/ DecideUnassign(p) \/ DecideBlock(p) \/ DecideAutoclear(p)
  <2>1. \E us, l : Then(p, us, l)
    BY <1>3, Zenon DEF DecideClaim, DecideBusyClaim, DecideBlock, DecideAutoclear,
                       DecideDelete, DecideUnassign, UpdateEach
  <2>2. pc[p] = "reading"
    BY <1>3, Zenon DEF DecideClaim, DecideBusyClaim, DecideBlock, DecideAutoclear,
                       DecideDelete, DecideUnassign, Read
  <2> QED BY <2>1, <2>2 DEF Then
<1> QED BY <1>1, <1>2, <1>3 DEF Work

LEMMA InitLinks == Init => LinkInv
<1> SUFFICES ASSUME Init PROVE LinkInv
  OBVIOUS
<1> USE DEF Init
<1>1. there \subseteq Ids /\ Unknown \in Int
  BY TaskListAssumption DEF Ids, MaxId, Unknown
<1>2. Tables
  BY DEF Tables
<1>3. Numbers /\ Board
  BY <1>1, NewTaskIsTask DEF Numbers, Board
<1>4. \A q \in Procs : todo[q] \in Seq(Update) /\ Asked(call[q])
  BY DEF Asked, NoCall
<1>5. Mirrors(task, there)
  BY <1>1 DEF Mirrors, NewTask
<1> QED BY <1>2, <1>3, <1>4, <1>5 DEF LinkInv, Orderly, Shape, Calm

\* A step of the only session that is in a call.
LEMMA StepOrderly ==
  ASSUME Orderly, NEW p \in Procs, Step(p), \A q \in Procs : q # p => pc[q] = "idle",
         pc[p] # "idle" => Links(p),
         Links(p)' \/ pc'[p] = "dead", todo'[p] \in Seq(Update), Asked(call'[p])
  PROVE  Orderly'
<1>1. \A q \in Procs : q # p => pc'[q] = "idle" /\ todo'[q] = <<>> /\ call'[q] = call[q]
  BY OthersStay DEF Orderly, Shape
<1>2. Shape'
  <2>1. Tables' /\ Numbers' /\ Board'
    BY StepTables, StepNumbers, StepBoard DEF Orderly, Shape
  <2>2. \A q \in Procs : todo'[q] \in Seq(Update) /\ Asked(call'[q])
    BY <1>1 DEF Orderly, Shape
  <2> QED BY <2>1, <2>2 DEF Shape, Update, Patch, Asked
<1>3. pc'[p] = "idle" => todo'[p] = <<>> /\ Calm'
  <2> SUFFICES ASSUME pc'[p] = "idle" PROVE todo'[p] = <<>> /\ Calm'
    OBVIOUS
  <2>1. todo'[p] = <<>>
    BY DEF Links, Updating, Loop
  <2>2. torn' = {} /\ Mirrors(task, there)'
    BY <2>1 DEF Links, Fills, Knows, Undone
  <2>3. listLock' = NoProc /\ \A i \in Ids : taskLock'[i] = NoProc
    <3>1. Links(p)' /\ Routed(call[p].op, pc[p])'
      BY DEF Links
    <3>2. ~HasList(p)' /\ ~HasTask(p)'
      BY DEF HasList, HasTask
    <3> QED BY <3>1, <3>2 DEF Links, Locks
  <2> QED BY <2>1, <2>2, <2>3 DEF Calm
<1>4. \A q \in Procs : pc'[q] \notin {"idle", "dead"} => Links(q)'
  BY <1>1
<1>5. (\A q \in Procs : pc'[q] = "idle") => Calm'
  BY <1>3
<1>6. \A q \in Procs : pc'[q] = "idle" => todo'[q] = <<>>
  BY <1>1, <1>3
<1>7. \A q, r \in Procs : pc'[q] # "idle" /\ pc'[r] # "idle" => q = r
  BY <1>1
<1> QED BY <1>2, <1>4, <1>5, <1>6, <1>7 DEF Orderly

LEMMA NextLinks ==
  ASSUME LinkInv, [Next]_vars
  PROVE  LinkInv'
<1> SUFFICES ASSUME ~overlapped' PROVE Orderly'
  BY DEF LinkInv
<1>0. ~overlapped => Orderly
  BY DEF LinkInv
<1>1. ASSUME NEW p \in Procs, StartWhole(p) \/ StartOnTask(p) PROVE Orderly'
  <2>1. PICK c, l : Start(p, c, l)
    BY <1>1, Zenon DEF StartWhole, StartOnTask
  <2>2. ~overlapped /\ \A q \in Procs : pc[q] = "idle"
    BY <2>1 DEF Start
  <2>3. Orderly /\ Shape /\ Calm /\ todo[p] = <<>>
    BY <1>0, <2>2 DEF Orderly
  <2>4. Links(p)' /\ todo'[p] \in Seq(Update) /\ Asked(call'[p])
    BY <1>1, <2>3, StartLinks
  <2> QED BY <1>1, <2>2, <2>3, <2>4, StepOrderly DEF Step
<1>2. ASSUME NEW p \in Procs, Work(p) \/ GiveUp(p) \/ Crash(p) PROVE Orderly'
  <2>1. pc[p] \notin {"idle", "dead"} /\ ~overlapped
    BY <1>2, WorkLive
  <2>2. Orderly /\ Shape /\ Links(p) /\ \A q \in Procs : q # p => pc[q] = "idle"
    BY <1>0, <2>1 DEF Orderly
  <2>3. (Links(p)' \/ pc'[p] = "dead") /\ todo'[p] \in Seq(Update) /\ Asked(call'[p])
    <3>1. CASE Work(p) \/ GiveUp(p)
      BY <2>2, <3>1, WorkLinks DEF Shape
    <3>2. CASE Crash(p)
      BY <2>2, <3>2 DEF Crash, Goto, Shape, Tables
    <3> QED BY <1>2, <3>1, <3>2
  <2> QED BY <1>2, <2>2, <2>3, StepOrderly DEF Step
<1>3. ASSUME UNCHANGED <<files, pc, call, todo, reads, writes, ghosts, mark>>,
             taskLock' = taskLock \/ \E i \in Ids : taskLock' = [taskLock EXCEPT ![i] = NoProc],
             \/ UNCHANGED locks
             \/ \E p \in Procs : pc[p] = "dead"
      PROVE  Orderly'
  <2>1. Orderly /\ UNCHANGED <<there, torn, task, issued, unread, snap, high, seenMark, target,
                               buf, linked, overlapped>>
    BY <1>0, <1>3 DEF files, reads, writes, ghosts
  <2>2. Shape'
    <3>1. taskLock' = [i \in Ids |-> taskLock'[i]]
      BY <1>3, <2>1 DEF Orderly, Shape, Board
    <3> QED BY <1>3, <2>1, <3>1 DEF Orderly, Shape, Tables, Numbers, Board, Asked, Update, Patch
  <2>3. CASE UNCHANGED locks
    <3>1. Calm => Calm'
      BY <2>1, <2>3 DEF Calm, Mirrors, locks
    <3>2. ASSUME NEW p \in Procs, Links(p) PROVE Links(p)'
      <4>1. UNCHANGED <<there, torn, task, listLock, taskLock, pc, call, todo, unread, snap,
                        high, target, buf, linked>>
        BY <1>3, <2>1, <2>3 DEF locks
      <4>2. Routed(call[p].op, pc[p])' /\ Locks(p)' /\ Fills(p)'
        BY <3>2, <4>1 DEF Links, Routed, Locks, Fills, HasList, HasTask, Locking, Mirrors
      <4>3. Updating(p)'
        <5>1. \A f : Aims(p, f) => Aims(p, f)'
          BY <4>1 DEF Aims, Left, Mirrors
        <5> QED BY <3>2, <4>1, <5>1 DEF Links, Updating, Locking
      <4>4. Knows(p)'
        BY <3>2, <4>1 DEF Links, Knows, Undone, Without, Mirrors, Highest
      <4> QED BY <4>2, <4>3, <4>4 DEF Links
    <3> QED BY <1>3, <2>1, <2>2, <3>1, <3>2 DEF Orderly
  <2>4. CASE \E p \in Procs : pc[p] = "dead"
    BY <1>3, <2>1, <2>2, <2>4 DEF Orderly
  <2> QED BY <1>3, <2>3, <2>4
<1>4. CASE LockExpires
  BY <1>3, <1>4 DEF LockExpires, marks, locks
<1>5. CASE UNCHANGED vars
  BY <1>3, <1>5 DEF vars, marks, locks
<1> QED BY <1>1, <1>2, <1>4, <1>5 DEF Next

(* blocks and blockedBy mirror each other whenever no call is under way    *)
(* and none has overlapped another: see LinksMatch.  Any session may       *)
(* delete tasks here, reset the list or clear it.                          *)
THEOREM LinksMirror == Spec => []LinksMatch
<1>1. LinkInv => LinksMatch
  BY DEF LinkInv, Orderly, LinksMatch, Calm, Mirrors
<1> QED BY <1>1, InitLinks, NextLinks, PTL DEF Spec
=============================================================================
