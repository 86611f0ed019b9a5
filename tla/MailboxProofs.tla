---------------------------- MODULE MailboxProofs -----------------------------
(***************************************************************************)
(* An inbox, for any number of writers, polls, failures and deaths:        *)
(* messages do not vanish (IInv: who rewrites the file knows all that is   *)
(* in it), and what is marked as read was taken, by careful readers once   *)
(* (Reading: what the contents and the readers know of each other).        *)
(***************************************************************************)
EXTENDS Mailbox, TLAPS

Message == [from : Writers, read : BOOLEAN]
Stages == {"none", "creating", "waiting", "holding", "writing", "sent", "gone",
           "polled", "marked"}

Types ==
    /\ file \in [state : {"absent", "torn", "whole"}, msgs : Seq(Message)]
    /\ at \in [Ops -> Stages]
    /\ snap \in [Ops -> Seq(Message)]
    /\ lost \subseteq Writers

Rewrites(o) == at[o] \in {"holding", "writing"}

\* Whoever rewrites the file has the lock.
LockHeld == \A o \in Ops : Rewrites(o) => lock = o

\* Whoever rewrites the file has read every message that was sent.
SnapComplete == \A o \in Ops : Rewrites(o) => Sent \subseteq From(snap[o]) \cup lost

IInv == Types /\ LockHeld /\ SnapComplete /\ NoneVanish

-----------------------------------------------------------------------------
(* Operators *)

\* Marking changes neither the number nor the senders of the messages.
LEMMA MarkedKeeps ==
  ASSUME NEW p, NEW s \in Seq(Message)
  PROVE  Marked(p, s) \in Seq(Message) /\ From(Marked(p, s)) = From(s)
<1> DEFINE all == [i \in DOMAIN s |-> [s[i] EXCEPT !.read = TRUE]]
           some == [i \in DOMAIN s |-> IF \E w \in Writers : <<i, w>> \in took[p]
                                       THEN [s[i] EXCEPT !.read = TRUE] ELSE s[i]]
<1>1. DOMAIN s = 1..Len(s) /\ Len(s) \in Nat /\ \A i \in DOMAIN s : s[i] \in Message
  OBVIOUS
<1>2. \A m \in Message : [m EXCEPT !.read = TRUE] \in Message
                         /\ [m EXCEPT !.read = TRUE].from = m.from
  BY DEF Message
<1>3. \A i \in DOMAIN s : all[i] \in Message /\ all[i].from = s[i].from
  BY <1>1, <1>2
<1>4. \A i \in DOMAIN s : some[i] \in Message /\ some[i].from = s[i].from
  BY <1>1, <1>2
<1>6. DOMAIN all = DOMAIN s /\ DOMAIN some = DOMAIN s
  OBVIOUS
<1>9. all = [i \in 1..Len(s) |-> all[i]] /\ some = [i \in 1..Len(s) |-> some[i]]
  BY <1>1
<1> HIDE DEF all, some
<1>5. all \in Seq(Message) /\ some \in Seq(Message)
  BY <1>1, <1>3, <1>4, <1>9
<1>7. From(all) = From(s) /\ From(some) = From(s)
  BY <1>3, <1>4, <1>6 DEF From
<1>8. Marked(p, s) = all \/ Marked(p, s) = some
  BY DEF Marked, all, some
<1> QED BY <1>5, <1>7, <1>8

\* A rewrite keeps what it read, and adds the message of a writer.
LEMMA RewrittenKeeps ==
  ASSUME Types, NEW o \in Ops
  PROVE  /\ Rewritten(o) \in Seq(Message)
         /\ From(snap[o]) \subseteq From(Rewritten(o))
         /\ o \in Writers => o \in From(Rewritten(o))
<1>1. CASE o \in Writers
  <2> DEFINE m == [from |-> o, read |-> FALSE]
  <2>1. m \in Message /\ m.from = o
    BY <1>1 DEF Message
  <2>2. Rewritten(o) = Append(snap[o], m) /\ snap[o] \in Seq(Message)
    BY <1>1 DEF Rewritten, Types
  <2> HIDE DEF m
  <2>3. \A i \in DOMAIN snap[o] : i \in DOMAIN Rewritten(o) /\ Rewritten(o)[i] = snap[o][i]
    BY <2>1, <2>2
  <2>4. Len(snap[o]) + 1 \in DOMAIN Rewritten(o) /\ Rewritten(o)[Len(snap[o]) + 1] = m
    BY <2>1, <2>2
  <2>5. Rewritten(o) \in Seq(Message)
    BY <2>1, <2>2
  <2> QED BY <2>1, <2>3, <2>4, <2>5 DEF From
<1>2. CASE o \notin Writers
  BY <1>2, MarkedKeeps DEF Rewritten, Types
<1> QED BY <1>1, <1>2

\* The senders of the messages are writers.
LEMMA FromWriters ==
  ASSUME NEW s \in Seq(Message)
  PROVE  From(s) \subseteq Writers
<1>1. \A i \in DOMAIN s : s[i] \in Message
  OBVIOUS
<1> QED BY <1>1 DEF From, Message

-----------------------------------------------------------------------------
LEMMA InitInv == Init => IInv
<1> SUFFICES ASSUME Init PROVE IInv
  OBVIOUS
<1>1. Types
  <2>1. [o \in Ops |-> <<>>] \in [Ops -> Seq(Message)] /\ <<>> \in Seq(Message)
    OBVIOUS
  <2> QED BY <2>1 DEF Init, Types, Absent, Stages
<1>2. LockHeld /\ SnapComplete /\ NoneVanish
  BY DEF Init, LockHeld, SnapComplete, NoneVanish, Rewrites, Sent, Ops
<1> QED BY <1>1, <1>2 DEF IInv

\* A step that neither sends nor rewrites.
LEMMA QuietKeeps ==
  ASSUME IInv, at' \in [Ops -> Stages],
         \A o \in Ops : at'[o] = at[o] \/ (~ Rewrites(o) /\ ~ Rewrites(o)'),
         \A w \in Writers : at'[w] = "sent" => at[w] = "sent",
         UNCHANGED <<file, lock, snap, lost>>
  PROVE  IInv'
<1>1. Sent' \subseteq Sent
  BY DEF Sent
<1>2. \A o \in Ops : Rewrites(o)' <=> Rewrites(o)
  BY DEF Rewrites
<1>3. Types' /\ LockHeld'
  BY <1>2 DEF IInv, Types, LockHeld
<1>4. SnapComplete'
  BY <1>1, <1>2 DEF IInv, SnapComplete
<1>5. NoneVanish'
  BY <1>1 DEF IInv, NoneVanish, Messages, Rewrites
<1> QED BY <1>3, <1>4, <1>5 DEF IInv

\* One operation goes from a stage to another, neither of which rewrites or sends.
LEMMA GotoKeeps ==
  ASSUME IInv, NEW o \in Ops, NEW s \in Stages, s \notin {"holding", "writing", "sent"},
         ~ Rewrites(o), Goto(o, s), UNCHANGED <<file, lock, snap, lost>>
  PROVE  IInv'
<1>1. at' = [at EXCEPT ![o] = s] /\ at \in [Ops -> Stages]
  BY DEF Goto, IInv, Types
<1>2. at' \in [Ops -> Stages] /\ \A x \in Ops : at'[x] = IF x = o THEN s ELSE at[x]
  BY <1>1
<1>3. ASSUME NEW x \in Ops PROVE at'[x] = at[x] \/ (~ Rewrites(x) /\ ~ Rewrites(x)')
  <2>1. CASE x # o
    BY <1>2, <2>1
  <2>2. CASE x = o
    BY <1>2, <2>2 DEF Rewrites
  <2> QED BY <2>1, <2>2
<1>4. \A w \in Writers : at'[w] = "sent" => at[w] = "sent"
  BY <1>2 DEF Ops
<1> QED BY <1>2, <1>3, <1>4, QuietKeeps

\* A file that does not exist holds no message, as one that is being made.
LEMMA EnsureKeeps ==
  ASSUME IInv, NEW w \in Writers, Ensure(w)
  PROVE  IInv'
<1>1. w \in Ops /\ ~ Rewrites(w)
  BY DEF Ops, Ensure, Rewrites
<1>2. CASE file # Absent
  <2>1. Goto(w, "waiting") /\ UNCHANGED <<file, lock, snap, lost>>
    BY <1>2 DEF Ensure, history
  <2> QED BY <1>1, <2>1, GotoKeeps DEF Stages
<1>3. CASE file = Absent
  <2>1. at' = [at EXCEPT ![w] = "creating"] /\ file' = Torn
    BY <1>3 DEF Ensure, Goto
  <2>2. UNCHANGED <<lock, snap, lost>>
    BY DEF Ensure, history
  <2>3. Messages' = Messages
    BY <1>3, <2>1 DEF Messages, Absent, Torn
  <2>4. \A o \in Ops : at'[o] = IF o = w THEN "creating" ELSE at[o]
    BY <2>1 DEF IInv, Types
  <2>5. Sent' \subseteq Sent /\ \A o \in Ops : Rewrites(o)' <=> Rewrites(o)
    BY <1>1, <2>4 DEF Sent, Rewrites, Ops
  <2>6. Types'
    <3>1. <<>> \in Seq(Message)
      OBVIOUS
    <3>2. file' \in [state : {"absent", "torn", "whole"}, msgs : Seq(Message)]
      BY <2>1, <3>1 DEF Torn
    <3> QED BY <2>1, <2>2, <3>2 DEF IInv, Types, Stages
  <2>7. LockHeld' /\ SnapComplete'
    BY <2>2, <2>5 DEF IInv, LockHeld, SnapComplete
  <2>8. NoneVanish'
    BY <1>1, <2>2, <2>3, <2>4, <2>5 DEF IInv, NoneVanish, Ops, Rewrites
  <2> QED BY <2>6, <2>7, <2>8 DEF IInv
<1> QED BY <1>2, <1>3

\* What a late creator writes over is lost.
LEMMA FillNewKeeps ==
  ASSUME IInv, NEW w \in Writers, FillNew(w)
  PROVE  IInv'
<1>1. /\ w \in Ops /\ at[w] = "creating" /\ at' = [at EXCEPT ![w] = "waiting"]
      /\ lost' = lost \cup From(Messages)
      /\ file' \in {Whole(<<>>), Torn}
      /\ UNCHANGED <<lock, snap>>
  BY DEF Ops, FillNew, Goto
<1>2. \A o \in Ops : at'[o] = IF o = w THEN "waiting" ELSE at[o]
  BY <1>1 DEF IInv, Types
<1>3. Sent' \subseteq Sent /\ \A o \in Ops : Rewrites(o)' <=> Rewrites(o)
  BY <1>1, <1>2 DEF Sent, Rewrites, Ops
<1>4. Types'
  <2>1. <<>> \in Seq(Message)
    OBVIOUS
  <2>2. file' \in [state : {"absent", "torn", "whole"}, msgs : Seq(Message)]
    <3>1. /\ Torn \in [state : {"absent", "torn", "whole"}, msgs : Seq(Message)]
          /\ Whole(<<>>) \in [state : {"absent", "torn", "whole"}, msgs : Seq(Message)]
      BY <2>1 DEF Torn, Whole
    <3> QED BY <1>1, <3>1
  <2>3. From(Messages) \subseteq Writers
    BY FromWriters DEF IInv, Types, Messages
  <2> QED BY <1>1, <2>2, <2>3 DEF IInv, Types, Stages
<1>5. LockHeld' /\ SnapComplete'
  BY <1>1, <1>3 DEF IInv, LockHeld, SnapComplete
<1>6. NoneVanish'
  BY <1>1, <1>2, <1>3 DEF IInv, NoneVanish
<1> QED BY <1>4, <1>5, <1>6 DEF IInv

\* With the lock nobody else rewrites, so all that was sent is in the file.
LEMMA LockKeeps ==
  ASSUME IInv, NEW o \in Ops, Lock(o)
  PROVE  IInv'
<1>1. at[o] = "waiting" /\ lock = NoOne /\ UNCHANGED <<file, lost>>
  BY DEF Lock, Free, history
<1>2. CASE NoChange(o)
  <2>1. UNCHANGED <<snap, lock>> /\ Goto(o, After(o))
    BY <1>2 DEF Lock
  <2>2. After(o) \in {"none", "marked"}
    BY <1>2, MailboxAssumption DEF NoChange, After
  <2>3. After(o) \in Stages /\ After(o) \notin {"holding", "writing", "sent"} /\ ~ Rewrites(o)
    BY <1>1, <2>2 DEF Stages, Rewrites
  <2> HIDE DEF After
  <2> QED BY <1>1, <2>1, <2>3, GotoKeeps
<1>3. CASE ~ NoChange(o)
  <2>1. at' = [at EXCEPT ![o] = "holding"] /\ lock' = o /\ snap' = [snap EXCEPT ![o] = Messages]
    BY <1>3 DEF Lock, Goto
  <2>2. \A x \in Ops : at'[x] = IF x = o THEN "holding" ELSE at[x]
    BY <2>1 DEF IInv, Types
  <2>3. \A x \in Ops : ~ Rewrites(x)
    BY <1>1, MailboxAssumption DEF IInv, LockHeld, Ops
  <2>4. \A x \in Ops : Rewrites(x)' <=> x = o
    BY <2>2, <2>3 DEF Rewrites
  <2>5. Sent' \subseteq Sent
    BY <2>2 DEF Sent, Ops
  <2>6. Sent \subseteq From(Messages) \cup lost
    BY <2>3 DEF IInv, NoneVanish, Rewrites
  <2>7. Types' /\ LockHeld'
    BY <1>1, <2>1, <2>4 DEF IInv, Types, LockHeld, Stages, Messages
  <2>8. snap'[o] = Messages
    BY <2>1 DEF IInv, Types
  <2>9. SnapComplete' /\ NoneVanish'
    BY <1>1, <2>4, <2>5, <2>6, <2>8 DEF SnapComplete, NoneVanish, Messages
  <2> QED BY <2>7, <2>9 DEF IInv
<1> QED BY <1>2, <1>3

\* While the file is truncated the writer has what was in it.
LEMMA TruncateKeeps ==
  ASSUME IInv, NEW o \in Ops, Truncate(o)
  PROVE  IInv'
<1>1. /\ at[o] = "holding" /\ at' = [at EXCEPT ![o] = "writing"] /\ file' = Torn
      /\ UNCHANGED <<lock, snap, lost>>
  BY DEF Truncate, Goto, history
<1>2. \A x \in Ops : at'[x] = IF x = o THEN "writing" ELSE at[x]
  BY <1>1 DEF IInv, Types
<1>3. Sent' \subseteq Sent /\ \A x \in Ops : Rewrites(x)' <=> Rewrites(x)
  BY <1>1, <1>2 DEF Sent, Rewrites, Ops
<1>4. Types'
  <2>1. <<>> \in Seq(Message)
    OBVIOUS
  <2>2. file' \in [state : {"absent", "torn", "whole"}, msgs : Seq(Message)]
    BY <1>1, <2>1 DEF Torn
  <2> QED BY <1>1, <2>2 DEF IInv, Types, Stages
<1>5. LockHeld' /\ SnapComplete'
  BY <1>1, <1>3 DEF IInv, LockHeld, SnapComplete
<1>6. NoneVanish'
  BY <1>2 DEF NoneVanish
<1> QED BY <1>4, <1>5, <1>6 DEF IInv

\* The new file has all that was sent before, and the message of its writer.
LEMMA FillKeeps ==
  ASSUME IInv, NEW o \in Ops, Fill(o)
  PROVE  IInv'
<1>1. /\ at[o] = "writing" /\ at' = [at EXCEPT ![o] = After(o)]
      /\ file' = Whole(Rewritten(o)) /\ snap' = [snap EXCEPT ![o] = <<>>]
      /\ lock' = NoOne /\ lost' = lost
  BY DEF Fill, Goto
<1>2. After(o) \in {"sent", "none", "marked"} /\ (After(o) = "sent" => o \in Writers)
  BY DEF After
<1> HIDE DEF After
<1>3. \A x \in Ops : at'[x] = IF x = o THEN After(o) ELSE at[x]
  BY <1>1 DEF IInv, Types
<1>4. \A x \in Ops : ~ Rewrites(x)'
  BY <1>1, <1>2, <1>3 DEF IInv, LockHeld, Rewrites
<1>5. /\ Rewritten(o) \in Seq(Message) /\ From(snap[o]) \subseteq From(Rewritten(o))
      /\ o \in Writers => o \in From(Rewritten(o))
  BY RewrittenKeeps DEF IInv
<1>6. Messages' = Rewritten(o)
  BY <1>1 DEF Messages, Whole
<1>7. Types'
  <2>1. file' \in [state : {"absent", "torn", "whole"}, msgs : Seq(Message)]
    BY <1>1, <1>5 DEF Whole
  <2>2. snap' \in [Ops -> Seq(Message)]
    BY <1>1 DEF IInv, Types
  <2> QED BY <1>1, <1>2, <2>1, <2>2 DEF IInv, Types, Stages
<1>8. Sent' \subseteq Sent \cup ({o} \cap Writers)
  BY <1>2, <1>3 DEF Sent, Ops
<1>9. Sent \subseteq From(snap[o]) \cup lost
  BY <1>1 DEF IInv, SnapComplete, Rewrites
<1>10. NoneVanish'
  BY <1>1, <1>5, <1>6, <1>8, <1>9 DEF NoneVanish
<1> QED BY <1>4, <1>7, <1>10 DEF IInv, LockHeld, SnapComplete

\* A death destroys at most what the dead had read.
LEMMA DeathKeeps ==
  ASSUME IInv, NEW O \in SUBSET Ops,
         \A o \in Ops : at'[o] = at[o] \/ (o \in O /\ at'[o] \in {"none", "gone"}),
         \A o \in O : at'[o] \in {"none", "gone"} \/ ~ Rewrites(o),
         at' \in [Ops -> Stages], lost' = lost \cup Destroyed(O), Expire(O),
         UNCHANGED <<file, snap>>
  PROVE  IInv'
<1>1. Sent' \subseteq Sent
  BY DEF Sent, Ops
<1>2. \A o \in Ops : Rewrites(o)' => Rewrites(o) /\ o \notin O
  BY DEF Rewrites
<1>3. lost' \subseteq Writers
  BY FromWriters DEF Destroyed, IInv, Types
<1>4. Types' /\ LockHeld'
  BY <1>2, <1>3 DEF IInv, Types, LockHeld, Expire
<1>5. SnapComplete'
  BY <1>1, <1>2 DEF IInv, SnapComplete
<1>6. NoneVanish'
  <2> SUFFICES ASSUME \A o \in Ops : at'[o] # "writing"
               PROVE  Sent' \subseteq From(Messages') \cup lost'
    BY DEF NoneVanish
  <2>1. CASE \A o \in Ops : at[o] # "writing"
    BY <1>1, <2>1 DEF IInv, NoneVanish, Messages
  <2>2. CASE \E o \in Ops : at[o] = "writing"
    <3>1. PICK o \in Ops : at[o] = "writing"
      BY <2>2
    <3>2. o \in O
      BY <3>1
    <3>3. From(snap[o]) \subseteq Destroyed(O)
      BY <3>1, <3>2 DEF Destroyed
    <3> QED BY <1>1, <3>1, <3>3 DEF IInv, SnapComplete, Rewrites
  <2> QED BY <2>1, <2>2
<1> QED BY <1>4, <1>5, <1>6 DEF IInv

LEMMA WriterDiesKeeps ==
  ASSUME IInv, NEW w \in Writers, WriterDies(w)
  PROVE  IInv'
<1>1. at' = [at EXCEPT ![w] = "gone"] /\ w \in Ops
  BY DEF WriterDies, Goto, Ops
<1>2. at' \in [Ops -> Stages] /\ \A o \in Ops : at'[o] = IF o = w THEN "gone" ELSE at[o]
  BY <1>1 DEF IInv, Types, Stages
<1>3. \A o \in Ops : at'[o] = at[o] \/ (o \in {w} /\ at'[o] \in {"none", "gone"})
  BY <1>2
<1> QED BY <1>1, <1>2, <1>3, DeathKeeps DEF WriterDies

LEMMA ReaderDiesKeeps ==
  ASSUME IInv, ReaderDies
  PROVE  IInv'
<1>1. at' = [o \in Ops |-> IF o \in Polls THEN "none" ELSE at[o]] /\ Polls \in SUBSET Ops
  BY DEF ReaderDies, Ops
<1>2. at' \in [Ops -> Stages]
  BY <1>1 DEF IInv, Types, Stages
<1>3. \A o \in Ops : at'[o] = at[o] \/ (o \in Polls /\ at'[o] \in {"none", "gone"})
  BY <1>1
<1>4. \A o \in Polls : at'[o] \in {"none", "gone"}
  BY <1>1
<1> QED BY <1>1, <1>2, <1>3, <1>4, DeathKeeps DEF ReaderDies

-----------------------------------------------------------------------------
(* The readers *)

LEMMA PollStepKeeps ==
  ASSUME IInv, NEW p \in Polls, Poll(p) \/ HandOver(p) \/ HandOn(p)
  PROVE  IInv'
<1>1. p \in Ops
  BY DEF Ops
<1>2. CASE Poll(p)
  <2>1. ~ Rewrites(p) /\ UNCHANGED <<file, lock, snap, lost>>
    BY <1>2 DEF Poll, Rewrites, history
  <2>2. Goto(p, "polled") \/ Goto(p, "waiting")
    BY <1>2 DEF Poll
  <2> QED BY <1>1, <2>1, <2>2, GotoKeeps DEF Stages
<1>3. CASE HandOver(p)
  <2>1. ~ Rewrites(p) /\ Goto(p, "waiting") /\ UNCHANGED <<file, lock, snap, lost>>
    BY <1>3 DEF HandOver, Rewrites, history
  <2> QED BY <1>1, <2>1, GotoKeeps DEF Stages
<1>4. CASE HandOn(p)
  <2>1. ~ Rewrites(p) /\ Goto(p, "none") /\ UNCHANGED <<file, lock, snap, lost>>
    BY <1>4 DEF HandOn, Rewrites, history
  <2> QED BY <1>1, <2>1, GotoKeeps DEF Stages
<1> QED BY <1>2, <1>3, <1>4

\* A message whose lock cannot be had is gone, a mark is not made.
LEMMA NoLockKeeps ==
  ASSUME IInv, NEW o \in Ops, NoLock(o)
  PROVE  IInv'
<1> DEFINE s == IF o \in Writers THEN "gone" ELSE After(o)
<1>1. s \in {"gone", "none", "marked"}
  BY DEF After
<1>2. ~ Rewrites(o) /\ Goto(o, s) /\ UNCHANGED <<file, lock, snap, lost>>
  BY DEF NoLock, Rewrites, history
<1> HIDE DEF s
<1> QED BY <1>1, <1>2, GotoKeeps DEF Stages

\* The session's own steps touch nothing of the inbox.
LEMMA StillKeeps ==
  ASSUME IInv, UNCHANGED <<file, lock, at, snap, lost>>
  PROVE  IInv'
<1>1. at' \in [Ops -> Stages] /\ \A o \in Ops : at'[o] = at[o]
  BY DEF IInv, Types
<1>2. \A w \in Writers : at'[w] = "sent" => at[w] = "sent"
  OBVIOUS
<1>3. \A o \in Ops : at'[o] = at[o] \/ (~ Rewrites(o) /\ ~ Rewrites(o)')
  BY <1>1
<1> QED BY <1>1, <1>2, <1>3, QuietKeeps

LEMMA StepInv == IInv /\ [Next]_vars => IInv'
<1> SUFFICES ASSUME IInv, [Next]_vars PROVE IInv'
  OBVIOUS
<1>1. ASSUME NEW w \in Writers, Ensure(w) \/ FillNew(w) \/ WriterDies(w) PROVE IInv'
  BY <1>1, EnsureKeeps, FillNewKeeps, WriterDiesKeeps
<1>2. ASSUME NEW o \in Ops, Lock(o) \/ NoLock(o) \/ Truncate(o) \/ Fill(o) PROVE IInv'
  BY <1>2, LockKeeps, NoLockKeeps, TruncateKeeps, FillKeeps
<1>3. ASSUME NEW p \in Polls, Poll(p) \/ HandOver(p) \/ HandOn(p) PROVE IInv'
  BY <1>3, PollStepKeeps
<1>4. CASE IdleEffect \/ TurnBegins \/ TurnEnds
  BY <1>4, StillKeeps DEF IdleEffect, TurnBegins, TurnEnds, history
<1>5. CASE ReaderDies
  BY <1>5, ReaderDiesKeeps
<1>6. CASE UNCHANGED vars
  BY <1>6, StillKeeps DEF vars, history
<1> QED BY <1>1, <1>2, <1>3, <1>4, <1>5, <1>6 DEF Next

\* No message that was sent disappears from the inbox (writeToMailbox and the
\* marks of teammateMailbox.ts), however many write and mark at once, unless a
\* process died while it filled the file or a late creator wrote over it.
THEOREM NothingVanishes == Spec => []NoneVanish
<1>1. IInv => NoneVanish
  BY DEF IInv
<1> QED BY <1>1, InitInv, StepInv, PTL DEF Spec

-----------------------------------------------------------------------------
(* What the readers have in hand.  Until a file is destroyed, the inbox has *)
(* contents at every moment: those of the file, or what whoever rewrites it *)
(* has read.                                                                *)

ReaderTypes ==
    /\ took \in [Polls -> SUBSET (Nat \X Writers)]
    /\ pending \in [Writers -> Nat]
    /\ delivered \in [Writers -> Nat]
    /\ failed \in Nat /\ died \in Nat

Excused(w) == Taken(w) \/ w \in overtaken

\* A reader that waits for its marks, as long as nothing went wrong.
Careful == reader # "session" /\ failed = 0 /\ died = 0

\* A poll that has read the inbox and not marked it.
Marking(p) == at[p] \in {"polled", "waiting", "holding", "writing"}

Content(s) == \/ s = Messages /\ \A o \in Ops : at[o] # "writing"
              \/ \E o \in Ops : at[o] = "writing" /\ s = snap[o]

\* There is one message of each sender that has sent one.
Signed(s) == /\ \A i \in DOMAIN s : at[s[i].from] = "sent"
             /\ \A i, j \in DOMAIN s : s[i].from = s[j].from => i = j

Vouched(s) == \A i \in DOMAIN s : s[i].read => Excused(s[i].from)

\* What a poll took is still where the poll found it.
Placed(s) == \A p \in Polls : \A t \in took[p] : t[1] \in DOMAIN s /\ s[t[1]].from = t[2]

\* A mark of everything marks nothing that its poll passed over, but what came
\* in since.
Seen(s) == reader # "teammate" =>
    \A p \in Polls, i \in DOMAIN s : Marking(p) => Excused(s[i].from)

\* What was given, or is about to be given after its mark, is marked.
Noted(s) == Careful => \A i \in DOMAIN s :
    /\ delivered[s[i].from] > 0 => s[i].read
    /\ \A p \in Polls : at[p] = "marked" /\ s[i].from \in InHand(p) => s[i].read

Accounted(s) == Signed(s) /\ Vouched(s) /\ Placed(s) /\ Seen(s) /\ Noted(s)

Contents == lost = {} => \A s \in Seq(Message) : Content(s) => Accounted(s)

Settled == lost = {} => \A o \in Ops : /\ at[o] = "holding" => snap[o] = Messages
                                       /\ at[o] = "writing" => Messages = <<>>

\* Only a session polls while it polls, and only a session hands over before it
\* marks.
Hands ==
    /\ reader # "session" =>
          \A p, q \in Polls : at[p] # "none" /\ at[q] # "none" => p = q
    /\ \A p \in Polls : /\ at[p] = "none" => took[p] = {}
                        /\ at[p] = "polled" => reader = "session"
                        /\ reader = "session" /\ at[p] # "polled" => took[p] = {}

Given == Careful /\ lost = {} =>
    /\ \A w \in Writers : delivered[w] < 2 /\ (delivered[w] > 0 => at[w] = "sent")
    /\ \A p \in Polls : \A w \in InHand(p) : delivered[w] = 0 /\ at[w] = "sent"

Reading == IInv /\ ReaderTypes /\ Contents /\ Settled /\ Hands /\ Given

\* More counts up what it is told to, once at least.
LEMMA MoreCounts ==
  ASSUME NEW c \in [Writers -> Nat], NEW ws
  PROVE  /\ More(c, ws) \in [Writers -> Nat]
         /\ \A w \in Writers : /\ c[w] > 0 => More(c, ws)[w] > 0
                               /\ w \in ws => More(c, ws)[w] > 0
                               /\ w \notin ws => More(c, ws)[w] = c[w]
                               /\ c[w] = 0 => More(c, ws)[w] < 2
BY DEF More

LEMMA InHandWriters ==
  ASSUME ReaderTypes, NEW p \in Polls
  PROVE  InHand(p) \subseteq Writers
BY DEF ReaderTypes, InHand

\* Steps that leave the readers alone.
Still == UNCHANGED <<took, pending, delivered, dropped>> /\ overtaken \subseteq overtaken'

LEMMA StillTypes ==
  ASSUME ReaderTypes, Still, UNCHANGED bounds
  PROVE  ReaderTypes'
BY DEF ReaderTypes, Still, bounds

\* The types of what the readers keep.
LEMMA NextReaderTypes ==
  ASSUME IInv, ReaderTypes, [Next]_vars
  PROVE  ReaderTypes'
<1>1. ASSUME NEW w \in Writers, Ensure(w) \/ FillNew(w) PROVE ReaderTypes'
  BY <1>1 DEF Ensure, FillNew, session, bounds, history, ReaderTypes
<1>2. ASSUME NEW w \in Writers, WriterDies(w) PROVE ReaderTypes'
  BY <1>2 DEF WriterDies, session, ReaderTypes
<1>3. ASSUME NEW o \in Ops, Lock(o) \/ Truncate(o) \/ Fill(o) PROVE ReaderTypes'
  BY <1>3 DEF Lock, Truncate, Fill, session, bounds, history, ReaderTypes
<1>4. ASSUME NEW o \in Ops, NoLock(o) PROVE ReaderTypes'
  BY <1>4 DEF NoLock, session, ReaderTypes
<1>5. ASSUME NEW p \in Polls, Poll(p) PROVE ReaderTypes'
  <2>1. Places(Messages, Found) \subseteq Nat \X Writers
    <3>1. Messages \in Seq(Message)
      BY DEF Messages, IInv, Types
    <3>2. Found \subseteq DOMAIN Messages
      BY DEF Found, Chosen, Unread
    <3>3. \A i \in DOMAIN Messages : i \in Nat /\ Messages[i].from \in Writers
      BY <3>1, FromWriters DEF From
    <3> QED BY <3>2, <3>3 DEF Places
  <2>2. took' \in [Polls -> SUBSET (Nat \X Writers)]
    BY <1>5, <2>1 DEF Poll, ReaderTypes
  <2> QED BY <1>5, <2>2 DEF Poll, ReaderTypes, bounds
<1>6. ASSUME NEW p \in Polls, HandOver(p) \/ HandOn(p) PROVE ReaderTypes'
  <2>1. took' = [took EXCEPT ![p] = {}] /\ UNCHANGED bounds
    BY <1>6 DEF HandOver, HandOn
  <2>2. took' \in [Polls -> SUBSET (Nat \X Writers)]
    BY <2>1 DEF ReaderTypes
  <2>3. /\ delivered' = delivered \/ delivered' = More(delivered, InHand(p))
        /\ pending' = pending \/ pending' = More(pending, InHand(p))
    BY <1>6 DEF HandOver, HandOn, Deliver
  <2> QED BY <2>1, <2>2, <2>3, MoreCounts DEF ReaderTypes, bounds
<1>7. CASE IdleEffect
  <2>1. /\ delivered' = delivered \/ \E ws : delivered' = More(delivered, ws)
        /\ pending' = pending \/ pending' = [w \in Writers |-> 0]
        /\ UNCHANGED <<took, bounds>>
    BY <1>7 DEF IdleEffect, Deliver, Emptied, Refused
  <2> QED BY <2>1, MoreCounts DEF ReaderTypes, bounds
<1>8. CASE TurnBegins \/ TurnEnds \/ UNCHANGED vars
  BY <1>8 DEF TurnBegins, TurnEnds, vars, session, bounds, ReaderTypes
<1>9. CASE ReaderDies
  BY <1>9 DEF ReaderDies, Emptied, ReaderTypes
<1> QED BY <1>1, <1>2, <1>3, <1>4, <1>5, <1>6, <1>7, <1>8, <1>9 DEF Next

\* A message is excused for good.
LEMMA ExcusedStays ==
  ASSUME ReaderTypes, Hands, [Next]_vars, NEW v \in Writers, Excused(v)
  PROVE  Excused(v)'
<1>0. ASSUME Still PROVE Excused(v)'
  BY <1>0 DEF Still, Excused, Taken, InHand
<1>1. ASSUME NEW w \in Writers, Ensure(w) \/ FillNew(w) \/ WriterDies(w) PROVE Still
  BY <1>1 DEF Ensure, FillNew, WriterDies, session, history, Still
<1>2. ASSUME NEW o \in Ops, Lock(o) \/ NoLock(o) \/ Truncate(o) \/ Fill(o) PROVE Still
  BY <1>2 DEF Lock, NoLock, Truncate, Fill, session, history, Still
<1>3. CASE TurnBegins \/ TurnEnds \/ UNCHANGED vars
  <2>1. Still
    BY <1>3 DEF TurnBegins, TurnEnds, vars, session, history, Still
  <2> QED BY <2>1, <1>0
<1>4. ASSUME NEW p \in Polls, Poll(p) PROVE Excused(v)'
  <2>1. took[p] = {} /\ \A q \in Polls : q # p => took'[q] = took[q]
    BY <1>4 DEF Poll, Hands, ReaderTypes
  <2>2. \A q \in Polls : v \in InHand(q) => v \in InHand(q)'
    BY <2>1 DEF InHand
  <2> QED BY <1>4, <2>2 DEF Poll, history, Excused, Taken
<1>5. ASSUME NEW p \in Polls, HandOver(p) \/ HandOn(p) PROVE Excused(v)'
  <2>1. /\ delivered' = delivered \/ delivered' = More(delivered, InHand(p))
        /\ pending' = pending \/ pending' = More(pending, InHand(p))
        /\ delivered' = More(delivered, InHand(p)) \/ pending' = More(pending, InHand(p))
    BY <1>5 DEF HandOver, HandOn, Deliver
  <2>2. took' = [took EXCEPT ![p] = {}] /\ UNCHANGED <<overtaken, dropped>>
    BY <1>5 DEF HandOver, HandOn, history
  <2>3. \A q \in Polls : q # p => InHand(q)' = InHand(q)
    BY <2>2 DEF InHand, ReaderTypes
  <2>4. /\ delivered[v] > 0 => delivered'[v] > 0
        /\ pending[v] > 0 => pending'[v] > 0
        /\ v \in InHand(p) => delivered'[v] > 0 \/ pending'[v] > 0
    BY <2>1, MoreCounts DEF ReaderTypes
  <2> QED BY <2>2, <2>3, <2>4 DEF Excused, Taken
<1>6. CASE IdleEffect
  <2> DEFINE ws == {w \in Writers : pending[w] > 0}
  <2>1. UNCHANGED <<took, overtaken, dropped>>
    BY <1>6 DEF IdleEffect, history
  <2>2. CASE delivered' = More(delivered, ws)
    <3>1. /\ delivered[v] > 0 => delivered'[v] > 0
          /\ pending[v] > 0 => delivered'[v] > 0
      BY <2>2, MoreCounts DEF ReaderTypes
    <3> QED BY <2>1, <3>1 DEF Excused, Taken, InHand
  <2>3. CASE UNCHANGED <<delivered, pending>>
    BY <2>1, <2>3 DEF Excused, Taken, InHand
  <2> QED BY <1>6, <2>2, <2>3 DEF IdleEffect, Deliver, Refused
<1>7. CASE ReaderDies
  <2>1. /\ dropped' = dropped \cup {w \in Writers : pending[w] > 0} \cup UNION {InHand(p) : p \in Polls}
        /\ UNCHANGED <<delivered, overtaken>>
    BY <1>7 DEF ReaderDies
  <2> QED BY <2>1 DEF Excused, Taken
<1> QED BY <1>0, <1>1, <1>2, <1>3, <1>4, <1>5, <1>6, <1>7 DEF Next

-----------------------------------------------------------------------------
\* A step that hands nothing out and begins no mark keeps every account.
Calm ==
    /\ UNCHANGED reader
    /\ \A w \in Writers : at[w] = "sent" => at'[w] = "sent"
    /\ \A p \in Polls : took'[p] \subseteq took[p]
    /\ \A p \in Polls : Marking(p)' => Marking(p)
    /\ Careful' => /\ Careful /\ UNCHANGED delivered
                   /\ \A p \in Polls : at'[p] = "marked" => at[p] = "marked"

LEMMA CalmAccount ==
  ASSUME ReaderTypes, Calm, NEW s \in Seq(Message), Accounted(s),
         \A w \in Writers : Excused(w) => Excused(w)'
  PROVE  Accounted(s)'
<1>1. \A i \in DOMAIN s : s[i].from \in Writers
  BY FromWriters DEF From
<1>2. Signed(s)'
  BY <1>1 DEF Accounted, Signed, Calm
<1>3. Vouched(s)'
  BY <1>1 DEF Accounted, Vouched
<1>4. Placed(s)'
  BY DEF Accounted, Placed, Calm
<1>5. Seen(s)'
  BY <1>1 DEF Accounted, Seen, Calm
<1>6. Noted(s)'
  <2> SUFFICES ASSUME Careful', NEW i \in DOMAIN s
               PROVE  /\ delivered'[s[i].from] > 0 => s[i].read
                      /\ \A p \in Polls : at'[p] = "marked" /\ s[i].from \in InHand(p)' => s[i].read
    BY DEF Noted
  <2>1. Careful /\ delivered' = delivered /\ \A p \in Polls : at'[p] = "marked" => at[p] = "marked"
    BY DEF Calm
  <2>2. \A p \in Polls : InHand(p)' \subseteq InHand(p)
    BY DEF Calm, InHand
  <2> QED BY <2>1, <2>2 DEF Accounted, Noted
<1> QED BY <1>2, <1>3, <1>4, <1>5, <1>6 DEF Accounted

\* So does one that leaves the contents as they are.
LEMMA CalmContents ==
  ASSUME ReaderTypes, Contents, Calm, \A w \in Writers : Excused(w) => Excused(w)',
         lost \subseteq lost',
         \A s \in Seq(Message) : lost' = {} /\ Content(s)' => Content(s)
  PROVE  Contents'
<1> SUFFICES ASSUME lost' = {}, NEW s \in Seq(Message), Content(s)' PROVE Accounted(s)'
  BY DEF Contents
<1>1. Accounted(s)
  BY DEF Contents
<1> QED BY <1>1, CalmAccount

LEMMA CalmGiven ==
  ASSUME ReaderTypes, Given, Calm, lost \subseteq lost'
  PROVE  Given'
<1> SUFFICES ASSUME Careful', lost' = {}
             PROVE  /\ \A w \in Writers : delivered'[w] < 2 /\ (delivered'[w] > 0 => at'[w] = "sent")
                    /\ \A p \in Polls : \A w \in InHand(p)' : delivered'[w] = 0 /\ at'[w] = "sent"
  BY DEF Given
<1>1. Careful /\ lost = {} /\ delivered' = delivered
  BY DEF Calm
<1>2. \A p \in Polls : InHand(p)' \subseteq InHand(p) /\ InHand(p) \subseteq Writers
  BY InHandWriters DEF Calm, InHand
<1> QED BY <1>1, <1>2 DEF Given, Calm

-----------------------------------------------------------------------------
LEMMA NextHands ==
  ASSUME IInv, ReaderTypes, Hands, [Next]_vars
  PROVE  Hands'
<1>0. at \in [Ops -> Stages] /\ took \in [Polls -> SUBSET (Nat \X Writers)]
      /\ Polls \subseteq Ops /\ \A w \in Writers : w \notin Polls
  BY MailboxAssumption DEF IInv, Types, ReaderTypes, Ops
<1>1. ASSUME NEW w \in Writers, Ensure(w) \/ FillNew(w) \/ WriterDies(w) PROVE Hands'
  <2>1. \A p \in Polls : at'[p] = at[p] /\ took'[p] = took[p]
    BY <1>0, <1>1 DEF Ensure, FillNew, WriterDies, Goto, session
  <2>2. reader' = reader
    BY <1>1 DEF Ensure, FillNew, WriterDies
  <2> QED BY <2>1, <2>2 DEF Hands
<1>2. ASSUME NEW o \in Ops, Lock(o) \/ NoLock(o) \/ Truncate(o) \/ Fill(o) PROVE Hands'
  <2>1. took' = took /\ reader' = reader /\ at[o] \in {"waiting", "holding", "writing"}
    BY <1>2 DEF Lock, NoLock, Truncate, Fill, session
  <2>2. PICK l \in {"holding", "writing", After(o), "gone"} :
            Goto(o, l) /\ (l = "gone" => o \in Writers)
    <3>1. CASE NoLock(o)
      <4>1. (Goto(o, "gone") /\ o \in Writers) \/ Goto(o, After(o))
        BY <3>1 DEF NoLock
      <4>2. After(o) # "gone"
        BY DEF After
      <4> HIDE DEF Goto, After
      <4> QED BY <4>1, <4>2
    <3>2. CASE Lock(o) \/ Truncate(o) \/ Fill(o)
      <4>1. Goto(o, After(o)) \/ Goto(o, "holding") \/ Goto(o, "writing")
        BY <3>2 DEF Lock, Truncate, Fill
      <4>2. After(o) # "gone"
        BY DEF After
      <4> HIDE DEF Goto, After
      <4> QED BY <4>1, <4>2
    <3> QED BY <1>2, <3>1, <3>2
  <2>3. \A p \in Polls : at'[p] = IF p = o THEN l ELSE at[p]
    <3>1. at' = [at EXCEPT ![o] = l]
      BY <2>2 DEF Goto
    <3> QED BY <1>0, <3>1
  <2>4. o \in Polls => /\ l # "polled" /\ l # "gone"
                       /\ l = "none" => reader = "session"
    <3>1. l \in {"holding", "writing", After(o)} \/ o \in Writers
      BY <2>2
    <3>2. o \in Polls => /\ o \notin Writers
                         /\ After(o) \in {"none", "marked"}
                         /\ After(o) = "none" => reader = "session"
      BY <1>0 DEF After
    <3> QED BY <3>1, <3>2
  <2>5. o \in Polls => at[o] # "none" /\ at[o] # "polled"
    BY <2>1
  <2> QED BY <2>1, <2>3, <2>4, <2>5 DEF Hands
<1>3. ASSUME NEW p \in Polls, Poll(p) PROVE Hands'
  <2>1. /\ reader' = reader
        /\ reader = "session" \/ \A q \in Polls : at[q] = "none"
        /\ \A q \in Polls : q # p => took'[q] = took[q]
        /\ Goto(p, IF reader = "session" THEN "polled" ELSE "waiting")
    BY <1>0, <1>3 DEF Poll
  <2>2. \A q \in Polls : at'[q] = IF q = p THEN IF reader = "session" THEN "polled" ELSE "waiting"
                                           ELSE at[q]
    BY <1>0, <2>1 DEF Goto
  <2> QED BY <2>1, <2>2 DEF Hands
<1>4. ASSUME NEW p \in Polls, HandOver(p) \/ HandOn(p) PROVE Hands'
  <2>1. /\ reader' = reader
        /\ \A q \in Polls : took'[q] = IF q = p THEN {} ELSE took[q]
        /\ at[p] # "none"
    BY <1>0, <1>4 DEF HandOver, HandOn
  <2>2. Goto(p, "waiting") \/ Goto(p, "none")
    BY <1>4 DEF HandOver, HandOn
  <2>3. \A q \in Polls : at'[q] = at[q] \/ (q = p /\ at'[q] \in {"waiting", "none"})
    BY <1>0, <2>2 DEF Goto
  <2> QED BY <2>1, <2>3 DEF Hands
<1>5. CASE IdleEffect \/ TurnBegins \/ TurnEnds \/ UNCHANGED vars
  BY <1>5 DEF IdleEffect, TurnBegins, TurnEnds, vars, session, Hands
<1>6. CASE ReaderDies
  <2>1. reader' = reader /\ \A p \in Polls : at'[p] = "none" /\ took'[p] = {}
    BY <1>0, <1>6 DEF ReaderDies
  <2> QED BY <2>1 DEF Hands
<1> QED BY <1>1, <1>2, <1>3, <1>4, <1>5, <1>6 DEF Next

\* One operation goes from a stage to another, without the readers.
LEMMA CalmMove ==
  ASSUME IInv, Still, UNCHANGED <<reader, bounds>>, NEW o \in Ops, NEW l, Goto(o, l), at[o] # "sent",
         o \in Writers \/ /\ at[o] \in {"waiting", "holding", "writing"}
                          /\ l # "marked" /\ l # "polled"
  PROVE  Calm
<1>1. \A x \in Ops : at'[x] = IF x = o THEN l ELSE at[x]
  BY DEF IInv, Types, Goto
<1>2. Careful' => Careful
  BY DEF Careful, bounds
<1>3. \A w \in Writers : w \in Ops /\ w \notin Polls
  BY MailboxAssumption DEF Ops
<1>4. \A p \in Polls : p \in Ops
  BY DEF Ops
<1> QED BY <1>1, <1>2, <1>3, <1>4 DEF Calm, Marking, Still

LEMMA EmptyMessages ==
  ASSUME NEW s \in Seq(Message), From(s) = {}
  PROVE  s = <<>>
<1>1. \A i \in DOMAIN s : s[i].from \in From(s)
  BY DEF From
<1>2. DOMAIN s = {}
  BY <1>1
<1> QED BY <1>2

\* The steps that hand out nothing, take nothing and mark nothing.
Frame ==
    /\ Calm /\ Settled' /\ lost \subseteq lost'
    /\ \A s \in Seq(Message) : lost' = {} /\ Content(s)' => Content(s)

LEMMA CreatingFrame ==
  ASSUME Reading, NEW w \in Writers, Ensure(w) \/ FillNew(w)
  PROVE  Frame
<1>0. w \in Ops /\ at \in [Ops -> Stages]
  BY DEF Ops, Reading, IInv, Types
<1>1. PICK l \in {"creating", "waiting"} : Goto(w, l)
  BY DEF Ensure, FillNew
<1>2. Still /\ UNCHANGED <<reader, bounds, snap>> /\ at[w] \in {"none", "creating"}
  BY DEF Ensure, FillNew, Still, session, history, bounds
<1>3. Calm
  BY <1>0, <1>1, <1>2, CalmMove DEF Reading
<1>4. \A o \in Ops : at'[o] = IF o = w THEN l ELSE at[o]
  BY <1>0, <1>1 DEF Goto
<1>5. lost \subseteq lost' /\ (lost' = {} => Messages' = Messages)
  <2>1. CASE Ensure(w)
    BY <2>1 DEF Ensure, history, Messages, Absent, Torn
  <2>2. CASE FillNew(w)
    <3>1. lost' = lost \cup From(Messages) /\ Messages' = <<>>
      BY <2>2 DEF FillNew, Messages, Whole, Torn
    <3> QED BY <3>1, EmptyMessages DEF Reading, IInv, Types, Messages
  <2> QED BY <2>1, <2>2
<1>6. Settled'
  BY <1>2, <1>4, <1>5 DEF Reading, Settled
<1>7. ASSUME NEW s \in Seq(Message), lost' = {}, Content(s)' PROVE Content(s)
  BY <1>0, <1>2, <1>4, <1>5, <1>7 DEF Content
<1> QED BY <1>3, <1>5, <1>6, <1>7 DEF Frame

LEMMA LockingFrame ==
  ASSUME Reading, NEW o \in Ops, Truncate(o) \/ NoLock(o) \/ (Lock(o) /\ ~ NoChange(o))
  PROVE  Frame
<1>0. at \in [Ops -> Stages] /\ snap \in [Ops -> Seq(Message)] /\ Messages \in Seq(Message)
  BY DEF Reading, IInv, Types, Messages
<1>1. CASE Truncate(o)
  <2>1. /\ at[o] = "holding" /\ Goto(o, "writing") /\ Messages' = <<>>
        /\ Still /\ UNCHANGED <<reader, bounds, snap, lost>>
    BY <1>1 DEF Truncate, Still, session, history, Messages, Torn
  <2>2. \A x \in Ops : at'[x] = IF x = o THEN "writing" ELSE at[x]
    BY <1>0, <2>1 DEF Goto
  <2>3. \A x \in Ops : x # o => at[x] \notin {"holding", "writing"}
    BY <2>1 DEF Reading, IInv, LockHeld, Rewrites
  <2>4. Calm
    BY <2>1, CalmMove DEF Reading
  <2>5. Settled'
    BY <2>1, <2>2, <2>3 DEF Settled
  <2>6. ASSUME NEW s \in Seq(Message), lost' = {}, Content(s)' PROVE Content(s)
    <3>1. s = snap[o]
      BY <2>1, <2>2, <2>3, <2>6 DEF Content
    <3>2. snap[o] = Messages
      BY <2>1, <2>6 DEF Reading, Settled
    <3> QED BY <2>1, <2>3, <3>1, <3>2 DEF Content
  <2> QED BY <2>1, <2>4, <2>5, <2>6 DEF Frame
<1>2. CASE NoLock(o)
  <2>1. /\ at[o] = "waiting" /\ failed' = failed + 1
        /\ UNCHANGED <<reader, file, snap, lost, took, pending, delivered, dropped, overtaken>>
    BY <1>2 DEF NoLock, session, history
  <2>2. PICK l \in {"gone", "none", "marked"} : Goto(o, l)
    <3> DEFINE l == IF o \in Writers THEN "gone" ELSE After(o)
    <3>1. Goto(o, l)
      BY <1>2 DEF NoLock
    <3>2. l \in {"gone", "none", "marked"}
      BY DEF After
    <3> HIDE DEF l
    <3> QED BY <3>1, <3>2
  <2>3. \A x \in Ops : at'[x] = IF x = o THEN l ELSE at[x]
    BY <1>0, <2>2 DEF Goto
  <2>4. ~ Careful'
    BY <2>1 DEF Careful, Reading, ReaderTypes
  <2>5. Calm
    BY <2>1, <2>3, <2>4 DEF Calm, Marking, Ops
  <2>6. Settled'
    BY <2>1, <2>3 DEF Reading, Settled, Messages
  <2>7. ASSUME NEW s \in Seq(Message), Content(s)' PROVE Content(s)
    BY <2>1, <2>3, <2>7 DEF Content, Messages
  <2> QED BY <2>1, <2>5, <2>6, <2>7 DEF Frame
<1>3. CASE Lock(o) /\ ~ NoChange(o)
  <2>1. /\ at[o] = "waiting" /\ Goto(o, "holding") /\ snap' = [snap EXCEPT ![o] = Messages]
        /\ Still /\ UNCHANGED <<reader, bounds, file, lost>>
    BY <1>3 DEF Lock, Still, session, history
  <2>2. \A x \in Ops : at'[x] = IF x = o THEN "holding" ELSE at[x]
    BY <1>0, <2>1 DEF Goto
  <2>3. \A x \in Ops : at[x] \notin {"holding", "writing"}
    BY <1>3, MailboxAssumption DEF Lock, Free, Reading, IInv, LockHeld, Rewrites, Ops
  <2>4. Calm
    BY <2>1, CalmMove DEF Reading
  <2>5. Settled'
    <3>1. snap'[o] = Messages
      BY <1>0, <2>1
    <3> QED BY <2>1, <2>2, <2>3, <3>1 DEF Settled, Messages
  <2>6. ASSUME NEW s \in Seq(Message), Content(s)' PROVE Content(s)
    BY <2>1, <2>2, <2>3, <2>6 DEF Content, Messages
  <2> QED BY <2>1, <2>4, <2>5, <2>6 DEF Frame
<1> QED BY <1>1, <1>2, <1>3

\* What the session does with the messages is no business of the file.
LEMMA SessionFrame ==
  ASSUME Reading, IdleEffect \/ TurnBegins \/ TurnEnds \/ UNCHANGED vars
         \/ \E p \in Polls : HandOver(p)
  PROVE  Frame
<1>1. UNCHANGED <<reader, file, snap, lost, bounds>>
  BY DEF IdleEffect, TurnBegins, TurnEnds, vars, HandOver, history
<1>2. Careful' => UNCHANGED <<at, delivered>>
  BY <1>1 DEF IdleEffect, TurnBegins, TurnEnds, vars, session, HandOver, Careful, Reading, Hands
<1>3. /\ \A p \in Polls : took'[p] \subseteq took[p]
      /\ \A o \in Ops : at'[o] = at[o] \/ (at[o] = "polled" /\ at'[o] = "waiting")
  <2>1. CASE \E p \in Polls : HandOver(p)
    <3>1. PICK p \in Polls : HandOver(p)
      BY <2>1
    <3>2. p \in Ops /\ at[p] = "polled" /\ at' = [at EXCEPT ![p] = "waiting"] /\ took' = [took EXCEPT ![p] = {}]
      BY <3>1 DEF HandOver, Goto, Ops
    <3> QED BY <3>2 DEF Reading, IInv, Types, ReaderTypes
  <2>2. CASE UNCHANGED <<at, took>>
    BY <2>2
  <2> QED BY <2>1, <2>2 DEF IdleEffect, TurnBegins, TurnEnds, vars, session
<1>4. Calm
  <2>1. \A p \in Polls : Marking(p)' => Marking(p)
    BY <1>3 DEF Marking, Ops
  <2>2. Careful' => Careful
    BY <1>1 DEF Careful, bounds
  <2>3. \A w \in Writers : at[w] = "sent" => at'[w] = "sent"
    BY <1>3 DEF Ops
  <2> QED BY <1>1, <1>2, <1>3, <2>1, <2>2, <2>3 DEF Calm
<1>5. Settled'
  BY <1>1, <1>3 DEF Reading, Settled, Messages
<1>6. ASSUME NEW s \in Seq(Message), Content(s)' PROVE Content(s)
  <2>1. \A o \in Ops : at'[o] = "writing" <=> at[o] = "writing"
    BY <1>3
  <2> QED BY <1>1, <1>6, <2>1 DEF Content, Messages
<1> QED BY <1>1, <1>4, <1>5, <1>6 DEF Frame

\* A death leaves an empty file at worst, which is a loss unless nothing was in it.
LEMMA DeathFrame ==
  ASSUME Reading, NEW O \in SUBSET Ops, UNCHANGED <<reader, file, snap>>, died' = died + 1,
         \A o \in Ops : at'[o] = at[o] \/ (o \in O /\ at'[o] \in {"none", "gone"}),
         \A w \in Writers : at[w] = "sent" => at'[w] = "sent",
         \A p \in Polls : took'[p] \subseteq took[p],
         lost' = lost \cup Destroyed(O)
  PROVE  Frame
<1>1. ~ Careful'
  BY DEF Careful, Reading, ReaderTypes
<1>2. Calm
  BY <1>1 DEF Calm, Marking, Ops
<1>3. Settled'
  BY DEF Reading, Settled, Messages
<1>4. ASSUME NEW s \in Seq(Message), lost' = {}, Content(s)' PROVE Content(s)
  <2>1. CASE \E o \in Ops : at'[o] = "writing" /\ s = snap[o]
    BY <2>1 DEF Content
  <2>2. CASE s = Messages /\ \A o \in Ops : at[o] # "writing"
    BY <2>2 DEF Content
  <2>3. CASE s = Messages /\ \E o \in Ops : at[o] = "writing" /\ at'[o] # "writing"
    <3>1. PICK o \in Ops : at[o] = "writing" /\ at'[o] # "writing"
      BY <2>3
    <3>2. o \in O /\ From(snap[o]) \subseteq Destroyed(O)
      BY <3>1 DEF Destroyed
    <3>3. snap[o] = <<>>
      BY <1>4, <3>2, EmptyMessages DEF Reading, IInv, Types
    <3>4. Messages = <<>>
      BY <1>4, <3>1 DEF Reading, Settled
    <3> QED BY <2>3, <3>1, <3>3, <3>4 DEF Content
  <2> QED BY <1>4, <2>1, <2>2, <2>3 DEF Content, Messages
<1> QED BY <1>2, <1>3, <1>4 DEF Frame

LEMMA DyingFrame ==
  ASSUME Reading, ReaderDies \/ \E w \in Writers : WriterDies(w)
  PROVE  Frame
<1>0. at \in [Ops -> Stages] /\ \A w \in Writers : w \in Ops /\ w \notin Polls
  BY MailboxAssumption DEF Reading, IInv, Types, Ops
<1>1. CASE ReaderDies
  <2>1. Polls \in SUBSET Ops
    BY DEF Ops
  <2>2. /\ UNCHANGED <<reader, file, snap>> /\ died' = died + 1
        /\ at' = [o \in Ops |-> IF o \in Polls THEN "none" ELSE at[o]]
        /\ took' = [p \in Polls |-> {}] /\ lost' = lost \cup Destroyed(Polls)
    BY <1>1 DEF ReaderDies
  <2>3. \A o \in Ops : at'[o] = at[o] \/ (o \in Polls /\ at'[o] \in {"none", "gone"})
    BY <2>2
  <2>4. \A w \in Writers : at[w] = "sent" => at'[w] = "sent"
    BY <1>0, <2>2
  <2>5. \A p \in Polls : took'[p] \subseteq took[p]
    BY <2>2
  <2> QED BY <2>1, <2>2, <2>3, <2>4, <2>5, DeathFrame
<1>2. ASSUME NEW w \in Writers, WriterDies(w) PROVE Frame
  <2>1. /\ UNCHANGED <<reader, file, snap, took>> /\ died' = died + 1
        /\ at' = [at EXCEPT ![w] = "gone"] /\ at[w] # "sent"
        /\ lost' = lost \cup Destroyed({w})
    BY <1>2 DEF WriterDies, Goto, session
  <2>2. \A o \in Ops : at'[o] = IF o = w THEN "gone" ELSE at[o]
    BY <1>0, <2>1
  <2>3. \A o \in Ops : at'[o] = at[o] \/ (o \in {w} /\ at'[o] \in {"none", "gone"})
    BY <2>2
  <2>4. \A v \in Writers : at[v] = "sent" => at'[v] = "sent"
    BY <1>0, <2>1, <2>2
  <2> QED BY <1>0, <2>1, <2>3, <2>4, DeathFrame
<1> QED BY <1>1, <1>2

\* A frame step keeps the whole account.
LEMMA FrameKeeps ==
  ASSUME Reading, [Next]_vars, Frame
  PROVE  Contents' /\ Settled' /\ Given'
<1>1. \A w \in Writers : Excused(w) => Excused(w)'
  BY ExcusedStays DEF Reading
<1>2. Contents'
  BY <1>1, CalmContents DEF Reading, Frame
<1>3. Given'
  BY CalmGiven DEF Reading, Frame
<1> QED BY <1>2, <1>3 DEF Frame

\* A poll finds a file that nobody is writing.  What it did not take was read
\* before, and a careful reader has not been given what is unread.
LEMMA PollAccounts ==
  ASSUME Reading, [Next]_vars, NEW p \in Polls, Poll(p)
  PROVE  Contents' /\ Settled' /\ Given'
<1>0. /\ at \in [Ops -> Stages] /\ Messages \in Seq(Message) /\ p \in Ops
      /\ \A w \in Writers : w \in Ops /\ w # p
  BY MailboxAssumption DEF Reading, IInv, Types, Messages, Ops
<1>1. /\ at[p] = "none" /\ Unread(Messages) # {}
      /\ took' = [took EXCEPT ![p] = Places(Messages, Found)]
      /\ UNCHANGED <<reader, file, snap, delivered, pending, lost, overtaken, dropped, bounds>>
  BY DEF Poll, history
<1>2. PICK l \in {"polled", "waiting"} : Goto(p, l)
  BY DEF Poll
<1>3. \A o \in Ops : at'[o] = IF o = p THEN l ELSE at[o]
  BY <1>0, <1>2 DEF Goto
<1>4. Settled'
  BY <1>1, <1>3 DEF Reading, Settled, Messages
<1>5. Messages # <<>>
  BY <1>1 DEF Unread
<1>6. ASSUME lost = {}
      PROVE  /\ \A o \in Ops : at[o] # "writing"
             /\ Accounted(Messages)
  <2>1. \A o \in Ops : at[o] # "writing"
    BY <1>5, <1>6 DEF Reading, Settled
  <2> QED BY <1>0, <1>6, <2>1 DEF Reading, Contents, Content
<1>7. \A q \in Polls : q # p => took'[q] = took[q]
  BY <1>1 DEF Reading, ReaderTypes
<1>8. took'[p] = Places(Messages, Found)
  BY <1>1 DEF Reading, ReaderTypes
<1>9. Found \subseteq Unread(Messages)
  BY DEF Found, Chosen
<1>10. \A w \in Writers : Excused(w) => Excused(w)'
  BY ExcusedStays DEF Reading
<1>11. ASSUME NEW s \in Seq(Message), lost' = {}, Content(s)' PROVE Accounted(s)'
  <2>1. s = Messages /\ Accounted(s)
    BY <1>1, <1>3, <1>6, <1>11 DEF Content, Messages
  <2>2. \A i \in DOMAIN s : s[i].from \in Writers
    BY FromWriters DEF From
  <2>3. Signed(s)'
    BY <1>0, <1>3, <2>1, <2>2 DEF Accounted, Signed
  <2>4. Vouched(s)'
    BY <1>10, <2>1, <2>2 DEF Accounted, Vouched
  <2>5. Placed(s)'
    <3>1. \A t \in Places(Messages, Found) : t[1] \in DOMAIN s /\ s[t[1]].from = t[2]
      BY <1>9, <2>1 DEF Places, Unread
    <3> QED BY <1>7, <1>8, <2>1, <3>1 DEF Accounted, Placed
  <2>6. Seen(s)'
    <3> SUFFICES ASSUME reader # "teammate", NEW q \in Polls, NEW i \in DOMAIN s, Marking(q)'
                 PROVE  Excused(s[i].from)'
      BY <1>1 DEF Seen
    <3>1. CASE q # p
      <4>1. Marking(q)
        BY <1>3, <3>1 DEF Marking, Ops
      <4> QED BY <1>10, <2>1, <2>2, <4>1 DEF Accounted, Seen
    <3>2. CASE s[i].read
      BY <1>10, <2>1, <2>2, <3>2 DEF Accounted, Vouched
    <3>3. CASE ~ s[i].read
      <4>1. i \in Found
        BY <2>1, <3>3 DEF Found, Unread
      <4>2. <<i, s[i].from>> \in took'[p]
        BY <1>8, <2>1, <4>1 DEF Places
      <4>3. s[i].from \in InHand(p)'
        BY <4>2 DEF InHand
      <4> QED BY <4>3 DEF Excused, Taken
    <3>4. q = p \/ q # p
      OBVIOUS
    <3> QED BY <3>1, <3>2, <3>3
  <2>7. Noted(s)'
    <3>1. \A q \in Polls : at'[q] = "marked" => q # p /\ at[q] = "marked"
      BY <1>3 DEF Ops
    <3>2. Careful' <=> Careful
      BY <1>1 DEF Careful, bounds
    <3> QED BY <1>1, <1>7, <2>1, <3>1, <3>2 DEF Accounted, Noted, InHand
  <2> QED BY <2>3, <2>4, <2>5, <2>6, <2>7 DEF Accounted
<1>12. Given'
  <2> SUFFICES ASSUME Careful', lost' = {}
               PROVE  /\ \A w \in Writers : delivered'[w] < 2 /\ (delivered'[w] > 0 => at'[w] = "sent")
                      /\ \A q \in Polls : \A w \in InHand(q)' : delivered'[w] = 0 /\ at'[w] = "sent"
    BY DEF Given
  <2>1. Careful /\ lost = {} /\ Accounted(Messages)
    BY <1>1, <1>6 DEF Careful, bounds
  <2>2. \A w \in Writers : at'[w] = at[w]
    BY <1>0, <1>3
  <2>3. \A w \in InHand(p)' : \E i \in DOMAIN Messages : w = Messages[i].from /\ ~ Messages[i].read
    BY <1>8, <1>9 DEF InHand, Places, Unread
  <2>4. \A w \in InHand(p)' : w \in Writers /\ delivered[w] = 0 /\ at[w] = "sent"
    <3>1. \A i \in DOMAIN Messages : Messages[i].from \in Writers
      BY <1>0, FromWriters DEF From
    <3> QED BY <2>1, <2>3, <3>1 DEF Accounted, Signed, Noted, Reading, ReaderTypes
  <2>5. \A q \in Polls : q # p => InHand(q)' = InHand(q) /\ InHand(q) \subseteq Writers
    BY <1>7, InHandWriters DEF InHand, Reading
  <2> QED BY <1>1, <2>1, <2>2, <2>4, <2>5 DEF Reading, Given
<1> QED BY <1>4, <1>11, <1>12 DEF Contents

\* A mark that has nothing to do: what its poll took is marked already.
LEMMA NoChangeAccounts ==
  ASSUME Reading, [Next]_vars, NEW o \in Ops, Lock(o), NoChange(o)
  PROVE  Contents' /\ Settled' /\ Given'
<1>0. /\ at \in [Ops -> Stages] /\ Messages \in Seq(Message) /\ o \in Polls /\ o \notin Writers
      /\ \A w \in Writers : w \in Ops /\ w # o
  BY MailboxAssumption DEF Reading, IInv, Types, Messages, Ops, NoChange
<1>1. /\ at[o] = "waiting" /\ lock = NoOne /\ Goto(o, After(o))
      /\ UNCHANGED <<reader, file, snap, took, delivered, pending, lost, overtaken, dropped, bounds>>
  BY DEF Lock, Free, session, history
<1>2. After(o) = IF reader = "session" THEN "none" ELSE "marked"
  BY <1>0 DEF After
<1> HIDE DEF After
<1>3. \A x \in Ops : at'[x] = IF x = o THEN After(o) ELSE at[x]
  BY <1>0, <1>1 DEF Goto
<1>4. \A x \in Ops : at[x] # "writing"
  BY <1>1, MailboxAssumption DEF Reading, IInv, LockHeld, Rewrites, Ops
<1>5. Settled'
  BY <1>1, <1>2, <1>3 DEF Reading, Settled, Messages
<1>6. \A w \in Writers : Excused(w) => Excused(w)'
  BY ExcusedStays DEF Reading
<1>7. ASSUME NEW s \in Seq(Message), lost' = {}, Content(s)' PROVE Accounted(s)'
  <2>1. s = Messages /\ Accounted(s)
    <3>1. s = Messages
      BY <1>1, <1>2, <1>3, <1>4, <1>7 DEF Content, Messages
    <3> QED BY <1>1, <1>4, <1>7, <3>1 DEF Reading, Contents, Content
  <2>2. \A i \in DOMAIN s : s[i].from \in Writers
    BY FromWriters DEF From
  <2>3. Signed(s)' /\ Vouched(s)' /\ Placed(s)'
    BY <1>0, <1>1, <1>3, <1>6, <2>1, <2>2 DEF Accounted, Signed, Vouched, Placed
  <2>4. Seen(s)'
    <3>1. \A q \in Polls : Marking(q)' => Marking(q)
      BY <1>2, <1>3 DEF Marking, Ops
    <3> QED BY <1>1, <1>6, <2>1, <2>2, <3>1 DEF Accounted, Seen
  <2>5. Noted(s)'
    <3> SUFFICES ASSUME Careful', NEW i \in DOMAIN s
                 PROVE  /\ delivered'[s[i].from] > 0 => s[i].read
                        /\ \A q \in Polls : at'[q] = "marked" /\ s[i].from \in InHand(q)' => s[i].read
      BY DEF Noted
    <3>1. Careful
      BY <1>1 DEF Careful, bounds
    <3>2. ASSUME NEW q \in Polls, at'[q] = "marked", s[i].from \in InHand(q)
          PROVE  s[i].read
      <4>1. CASE q # o
        BY <1>3, <2>1, <3>1, <3>2, <4>1 DEF Accounted, Noted, Ops
      <4>2. CASE q = o
        <5>1. reader = "teammate" /\ Marked(o, s) = s
          BY <2>1, <2>2 DEF NoChange
        <5>2. PICK t \in took[o] : t[2] = s[i].from
          BY <3>2, <4>2 DEF InHand
        <5>3. t[1] \in DOMAIN s /\ s[t[1]].from = t[2] /\ t = <<t[1], t[2]>> /\ t[2] \in Writers
          BY <1>0, <2>1, <5>2 DEF Accounted, Placed, Reading, ReaderTypes
        <5>4. i = t[1]
          BY <2>1, <5>2, <5>3 DEF Accounted, Signed
        <5>5. Marked(o, s)[i] = [s[i] EXCEPT !.read = TRUE]
          <6>1. \E w \in Writers : <<i, w>> \in took[o]
            BY <5>2, <5>3, <5>4, Zenon
          <6> QED BY <5>1, <6>1 DEF Marked
        <5> QED BY <5>1, <5>5 DEF Message
      <4> QED BY <4>1, <4>2
    <3> QED BY <1>1, <2>1, <3>1, <3>2 DEF Accounted, Noted, InHand
  <2> QED BY <2>3, <2>4, <2>5 DEF Accounted
<1>8. Given'
  <2>1. \A w \in Writers : at'[w] = at[w]
    BY <1>0, <1>3
  <2>2. \A p \in Polls : InHand(p) \subseteq Writers
    BY InHandWriters DEF Reading
  <2> QED BY <1>1, <2>1, <2>2 DEF Reading, Given, Careful, bounds, InHand
<1> QED BY <1>5, <1>7, <1>8 DEF Contents

\* What a mark does to each message.
LEMMA MarkedEach ==
  ASSUME NEW p, NEW s \in Seq(Message)
  PROVE  /\ DOMAIN Marked(p, s) = DOMAIN s
         /\ \A i \in DOMAIN s :
               /\ Marked(p, s)[i].from = s[i].from
               /\ s[i].read => Marked(p, s)[i].read
               /\ Marked(p, s)[i].read =>
                     s[i].read \/ reader # "teammate" \/ \E w \in Writers : <<i, w>> \in took[p]
               /\ reader # "teammate" \/ (\E w \in Writers : <<i, w>> \in took[p])
                     => Marked(p, s)[i].read
<1>1. \A i \in DOMAIN s : s[i] \in Message
  OBVIOUS
<1>2. \A m \in Message : LET n == [m EXCEPT !.read = TRUE] IN n.from = m.from /\ n.read
  BY DEF Message
<1>3. CASE reader = "teammate"
  <2>1. Marked(p, s) = [i \in DOMAIN s |-> IF \E w \in Writers : <<i, w>> \in took[p]
                                           THEN [s[i] EXCEPT !.read = TRUE] ELSE s[i]]
    BY <1>3 DEF Marked
  <2> QED BY <1>1, <1>2, <1>3, <2>1
<1>4. CASE reader # "teammate"
  <2>1. Marked(p, s) = [i \in DOMAIN s |-> [s[i] EXCEPT !.read = TRUE]]
    BY <1>4 DEF Marked
  <2> QED BY <1>1, <1>2, <1>4, <2>1
<1> QED BY <1>3, <1>4

\* The contents while o fills the file, and after.
LEMMA FillContent ==
  ASSUME Reading, NEW o \in Ops, Fill(o)
  PROVE  /\ at[o] = "writing" /\ \A x \in Ops : x # o => at[x] \notin {"holding", "writing"}
         /\ After(o) \notin {"holding", "writing", "polled"}
         /\ \A x \in Ops : at'[x] = IF x = o THEN After(o) ELSE at[x]
         /\ lost = {} => Accounted(snap[o])
         /\ \A s \in Seq(Message) : Content(s)' => s = Rewritten(o)
         /\ UNCHANGED <<reader, took, delivered, pending, lost, dropped, bounds>>
         /\ snap[o] \in Seq(Message)
<1>1. /\ at[o] = "writing" /\ Goto(o, After(o)) /\ Messages' = Rewritten(o)
      /\ UNCHANGED <<reader, took, delivered, pending, lost, dropped, bounds>>
  BY DEF Fill, session, Messages, Whole
<1>2. After(o) \notin {"holding", "writing", "polled"}
  BY DEF After
<1> HIDE DEF After
<1>3. \A x \in Ops : at'[x] = IF x = o THEN After(o) ELSE at[x]
  BY <1>1 DEF Reading, IInv, Types, Goto
<1>4. \A x \in Ops : x # o => at[x] \notin {"holding", "writing"}
  BY <1>1 DEF Reading, IInv, LockHeld, Rewrites
<1>5. snap[o] \in Seq(Message)
  BY DEF Reading, IInv, Types
<1>6. Content(snap[o])
  BY <1>1 DEF Content
<1>7. ASSUME NEW s \in Seq(Message), Content(s)' PROVE s = Rewritten(o)
  BY <1>1, <1>2, <1>3, <1>4, <1>7 DEF Content
<1> QED BY <1>1, <1>2, <1>3, <1>4, <1>5, <1>6, <1>7 DEF Reading, Contents

\* A message that comes between a poll and its mark is overtaken.
LEMMA SendAccounts ==
  ASSUME Reading, [Next]_vars, NEW o \in Writers, Fill(o), lost = {},
         NEW s \in Seq(Message), s = Rewritten(o)
  PROVE  Accounted(s)'
<1> DEFINE r == snap[o]
           m == [from |-> o, read |-> FALSE]
<1>0. o \in Ops /\ \A w \in Writers : w \in Ops /\ w \notin Polls
  BY MailboxAssumption DEF Ops
<1>1. /\ Accounted(r) /\ at[o] = "writing"
      /\ \A x \in Ops : x # o => at[x] \notin {"holding", "writing"}
      /\ \A x \in Ops : at'[x] = IF x = o THEN "sent" ELSE at[x]
      /\ UNCHANGED <<reader, took, delivered, bounds>>
      /\ r \in Seq(Message)
  <2>1. After(o) = "sent"
    BY DEF After
  <2> QED BY <1>0, <2>1, FillContent
<1>2. s = Append(r, m)
  BY DEF Rewritten
<1>3. m.from = o /\ m.read = FALSE
  OBVIOUS
<1> HIDE DEF m
<1>4. \A i \in DOMAIN s : (i \in DOMAIN r /\ s[i] = r[i]) \/ (i \notin DOMAIN r /\ i = Len(r) + 1 /\ s[i] = m)
  <2>1. m \in Message
    BY DEF m, Message
  <2> QED BY <1>1, <1>2, <2>1
<1>5. \A i \in DOMAIN r : i \in DOMAIN s /\ s[i] = r[i] /\ r[i].from \in Writers /\ at[r[i].from] = "sent"
  <2>1. \A i \in DOMAIN r : i \in DOMAIN s /\ s[i] = r[i]
    <3>1. m \in Message
      BY DEF m, Message
    <3> QED BY <1>1, <1>2, <3>1
  <2>2. \A i \in DOMAIN r : r[i].from \in Writers
    BY <1>1, FromWriters DEF From
  <2> QED BY <1>1, <2>1, <2>2 DEF Accounted, Signed
<1>6. \A w \in Writers : Excused(w) => Excused(w)'
  BY ExcusedStays DEF Reading
<1> HIDE DEF r
<1>7. Signed(s)'
  <2>1. \A i \in DOMAIN s : at'[s[i].from] = "sent"
    BY <1>0, <1>1, <1>3, <1>4, <1>5
  <2>2. ASSUME NEW i \in DOMAIN s, NEW j \in DOMAIN s, s[i].from = s[j].from PROVE i = j
    <3>1. \A k \in DOMAIN r : r[k].from # o
      BY <1>1, <1>5
    <3>2. i \in DOMAIN r <=> j \in DOMAIN r
      BY <1>3, <1>4, <2>2, <3>1
    <3> QED BY <1>1, <1>4, <2>2, <3>2 DEF Accounted, Signed
  <2> QED BY <2>1, <2>2 DEF Signed
<1>8. Vouched(s)'
  BY <1>1, <1>3, <1>4, <1>5, <1>6 DEF Accounted, Vouched
<1>9. Placed(s)'
  BY <1>1, <1>5 DEF Accounted, Placed
<1>10. Seen(s)'
  <2> SUFFICES ASSUME reader # "teammate", NEW q \in Polls, NEW i \in DOMAIN s, Marking(q)'
               PROVE  Excused(s[i].from)'
    BY <1>1 DEF Seen
  <2>1. q \in Ops /\ q # o
    BY <1>0 DEF Ops
  <2>2. Between(q) /\ Marking(q)
    BY <1>1, <2>1 DEF Marking, Between
  <2>3. CASE i \in DOMAIN r
    BY <1>1, <1>4, <1>5, <1>6, <2>2, <2>3 DEF Accounted, Seen
  <2>4. CASE i \notin DOMAIN r
    <3>1. o \in overtaken'
      BY <2>2 DEF Fill
    <3> QED BY <1>3, <1>4, <2>4, <3>1 DEF Excused
  <2> QED BY <2>3, <2>4
<1>11. Noted(s)'
  <2> SUFFICES ASSUME Careful', NEW i \in DOMAIN s
               PROVE  /\ delivered'[s[i].from] > 0 => s[i].read
                      /\ \A q \in Polls : at'[q] = "marked" /\ s[i].from \in InHand(q)' => s[i].read
    BY DEF Noted
  <2>1. Careful /\ delivered' = delivered /\ \A q \in Polls : InHand(q)' = InHand(q)
    BY <1>1 DEF Careful, bounds, InHand
  <2>2. \A q \in Polls : at'[q] = at[q]
    BY <1>0, <1>1 DEF Ops
  <2>3. CASE i \in DOMAIN r
    BY <1>1, <1>4, <2>1, <2>2, <2>3 DEF Accounted, Noted
  <2>4. CASE i \notin DOMAIN r
    <3>1. s[i].from = o /\ ~ delivered[o] > 0 /\ \A q \in Polls : o \notin InHand(q)
      BY <1>1, <1>3, <1>4, <2>1, <2>4 DEF Reading, Given
    <3> QED BY <2>1, <3>1
  <2> QED BY <2>3, <2>4
<1> QED BY <1>7, <1>8, <1>9, <1>10, <1>11 DEF Accounted

\* A mark marks what its poll saw, and all that its poll took.
LEMMA MarkAccounts ==
  ASSUME Reading, [Next]_vars, NEW o \in Polls, Fill(o), lost = {},
         NEW s \in Seq(Message), s = Rewritten(o)
  PROVE  Accounted(s)'
<1> DEFINE r == snap[o]
<1>0. o \in Ops /\ o \notin Writers /\ \A w \in Writers : w \in Ops /\ w # o
  BY MailboxAssumption DEF Ops
<1>1. /\ Accounted(r) /\ at[o] = "writing"
      /\ After(o) \notin {"holding", "writing", "polled"}
      /\ \A x \in Ops : at'[x] = IF x = o THEN After(o) ELSE at[x]
      /\ UNCHANGED <<reader, took, delivered, bounds>>
      /\ r \in Seq(Message)
  BY <1>0, FillContent
<1>2. After(o) # "waiting"
  BY DEF After
<1>3. s = Marked(o, r)
  BY <1>0 DEF Rewritten
<1> HIDE DEF r, After
<1>4. /\ DOMAIN s = DOMAIN r
      /\ \A i \in DOMAIN s :
            /\ s[i].from = r[i].from
            /\ r[i].read => s[i].read
            /\ s[i].read => r[i].read \/ reader # "teammate" \/ \E w \in Writers : <<i, w>> \in took[o]
            /\ reader # "teammate" \/ (\E w \in Writers : <<i, w>> \in took[o]) => s[i].read
  <2>1. r \in Seq(Message)
    BY <1>1
  <2> QED BY <2>1, <1>3, MarkedEach
<1>5. \A w \in Writers : Excused(w) => Excused(w)'
  BY ExcusedStays DEF Reading
<1>6. \A i \in DOMAIN s : s[i].from \in Writers
  BY FromWriters DEF From
<1>7. Signed(s)'
  BY <1>0, <1>1, <1>4, <1>6 DEF Accounted, Signed
<1>8. Vouched(s)'
  <2> SUFFICES ASSUME NEW i \in DOMAIN s, s[i].read PROVE Excused(s[i].from)
    BY <1>5, <1>6 DEF Vouched
  <2>1. CASE r[i].read
    BY <1>1, <1>4, <2>1 DEF Accounted, Vouched
  <2>2. CASE reader # "teammate"
    BY <1>1, <1>4, <2>2 DEF Accounted, Seen, Marking
  <2>3. CASE \E w \in Writers : <<i, w>> \in took[o]
    <3>1. PICK w \in Writers : <<i, w>> \in took[o]
      BY <2>3
    <3>2. r[i].from = w
      BY <1>1, <3>1 DEF Accounted, Placed
    <3>3. w \in InHand(o)
      BY <3>1 DEF InHand
    <3> QED BY <1>4, <3>2, <3>3 DEF Excused, Taken
  <2> QED BY <1>4, <2>1, <2>2, <2>3
<1>9. Placed(s)'
  BY <1>1, <1>4 DEF Accounted, Placed
<1>10. Seen(s)'
  <2>1. \A q \in Polls : Marking(q)' => Marking(q)
    BY <1>1, <1>2 DEF Marking, Ops
  <2> QED BY <1>1, <1>4, <1>5, <1>6, <2>1 DEF Accounted, Seen
<1>11. Noted(s)'
  <2> SUFFICES ASSUME Careful', NEW i \in DOMAIN s
               PROVE  /\ delivered'[s[i].from] > 0 => s[i].read
                      /\ \A q \in Polls : at'[q] = "marked" /\ s[i].from \in InHand(q)' => s[i].read
    BY DEF Noted
  <2>1. Careful /\ delivered' = delivered /\ \A q \in Polls : InHand(q)' = InHand(q)
    BY <1>1 DEF Careful, bounds, InHand
  <2>2. ASSUME NEW q \in Polls, at'[q] = "marked", s[i].from \in InHand(q)
        PROVE  s[i].read
    <3>1. CASE q # o
      BY <1>1, <1>4, <2>1, <2>2, <3>1 DEF Accounted, Noted, Ops
    <3>2. CASE q = o
      <4>1. PICK t \in took[o] : t[2] = s[i].from
        BY <2>2, <3>2 DEF InHand
      <4>2. t[1] \in DOMAIN r /\ r[t[1]].from = t[2] /\ t = <<t[1], t[2]>> /\ t[2] \in Writers
        BY <1>1, <4>1 DEF Accounted, Placed, Reading, ReaderTypes
      <4>3. i = t[1]
        BY <1>1, <1>4, <4>1, <4>2 DEF Accounted, Signed
      <4>4. \E w \in Writers : <<i, w>> \in took[o]
        BY <4>1, <4>2, <4>3, Zenon
      <4> QED BY <1>4, <4>4
    <3> QED BY <3>1, <3>2
  <2> QED BY <1>1, <1>4, <2>1, <2>2 DEF Accounted, Noted
<1> QED BY <1>7, <1>8, <1>9, <1>10, <1>11 DEF Accounted

LEMMA FillAccounts ==
  ASSUME Reading, [Next]_vars, NEW o \in Ops, Fill(o)
  PROVE  Contents' /\ Settled' /\ Given'
<1>1. /\ \A x \in Ops : x # o => at[x] \notin {"holding", "writing"}
      /\ After(o) \notin {"holding", "writing", "polled"}
      /\ \A x \in Ops : at'[x] = IF x = o THEN After(o) ELSE at[x]
      /\ \A s \in Seq(Message) : Content(s)' => s = Rewritten(o)
      /\ UNCHANGED <<reader, took, delivered, lost, bounds>>
      /\ at[o] = "writing"
  BY FillContent
<1>2. Contents'
  <2>1. ASSUME NEW s \in Seq(Message), lost' = {}, Content(s)' PROVE Accounted(s)'
    BY <1>1, <2>1, SendAccounts, MarkAccounts DEF Ops
  <2> QED BY <2>1 DEF Contents
<1>3. Settled'
  BY <1>1 DEF Settled
<1>4. Given'
  <2>1. \A w \in Writers : at[w] = "sent" => at'[w] = "sent"
    BY <1>1 DEF Ops
  <2>2. \A p \in Polls : InHand(p) \subseteq Writers /\ InHand(p)' = InHand(p)
    BY <1>1, InHandWriters DEF Reading, InHand
  <2> QED BY <1>1, <2>1, <2>2 DEF Reading, Given, Careful, bounds
<1> QED BY <1>2, <1>3, <1>4

\* Whoever waits for its mark hands on what is marked by then.
LEMMA HandOnAccounts ==
  ASSUME Reading, [Next]_vars, NEW p \in Polls, HandOn(p)
  PROVE  Contents' /\ Settled' /\ Given'
<1>0. /\ at \in [Ops -> Stages] /\ p \in Ops /\ \A w \in Writers : w \in Ops /\ w # p
      /\ delivered \in [Writers -> Nat] /\ InHand(p) \subseteq Writers
  BY MailboxAssumption, InHandWriters DEF Reading, IInv, Types, ReaderTypes, Ops
<1>1. /\ at[p] = "marked" /\ Goto(p, "none")
      /\ delivered' = More(delivered, InHand(p)) /\ took' = [took EXCEPT ![p] = {}]
      /\ UNCHANGED <<reader, file, snap, pending, lost, overtaken, dropped, bounds>>
  BY DEF HandOn, Deliver, history
<1>2. \A o \in Ops : at'[o] = IF o = p THEN "none" ELSE at[o]
  BY <1>0, <1>1 DEF Goto
<1>3. \A q \in Polls : took'[q] = IF q = p THEN {} ELSE took[q]
  BY <1>1 DEF Reading, ReaderTypes
<1>4. \A w \in Writers : /\ at'[w] = at[w]
                         /\ delivered'[w] > 0 => delivered[w] > 0 \/ w \in InHand(p)
                         /\ w \notin InHand(p) => delivered'[w] = delivered[w]
                         /\ delivered[w] = 0 => delivered'[w] < 2
  BY <1>0, <1>1, <1>2, MoreCounts
<1>5. \A w \in Writers : Excused(w) => Excused(w)'
  BY ExcusedStays DEF Reading
<1>6. Settled'
  BY <1>1, <1>2 DEF Reading, Settled, Messages
<1>7. Careful' <=> Careful
  BY <1>1 DEF Careful, bounds
<1>8. \A q \in Polls : InHand(q)' = IF q = p THEN {} ELSE InHand(q)
  BY <1>3 DEF InHand
<1>9. ASSUME NEW s \in Seq(Message), lost' = {}, Content(s)' PROVE Accounted(s)'
  <2>1. Accounted(s)
    <3>1. Content(s)
      BY <1>1, <1>2, <1>9 DEF Content, Messages
    <3> QED BY <1>1, <1>9, <3>1 DEF Reading, Contents
  <2>2. \A i \in DOMAIN s : s[i].from \in Writers
    BY FromWriters DEF From
  <2>3. Signed(s)' /\ Vouched(s)'
    BY <1>4, <1>5, <2>1, <2>2 DEF Accounted, Signed, Vouched
  <2>4. Placed(s)'
    BY <1>3, <2>1 DEF Accounted, Placed
  <2>5. Seen(s)'
    <3>1. \A q \in Polls : Marking(q)' => Marking(q)
      BY <1>1, <1>2 DEF Marking, Ops
    <3> QED BY <1>1, <1>5, <2>1, <2>2, <3>1 DEF Accounted, Seen
  <2>6. Noted(s)'
    <3>1. \A q \in Polls : at'[q] = "marked" => q # p /\ at[q] = "marked"
      BY <1>2 DEF Ops
    <3> QED BY <1>1, <1>4, <1>7, <1>8, <2>1, <2>2, <3>1 DEF Accounted, Noted
  <2> QED BY <2>3, <2>4, <2>5, <2>6 DEF Accounted
<1>10. Given'
  <2> SUFFICES ASSUME Careful', lost' = {}
               PROVE  /\ \A w \in Writers : delivered'[w] < 2 /\ (delivered'[w] > 0 => at'[w] = "sent")
                      /\ \A q \in Polls : \A w \in InHand(q)' : delivered'[w] = 0 /\ at'[w] = "sent"
    BY DEF Given
  <2>1. /\ \A w \in Writers : delivered[w] < 2 /\ (delivered[w] > 0 => at[w] = "sent")
        /\ \A w \in InHand(p) : delivered[w] = 0 /\ at[w] = "sent"
    BY <1>1, <1>7 DEF Reading, Given
  <2>2. \A q \in Polls : q # p => InHand(q) = {}
    <3>1. \A q \in Polls : q # p => at[q] = "none"
      BY <1>1, <1>7 DEF Reading, Hands, Careful
    <3> QED BY <3>1 DEF Reading, Hands, InHand
  <2>3. \A q \in Polls : InHand(q)' = {}
    BY <1>8, <2>2
  <2> QED BY <1>0, <1>4, <2>1, <2>3
<1> QED BY <1>6, <1>9, <1>10 DEF Contents

-----------------------------------------------------------------------------
LEMMA InitReading == Init => Reading
<1> SUFFICES ASSUME Init PROVE Reading
  OBVIOUS
<1>1. ReaderTypes
  BY DEF Init, ReaderTypes
<1>2. Contents
  <2> SUFFICES ASSUME NEW s \in Seq(Message), Content(s) PROVE Accounted(s)
    BY DEF Contents
  <2>1. s = <<>>
    BY DEF Init, Content, Messages, Absent
  <2>2. DOMAIN s = {} /\ \A p \in Polls : took[p] = {}
    BY <2>1 DEF Init
  <2> QED BY <2>2 DEF Accounted, Signed, Vouched, Placed, Seen, Noted
<1>3. Settled /\ Hands
  BY DEF Init, Settled, Hands, Ops
<1>4. Given
  BY DEF Init, Given, InHand
<1> QED BY <1>1, <1>2, <1>3, <1>4, InitInv DEF Reading

LEMMA NextReading == Reading /\ [Next]_vars => Reading'
<1> SUFFICES ASSUME Reading, [Next]_vars PROVE Reading'
  OBVIOUS
<1>1. IInv' /\ ReaderTypes' /\ Hands'
  BY StepInv, NextReaderTypes, NextHands DEF Reading
<1>2. ASSUME NEW w \in Writers, Ensure(w) \/ FillNew(w) PROVE Contents' /\ Settled' /\ Given'
  BY <1>2, CreatingFrame, FrameKeeps
<1>3. ASSUME NEW o \in Ops, Lock(o) \/ NoLock(o) \/ Truncate(o) \/ Fill(o)
      PROVE  Contents' /\ Settled' /\ Given'
  <2>1. CASE Lock(o) /\ NoChange(o)
    BY <2>1, NoChangeAccounts
  <2>2. CASE Truncate(o) \/ NoLock(o) \/ (Lock(o) /\ ~ NoChange(o))
    BY <2>2, LockingFrame, FrameKeeps
  <2>3. CASE Fill(o)
    BY <2>3, FillAccounts
  <2> QED BY <1>3, <2>1, <2>2, <2>3
<1>4. ASSUME NEW p \in Polls, Poll(p) \/ HandOn(p) PROVE Contents' /\ Settled' /\ Given'
  BY <1>4, PollAccounts, HandOnAccounts
<1>5. ASSUME IdleEffect \/ TurnBegins \/ TurnEnds \/ UNCHANGED vars \/ \E p \in Polls : HandOver(p)
      PROVE  Contents' /\ Settled' /\ Given'
  <2>1. Frame
    BY <1>5, SessionFrame
  <2> QED BY <2>1, FrameKeeps
<1>6. ASSUME ReaderDies \/ \E w \in Writers : WriterDies(w)
      PROVE  Contents' /\ Settled' /\ Given'
  <2>1. Frame
    BY <1>6, DyingFrame
  <2> QED BY <2>1, FrameKeeps
<1>7. Contents' /\ Settled' /\ Given'
  BY <1>2, <1>3, <1>4, <1>5, <1>6 DEF Next
<1> QED BY <1>1, <1>7 DEF Reading

(* A message that is marked as read was given to its agent, is kept for    *)
(* it, was in its hands when it died, or came between a poll and the mark  *)
(* of that poll: see ReadMeansTaken.  The marks of teammateMailbox.ts read *)
(* the file again and mark by place, or everything.                        *)
THEOREM ReadIsTaken == Spec => []ReadMeansTaken
<1>1. ASSUME Reading, lost = {}, NEW i \in DOMAIN Messages, Messages[i].read
      PROVE  Excused(Messages[i].from)
  <2>1. Messages \in Seq(Message) /\ Messages # <<>>
    BY <1>1 DEF Reading, IInv, Types, Messages
  <2>2. Content(Messages)
    BY <1>1, <2>1 DEF Reading, Settled, Content
  <2> QED BY <1>1, <2>1, <2>2 DEF Reading, Contents, Accounted, Vouched
<1>2. Reading => ReadMeansTaken
  BY <1>1 DEF ReadMeansTaken, Excused
<1> QED BY <1>2, InitReading, NextReading, PTL DEF Spec

(* Readers that wait for their mark give each message once: see            *)
(* DeliveredOnce.                                                          *)
THEOREM GivenOnce == Spec => []DeliveredOnce
<1>1. Reading => DeliveredOnce
  BY DEF Reading, Given, Careful, DeliveredOnce
<1> QED BY <1>1, InitReading, NextReading, PTL DEF Spec
=============================================================================
