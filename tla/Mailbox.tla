------------------------------- MODULE Mailbox -------------------------------
(***************************************************************************)
(* The inbox file of an agent: utils/teammateMailbox.ts, and whoever reads *)
(* it.  A session of its own polls it (hooks/useInboxPoller.ts), hands the *)
(* messages to the model or keeps them in memory while it is busy, and     *)
(* marks the whole file as read.  A teammate inside a process takes one    *)
(* message at a time (utils/swarm/inProcessRunner.ts).  The headless loop  *)
(* marks first and hands on afterwards (cli/print.ts).                     *)
(*                                                                         *)
(* Writers and marks rewrite the file under a lock: read, truncate, fill.  *)
(* Polls read without it, and find nothing in a file that is half written. *)
(* A lock may not be had in time; a process may die at any step and leaves *)
(* what it had written; its lock expires.                                  *)
(*                                                                         *)
(* Left out: what the messages say, except that shutdown requests and the  *)
(* leader come first for a teammate; the routing of permission messages to *)
(* their dialogs; attachments.ts, whose reader of the inbox returns before *)
(* it does anything; a lock that expires under a live holder.              *)
(***************************************************************************)
EXTENDS Naturals, Sequences, FiniteSets

CONSTANTS
    Writers,        \* processes that send one message each, named after them
    Urgency,        \* 1 for a shutdown request, 2 for the leader's, 3 for a peer's
    Polls,          \* polls, with their marks, that a session may have under way
    NoOne,
    MaxFailures,    \* bound: locks that cannot be had
    MaxDeaths       \* bound: processes that die

ASSUME MailboxAssumption ==
    /\ Urgency \in [Writers -> 1..3]
    /\ Writers \cap Polls = {}
    /\ NoOne \notin Writers \cup Polls
    /\ {MaxFailures, MaxDeaths} \subseteq Nat

Ops == Writers \cup Polls

VARIABLES
    reader,         \* "session", "teammate" or "headless"
    file,           \* the inbox: its messages, and whether it can be parsed
    lock,           \* who holds the lock
    at,             \* stage of each writer and poll
    snap,           \* what each has read under the lock
    took,           \* what each poll found: places in the file and messages
    sawBusy,        \* for each poll of a session: isLoading when it began
    busy,           \* isLoading
    pending,        \* AppState.inbox: how often each message is there
    delivered,      \* how often the agent was given each message, up to 2
    failed, died,   \* bounds so far
    lost,           \* history: messages of a file that was destroyed
    overtaken,      \* history: messages that came between a poll and its mark
    dropped         \* history: messages that a reader had when it died

session == <<took, sawBusy, busy, pending, delivered>>
bounds == <<failed, died>>
history == <<lost, overtaken, dropped>>
vars == <<reader, file, lock, at, snap, session, bounds, history>>

Absent == [state |-> "absent", msgs |-> <<>>]
Torn == [state |-> "torn", msgs |-> <<>>]
Whole(s) == [state |-> "whole", msgs |-> s]

\* readMailbox: a file that cannot be parsed is an empty inbox.
Messages == file.msgs
From(s) == {s[i].from : i \in DOMAIN s}
Unread(s) == {i \in DOMAIN s : ~ s[i].read}
Places(s, I) == {<<i, s[i].from>> : i \in I}

Init ==
    /\ reader \in {"session", "teammate", "headless"}
    /\ file = Absent
    /\ lock = NoOne
    /\ at = [o \in Ops |-> "none"]
    /\ snap = [o \in Ops |-> <<>>]
    /\ took = [p \in Polls |-> {}]
    /\ sawBusy = [p \in Polls |-> FALSE]
    /\ busy = FALSE
    /\ pending = [w \in Writers |-> 0]
    /\ delivered = [w \in Writers |-> 0]
    /\ failed = 0 /\ died = 0
    /\ lost = {} /\ overtaken = {} /\ dropped = {}

Goto(o, s) == at' = [at EXCEPT ![o] = s]

\* One more, for each of these messages.
More(count, ws) == [w \in Writers |->
    IF w \in ws /\ count[w] < 2 THEN count[w] + 1 ELSE count[w]]

-----------------------------------------------------------------------------
(* writeToMailbox *)

\* The file is made before it can be locked: exclusively, and filled afterwards.
Ensure(w) ==
    /\ at[w] = "none"
    /\ IF file = Absent THEN Goto(w, "creating") /\ file' = Torn
                        ELSE Goto(w, "waiting") /\ UNCHANGED file
    /\ UNCHANGED <<reader, lock, snap, session, bounds, history>>

\* The two brackets go to the start of whatever the file holds by then.
FillNew(w) ==
    /\ at[w] = "creating"
    /\ Goto(w, "waiting")
    /\ file' = IF Messages = <<>> THEN Whole(<<>>) ELSE Torn
    /\ lost' = lost \cup From(Messages)
    /\ UNCHANGED <<reader, lock, snap, session, bounds, overtaken, dropped>>

-----------------------------------------------------------------------------
(* Under the lock, for writers and marks *)

\* Mutants: everything is marked, nothing is marked.
MarkedAll(p, s) == [i \in DOMAIN s |-> [s[i] EXCEPT !.read = TRUE]]
Unmarked(p, s) == s

\* A teammate marks the place where it found its message, unless that is read by
\* now or not there; the others mark everything there is.
Marked(p, s) ==
    IF reader = "teammate"
    THEN [i \in DOMAIN s |-> IF \E w \in Writers : <<i, w>> \in took[p]
                             THEN [s[i] EXCEPT !.read = TRUE] ELSE s[i]]
    ELSE [i \in DOMAIN s |-> [s[i] EXCEPT !.read = TRUE]]

\* What the operation makes of the messages it read.
Rewritten(o) == IF o \in Writers THEN Append(snap[o], [from |-> o, read |-> FALSE])
                                 ELSE Marked(o, snap[o])

\* After its mark a session is done; the others have the messages to hand on.
After(o) == IF o \in Writers THEN "sent"
            ELSE IF reader = "session" THEN "none" ELSE "marked"

\* The retries are used up: the message is dropped, the mark is not made.
NoLock(o) ==
    /\ at[o] = "waiting" /\ lock # NoOne
    /\ failed < MaxFailures
    /\ failed' = failed + 1
    /\ Goto(o, IF o \in Writers THEN "gone" ELSE After(o))
    /\ UNCHANGED <<reader, file, lock, snap, session, died, history>>

\* A mark that finds nothing to change.
NoChange(o) ==
    /\ o \in Polls
    /\ Messages = <<>> \/ (reader = "teammate" /\ Marked(o, Messages) = Messages)

\* Mutant: nobody waits for the lock.
AlwaysFree == TRUE
Free == lock = NoOne

\* With the lock the file is read again.
Lock(o) ==
    /\ at[o] = "waiting" /\ Free
    /\ IF NoChange(o) THEN Goto(o, After(o)) /\ UNCHANGED <<snap, lock>>
       ELSE Goto(o, "holding") /\ lock' = o /\ snap' = [snap EXCEPT ![o] = Messages]
    /\ UNCHANGED <<reader, file, session, bounds, history>>

Truncate(o) ==
    /\ at[o] = "holding"
    /\ file' = Torn
    /\ Goto(o, "writing")
    /\ UNCHANGED <<reader, lock, snap, session, bounds, history>>

\* A poll that has read the file and not yet read it again under the lock.
Between(p) == at[p] \in {"polled", "waiting"}

\* Fill the file, release the lock.
Fill(o) ==
    /\ at[o] = "writing"
    /\ file' = Whole(Rewritten(o))
    /\ snap' = [snap EXCEPT ![o] = <<>>]
    /\ lock' = NoOne
    /\ Goto(o, After(o))
    /\ overtaken' = overtaken \cup
           (IF o \in Writers /\ reader # "teammate" /\ \E p \in Polls : Between(p)
            THEN {o} ELSE {})
    /\ UNCHANGED <<reader, session, bounds, lost, dropped>>

-----------------------------------------------------------------------------
(* The readers *)

\* A teammate takes a shutdown request first, then the leader's messages, then
\* the first of the others.
Chosen(s) == {i \in Unread(s) : \A j \in Unread(s) \ {i} :
    \/ Urgency[s[i].from] < Urgency[s[j].from]
    \/ Urgency[s[i].from] = Urgency[s[j].from] /\ i < j}

Found == IF reader = "teammate" THEN Chosen(Messages) ELSE Unread(Messages)

\* Only a session polls again while another poll is under way.
Poll(p) ==
    /\ at[p] = "none"
    /\ reader = "session" \/ \A q \in Polls : at[q] = "none"
    /\ Unread(Messages) # {}
    /\ took' = [took EXCEPT ![p] = Places(Messages, Found)]
    /\ sawBusy' = [sawBusy EXCEPT ![p] = busy]
    /\ Goto(p, IF reader = "session" THEN "polled" ELSE "waiting")
    /\ UNCHANGED <<reader, file, lock, snap, busy, pending, delivered, bounds, history>>

InHand(p) == {t[2] : t \in took[p]}
Deliver(ws) == delivered' = More(delivered, ws)

\* An idle session is given the messages; one that refuses them, or was busy when
\* the poll began, has them queued.  A session refuses when a query runs that it
\* has not drawn yet, or is about to.
HandOver(p) ==
    /\ at[p] = "polled"
    /\ \/ /\ ~sawBusy[p] /\ ~busy
          /\ Deliver(InHand(p))
          /\ busy' = TRUE
          /\ UNCHANGED pending
       \/ /\ pending' = More(pending, InHand(p))
          /\ busy' = (busy \/ ~sawBusy[p])
          /\ UNCHANGED delivered
    /\ Goto(p, "waiting")
    /\ took' = [took EXCEPT ![p] = {}]
    /\ sawBusy' = [sawBusy EXCEPT ![p] = FALSE]
    /\ UNCHANGED <<reader, file, lock, snap, bounds, history>>

Emptied == [w \in Writers |-> 0]

\* Mutant: the queue is cleared whether the session takes the messages or not.
EmptiedAnyway == Emptied
Refused == pending

\* When the session is idle, what is queued is submitted, all of it or nothing.
IdleEffect ==
    /\ reader = "session" /\ ~busy
    /\ \E w \in Writers : pending[w] > 0
    /\ busy' = TRUE
    /\ \/ /\ Deliver({w \in Writers : pending[w] > 0})
          /\ pending' = Emptied
       \/ pending' = Refused /\ UNCHANGED delivered
    /\ UNCHANGED <<reader, file, lock, at, snap, took, sawBusy, bounds, history>>

TurnBegins ==
    /\ reader = "session" /\ ~busy
    /\ busy' = TRUE
    /\ UNCHANGED <<reader, file, lock, at, snap, took, sawBusy, pending, delivered,
                   bounds, history>>

TurnEnds ==
    /\ busy
    /\ busy' = FALSE
    /\ UNCHANGED <<reader, file, lock, at, snap, took, sawBusy, pending, delivered,
                   bounds, history>>

\* The teammate returns its message; the headless loop queues what it polled.
HandOn(p) ==
    /\ at[p] = "marked"
    /\ Deliver(InHand(p))
    /\ Goto(p, "none")
    /\ took' = [took EXCEPT ![p] = {}]
    /\ UNCHANGED <<reader, file, lock, snap, sawBusy, busy, pending, bounds, history>>

-----------------------------------------------------------------------------
(* Processes that die *)

\* What a rewrite under way had read is destroyed with the file.
Destroyed(O) == UNION {From(snap[o]) : o \in {x \in O : at[x] = "writing"}}
Expire(O) == lock' = IF lock \in O THEN NoOne ELSE lock

WriterDies(w) ==
    /\ at[w] \notin {"none", "sent", "gone"}
    /\ died < MaxDeaths
    /\ died' = died + 1
    /\ Goto(w, "gone")
    /\ lost' = lost \cup Destroyed({w})
    /\ Expire({w})
    /\ UNCHANGED <<reader, file, snap, session, failed, overtaken, dropped>>

\* The agent's process dies, and is started again with an empty memory.
ReaderDies ==
    /\ died < MaxDeaths
    /\ died' = died + 1
    /\ at' = [o \in Ops |-> IF o \in Polls THEN "none" ELSE at[o]]
    /\ lost' = lost \cup Destroyed(Polls)
    /\ dropped' = dropped \cup {w \in Writers : pending[w] > 0} \cup UNION {InHand(p) : p \in Polls}
    /\ Expire(Polls)
    /\ took' = [p \in Polls |-> {}]
    /\ busy' = FALSE
    /\ pending' = Emptied
    /\ UNCHANGED <<reader, file, snap, sawBusy, delivered, failed, overtaken>>

-----------------------------------------------------------------------------
Locked(o) == Lock(o) \/ Truncate(o) \/ Fill(o)
Read(p) == Poll(p) \/ HandOver(p) \/ HandOn(p)

Next ==
    \/ \E w \in Writers : Ensure(w) \/ FillNew(w) \/ WriterDies(w)
    \/ \E o \in Ops : Lock(o) \/ NoLock(o) \/ Truncate(o) \/ Fill(o)
    \/ \E p \in Polls : Poll(p) \/ HandOver(p) \/ HandOn(p)
    \/ IdleEffect \/ TurnBegins \/ TurnEnds
    \/ ReaderDies

Spec == Init /\ [][Next]_vars

\* Polls come again and again, whoever waits for the lock retries, turns end and
\* an idle session is not refused for ever.
FairSpec ==
    /\ Spec
    /\ \A w \in Writers : WF_vars(FillNew(w))
    /\ \A o \in Ops : WF_vars(Locked(o))
    /\ \A p \in Polls : WF_vars(Read(p))
    /\ WF_vars(TurnEnds)
    /\ SF_vars(IdleEffect /\ pending' = Emptied)

-----------------------------------------------------------------------------
(* Properties *)

Sent == {w \in Writers : at[w] = "sent"}

\* No message that was sent disappears from the inbox, however many write and
\* mark at once, unless a process died while it filled the file or a late creator
\* wrote over it.
NoneVanish ==
    (\A o \in Ops : at[o] # "writing") => Sent \subseteq From(Messages) \cup lost

\* A message that is marked as read was given to the agent, is kept for it, or
\* the agent had it when it died.
Taken(w) ==
    \/ delivered[w] > 0 \/ pending[w] > 0
    \/ \E p \in Polls : w \in InHand(p)
    \/ w \in dropped

\* "Mark messages as read only after they have been successfully delivered or
\* reliably queued": no message is marked that the poll never saw.
NonePassedOver ==
    reader = "session" /\ lost = {} =>
        \A i \in DOMAIN Messages : Messages[i].read => Taken(Messages[i].from)

\* Only a message that came while a poll of a session was under way is passed over:
\* the first message, the last one before a restart and one that is queued while
\* the agent is busy are not, and a teammate passes over none that it did not take.
ReadMeansTaken ==
    lost = {} => \A i \in DOMAIN Messages : Messages[i].read =>
        Taken(Messages[i].from) \/ Messages[i].from \in overtaken

\* Readers that wait for their mark give each message once, unless they could not
\* mark it or died.
DeliveredOnce ==
    (reader # "session" /\ failed = 0 /\ died = 0 /\ lost = {})
        => \A w \in Writers : delivered[w] < 2

\* Whatever was sent is given to the agent, with the same exceptions; once a
\* message was destroyed the places of the others have changed.
Arrives ==
    \A w \in Writers :
        w \in Sent ~> (delivered[w] > 0 \/ w \in overtaken \cup dropped \/ lost # {})
==============================================================================
