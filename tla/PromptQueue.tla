----------------------------- MODULE PromptQueue -----------------------------
(***************************************************************************)
(* How commands reach the model in the terminal UI: the queue of commands  *)
(* (utils/messageQueueManager.ts), the guard on the query loop             *)
(* (utils/QueryGuard.ts), the turns that executeUserInput and onQuery run, *)
(* and the user who submits, edits the queue and presses Escape.           *)
(*                                                                         *)
(* A turn is one executeUserInput, or one onQuery called directly.  It is  *)
(* an async function, and a step of the module is what it does between two *)
(* awaits; the promise chain from the end of onQuery to the end of         *)
(* executeUserInput is one step, for the UI renders in a later task of the *)
(* event loop.                                                             *)
(*                                                                         *)
(* Left out: local JSX commands and nextInput, the immediate commands, the *)
(* query sent to the background, and the keys that do nothing.             *)
(***************************************************************************)
EXTENDS Integers, Sequences, FiniteSets, SequencesExt, Selection

CONSTANTS
    Commands,       \* what the user, teammates and tasks hand in
    Kind,           \* of each command
    MaxTurns,       \* bound: turns that are begun
    MaxLost         \* bound: an error may happen while fewer are lost

Kinds == {"prompt", "bash", "slash",    \* typed by the user
          "cron",                       \* a scheduled prompt: isMeta
          "note", "subnote",            \* task notifications: for the main
                                        \* thread, for a subagent
          "mail"}                       \* a teammate's message

ASSUME PromptQueueAssumption ==
    /\ Kind \in [Commands -> Kinds]
    /\ MaxTurns \in Nat
    /\ MaxLost \in Nat

Turns == 1..MaxTurns
NoTurn == 0

VARIABLES
    status, generation,     \* the guard
    queue,                  \* queued commands
    stage,                  \* of each turn
    items,                  \* the commands that each turn is processing
    gen,                    \* the generation that each turn was given
    cut,                    \* why the controller of each turn was aborted
    direct,                 \* the turn is a direct onQuery
    drain,                  \* queued commands that the turn is attaching
    controller,             \* whose abort controller the UI holds
    input,                  \* commands put back in the input box
    recall,                 \* the user's history of typed commands
    arrived,                \* history: commands that were handed in
    heard,                  \* history: times each command was put to the model
    gone,                   \* history: commands that were done or discarded
    lost,                   \* history: their turn or their attachment threw
    raced                   \* history: taken elsewhere while being attached

guard == <<status, generation>>
turns == <<stage, items, gen, cut, direct, drain>>
user == <<input, recall>>
ghosts == <<arrived, heard, gone, lost, raced>>
vars == <<guard, queue, turns, controller, user, ghosts>>

Typed == {"prompt", "bash", "slash"}
Element == [of: Commands, mode: Kinds, copy: Nat]
First(c) == [of |-> c, mode |-> Kind[c], copy |-> 1]
Elements(s) == {s[i] : i \in DOMAIN s}
Named(S) == {e.of : e \in S}

Meta(e) == Kind[e.of] = "cron"
MainThread(e) == e.mode # "subnote"
Editable(e) == e.mode \notin {"note", "subnote"} /\ ~Meta(e)
Later(e) == e.mode \in {"note", "subnote"} \/ Meta(e)    \* else 'next'
Mode(e) == IF e.mode \in {"slash", "cron"} THEN "prompt" ELSE e.mode

Without(s, S) == Selected(s, {i \in DOMAIN s : s[i] \notin S})

Init ==
    /\ status = "idle"
    /\ generation = 0
    /\ queue = <<>>
    /\ stage = [t \in Turns |-> "none"]
    /\ items = [t \in Turns |-> <<>>]
    /\ gen = [t \in Turns |-> 0]
    /\ cut = [t \in Turns |-> "no"]
    /\ direct = [t \in Turns |-> FALSE]
    /\ drain = [t \in Turns |-> {}]
    /\ controller = NoTurn
    /\ input = {}
    /\ recall = <<>>
    /\ arrived = {}
    /\ heard = [c \in Commands |-> 0]
    /\ gone = {}
    /\ lost = {}
    /\ raced = {}

-----------------------------------------------------------------------------
(* The guard.                                                              *)

Active == status # "idle"

(* reserve and cancelReservation, as functions of the status. *)
Reserved(s) == IF s = "idle" THEN "dispatching" ELSE s
Released(s) == IF s = "dispatching" THEN "idle" ELSE s

(* tryStart returns a generation, not null. *)
MayStart == status # "running"

(* end(gen[t]) returns true. *)
Ends(t) == generation = gen[t] /\ status = "running"

(* Mutant: the reservation of a turn that failed is kept. *)
KeepsReservation(t) == status

(* The status after the last finally of executeUserInput. *)
AfterFinally(t) == Released(status)

-----------------------------------------------------------------------------
(* Commands come in.                                                       *)

Hear(S) == heard' = [c \in Commands |-> IF c \in S THEN heard[c] + 1 ELSE heard[c]]
Lose(S) == Cardinality(lost) < MaxLost /\ lost' = lost \cup Named(S)
Arrive(c) == c \notin arrived /\ arrived' = arrived \cup {c}

IsFresh(t) == stage[t] = "none" /\ \A u \in Turns : stage[u] = "none" => t <= u

(* executeUserInput, up to its first await. *)
Begin(t, es) ==
    /\ IsFresh(t)
    /\ status' = Reserved(status)
    /\ stage' = [stage EXCEPT ![t] = "processing"]
    /\ items' = [items EXCEPT ![t] = es]
    /\ controller' = t
    /\ UNCHANGED <<generation, gen, cut, direct, drain>>

(* A prompt that finds a turn under way may stop it, if all its tools can  *)
(* be interrupted.                                                         *)
MayInterrupt ==
    \/ UNCHANGED cut
    \/ /\ controller # NoTurn
       /\ \E t \in Turns : stage[t] = "running"
       /\ cut' = [cut EXCEPT ![controller] = IF @ = "no" THEN "interrupt" ELSE @]

Submit(c) ==
    /\ Kind[c] \in Typed
    /\ Arrive(c)
    /\ recall' = Append(recall, c)
    /\ \/ /\ Active
          /\ MayInterrupt
          /\ queue' = Append(queue, First(c))
          /\ UNCHANGED <<guard, stage, items, gen, direct, drain, controller>>
       \/ /\ ~Active
          /\ \E t \in Turns : Begin(t, <<First(c)>>)
          /\ UNCHANGED queue
    /\ UNCHANGED <<input, heard, gone, lost, raced>>

Notify(c) ==
    /\ Kind[c] \in {"cron", "note", "subnote"}
    /\ Arrive(c)
    /\ queue' = Append(queue, First(c))
    /\ UNCHANGED <<guard, turns, controller, user, heard, gone, lost, raced>>

(* A teammate's message goes to the model at once, or is kept by its       *)
(* sender and tried again.                                                 *)
IncomingPrompt(c) ==
    /\ Kind[c] = "mail"
    /\ Arrive(c)
    /\ ~Active
    /\ \A e \in Elements(queue) : Mode(e) \notin {"prompt", "bash"}
    /\ \E t \in Turns :
          /\ IsFresh(t)
          /\ controller' = t
          /\ direct' = [direct EXCEPT ![t] = TRUE]
          /\ stage' = [stage EXCEPT ![t] = "running"]
          /\ gen' = [gen EXCEPT ![t] = generation + 1]
    /\ status' = "running"
    /\ generation' = generation + 1
    /\ Hear({c})
    /\ UNCHANGED <<queue, items, cut, drain, user, gone, lost, raced>>

-----------------------------------------------------------------------------
(* The queue processor.                                                    *)

(* Mutant: looks at the commands of subagents too. *)
PeekAnything == {i \in DOMAIN queue : \A j \in DOMAIN queue :
    \/ Later(queue[j]) /\ ~Later(queue[i])
    \/ Later(queue[j]) = Later(queue[i]) /\ i <= j}

(* The first of the most urgent commands for the main thread. *)
Peek ==
    LET main == {i \in DOMAIN queue : MainThread(queue[i])}
    IN  {i \in main : \A j \in main :
            \/ Later(queue[j]) /\ ~Later(queue[i])
            \/ Later(queue[j]) = Later(queue[i]) /\ i <= j}

(* A slash or bash command goes alone, others with all of their mode. *)
Batch(next) ==
    IF next.mode \in {"slash", "bash"} THEN <<next>>
    ELSE Selected(queue, {i \in DOMAIN queue : /\ MainThread(queue[i])
                                               /\ queue[i].mode # "slash"
                                               /\ Mode(queue[i]) = Mode(next)})

Overtaken(S) == raced' = raced \cup
    (Named(S) \cap Named(UNION {drain[t] : t \in Turns}))

ProcessQueue ==
    /\ ~Active
    /\ \E i \in Peek, t \in Turns :
          LET batch == Batch(queue[i])
          IN  /\ batch # <<>>
              /\ queue' = Without(queue, Elements(batch))
              /\ Begin(t, batch)
              /\ Overtaken(Elements(batch))
    /\ UNCHANGED <<user, arrived, heard, gone, lost>>

-----------------------------------------------------------------------------
(* A turn.                                                                 *)

(* A turn has done with the commands it was begun with. *)
Leave(t, s) ==
    /\ stage' = [stage EXCEPT ![t] = s]
    /\ items' = [items EXCEPT ![t] = <<>>]

(* processUserInput throws: nobody queues the commands again. *)
Fail(t) ==
    /\ stage[t] = "processing"
    /\ Leave(t, "over")
    /\ Lose(Elements(items[t]))
    /\ status' = AfterFinally(t)
    /\ UNCHANGED <<generation, queue, gen, cut, direct, drain, controller,
                   user, arrived, heard, gone, raced>>

(* A slash command that has nothing for the model. *)
RunLocally(t) ==
    /\ stage[t] = "processing"
    /\ items[t][1].mode = "slash"
    /\ Leave(t, "over")
    /\ gone' = gone \cup Named(Elements(items[t]))
    /\ status' = AfterFinally(t)
    /\ controller' = NoTurn
    /\ UNCHANGED <<generation, queue, gen, cut, direct, drain, user,
                   arrived, heard, lost, raced>>

(* onQuery takes the guard and puts the messages in the conversation. *)
StartQuery(t) ==
    /\ stage[t] = "processing"
    /\ MayStart
    /\ status' = "running"
    /\ generation' = generation + 1
    /\ gen' = [gen EXCEPT ![t] = generation + 1]
    /\ Leave(t, "running")
    /\ Hear(Named(Elements(items[t])))
    /\ UNCHANGED <<queue, cut, direct, drain, controller, user,
                   arrived, gone, lost, raced>>

Again(e) == [of |-> e.of, mode |-> "prompt", copy |-> e.copy + 1]

(* Mutant: drops what it cannot start. *)
RequeuedNone(es) == <<>>

(* The texts of the messages, as prompts; meta messages are dropped. *)
Requeued(es) ==
    LET kept == {i \in DOMAIN es : ~Meta(es[i])}
    IN  Selected([i \in DOMAIN es |-> Again(es[i])], kept)

(* onQuery finds a query running. *)
Requeue(t) ==
    /\ stage[t] = "processing"
    /\ ~MayStart
    /\ queue' = queue \o Requeued(items[t])
    /\ gone' = gone \cup {e.of : e \in {x \in Elements(items[t]) : Meta(x)}}
    /\ Leave(t, "over")
    /\ status' = AfterFinally(t)
    /\ UNCHANGED <<generation, gen, cut, direct, drain, controller, user,
                   arrived, heard, lost, raced>>

(* After a round of tools the query loop looks for commands to attach, ... *)
TakeQueued(t) ==
    /\ stage[t] = "running"
    /\ cut[t] = "no"
    /\ \E slept \in BOOLEAN :
          LET taken == {e \in Elements(queue) :
                          /\ MainThread(e) /\ e.mode \notin {"slash", "bash"}
                          /\ slept \/ ~Later(e)}
          IN  /\ taken # {}
              /\ drain' = [drain EXCEPT ![t] = taken]
              /\ Overtaken(taken)
    /\ stage' = [stage EXCEPT ![t] = "attaching"]
    /\ UNCHANGED <<guard, queue, items, gen, cut, direct, controller, user,
                   arrived, heard, gone, lost>>

(* The attachments of S go to the model, or making them throws and there   *)
(* are none: who asked is not told, and takes S out of the queue.          *)
AttachmentsOf(S) ==
    \/ Hear(Named(S)) /\ UNCHANGED lost
    \/ Lose(S) /\ UNCHANGED heard

(* Mutant: leaves in the queue what it attached. *)
LeftInQueue(t) == queue

LeftAfterDrain(t) == Without(queue, drain[t])

(* ... and when the attachments are ready takes those out of the queue. *)
Attach(t) ==
    /\ stage[t] = "attaching"
    /\ AttachmentsOf(drain[t])
    /\ queue' = LeftAfterDrain(t)
    /\ drain' = [drain EXCEPT ![t] = {}]
    /\ stage' = [stage EXCEPT ![t] = "running"]
    /\ UNCHANGED <<guard, items, gen, cut, direct, controller, user,
                   arrived, gone, raced>>

(* The loop of the subagent attaches its notifications. *)
SubagentTakes ==
    LET theirs == {e \in Elements(queue) : ~MainThread(e)}
    IN  /\ theirs # {}
        /\ AttachmentsOf(theirs)
        /\ queue' = Without(queue, theirs)
        /\ UNCHANGED <<guard, turns, controller, user, arrived, gone, raced>>

(* The prompt of a turn that the user stopped before it said anything.     *)
AutoRestore(t, s) ==
    IF cut[t] = "user-cancel" /\ s = "idle" /\ input = {} /\ queue = <<>>
    THEN \/ UNCHANGED user                      \* there was a response
         \/ /\ recall # <<>>
            /\ recall' = Front(recall)
            /\ UNCHANGED input                  \* it is set to ''
    ELSE UNCHANGED user

(* The query returns, or throws: the finally of onQuery, and of the        *)
(* executeUserInput that called it.                                        *)
Finish(t) ==
    /\ stage[t] = "running"
    /\ stage' = [stage EXCEPT ![t] = "over"]
    /\ gen' = [gen EXCEPT ![t] = 0]             \* its locals are gone
    /\ direct' = [direct EXCEPT ![t] = FALSE]
    /\ LET s == IF Ends(t) THEN "idle" ELSE status
       IN  /\ controller' = IF Ends(t) THEN NoTurn ELSE controller
           /\ AutoRestore(t, s)
           /\ status' = IF direct[t] THEN s ELSE Released(s)
    /\ UNCHANGED <<generation, queue, items, cut, drain, ghosts>>

-----------------------------------------------------------------------------
(* The user at the keyboard.                                               *)

ForceEnd ==
    /\ status' = "idle"
    /\ generation' = IF Active THEN generation + 1 ELSE generation

(* Escape or ctrl+c while the controller of a turn is there to be aborted. *)
Cancel ==
    /\ controller # NoTurn
    /\ cut[controller] = "no"
    /\ ForceEnd
    /\ cut' = [cut EXCEPT ![controller] = "user-cancel"]
    /\ controller' = NoTurn
    /\ UNCHANGED <<queue, stage, items, gen, direct, drain, user, ghosts>>

(* Up, or Escape when there is nothing to abort: the queued commands go    *)
(* back to the input box.                                                  *)
PopEditable ==
    LET popped == {e \in Elements(queue) : Editable(e)}
    IN  /\ popped # {}
        /\ queue' = Without(queue, popped)
        /\ input' = input \cup Named(popped)
        /\ Overtaken(popped)
        /\ UNCHANGED <<guard, turns, controller, recall, arrived, heard, gone, lost>>

(* The user stops all background agents: the queue is cleared, and one     *)
(* notification c says so.                                                 *)
KillAgents(c) ==
    /\ Kind[c] = "note"
    /\ Arrive(c)
    /\ queue' = <<First(c)>>
    /\ gone' = gone \cup Named(Elements(queue))
    /\ Overtaken(Elements(queue))
    /\ UNCHANGED <<guard, turns, controller, user, heard, lost>>

-----------------------------------------------------------------------------
Turn(t) == Fail(t) \/ RunLocally(t) \/ StartQuery(t) \/ Requeue(t)
              \/ TakeQueued(t) \/ Attach(t) \/ Finish(t)

Next ==
    \/ \E c \in Commands : Submit(c) \/ Notify(c) \/ IncomingPrompt(c) \/ KillAgents(c)
    \/ \E t \in Turns : Turn(t)
    \/ ProcessQueue \/ SubagentTakes \/ Cancel \/ PopEditable

Spec == Init /\ [][Next]_vars

(* Processing an input, attaching and a query come to an end, and the UI   *)
(* renders; what users, tasks and teammates do is up to them.              *)
FairSpec ==
    /\ Spec
    /\ WF_vars(ProcessQueue)
    /\ \A t \in Turns : WF_vars(Turn(t))

-----------------------------------------------------------------------------
(* Properties.                                                             *)

Live(t) == stage[t] \in {"running", "attaching"}

(* The guard, the queue and the turns are well formed. *)
TypeOK ==
    /\ status \in {"idle", "dispatching", "running"}
    /\ generation \in Nat
    /\ queue \in Seq(Element)
    /\ stage \in [Turns -> {"none", "processing", "running", "attaching", "over"}]
    /\ items \in [Turns -> Seq(Element)]
    /\ gen \in [Turns -> Nat]
    /\ cut \in [Turns -> {"no", "interrupt", "user-cancel"}]
    /\ direct \in [Turns -> BOOLEAN]
    /\ drain \in [Turns -> SUBSET Element]
    /\ controller \in Turns \cup {NoTurn}
    /\ input \subseteq Commands
    /\ recall \in Seq(Commands)
    /\ arrived \subseteq Commands
    /\ heard \in [Commands -> Nat]
    /\ gone \subseteq Commands
    /\ lost \subseteq Commands
    /\ raced \subseteq Commands

(* An active guard has an owner, who will give it back: while it is        *)
(* "running" one live query has its generation, and no other; while it is  *)
(* "dispatching" some executeUserInput is at work (QueryGuard,             *)
(* handlePromptSubmit, REPL onQuery).                                      *)
Owns(t) == Live(t) /\ gen[t] = generation

GuardHasOwner ==
    /\ status = "running" =>
          \E t \in Turns : Owns(t) /\ \A u \in Turns : Owns(u) => u = t
    /\ status = "dispatching" => \E t \in Turns : stage[t] = "processing"

(* The guard of a running query becomes idle only when that query ends or  *)
(* the user cancels: the late finally of a cancelled query never ends a    *)
(* newer one, and no executeUserInput releases what a query holds (REPL    *)
(* onQuery, "cancel+resubmit race where the stale finally fires").         *)
OnlyOwnerEnds ==
    [][status = "running" /\ status' # "running" =>
          \/ generation' # generation
          \/ \E t \in Turns : Owns(t) /\ stage'[t] = "over"]_vars

Waiting(c) ==
    \/ c \in Named(Elements(queue))
    \/ \E t \in Turns : stage[t] = "processing" /\ c \in Named(Elements(items[t]))

(* A command that was handed in is waiting, was put to the model, went     *)
(* back to the input box, or was done or discarded on purpose: none is     *)
(* lost between the queue, a turn that cannot start and a cancelled turn.  *)
(* The exception is an error: the commands of a turn whose input throws    *)
(* are not queued again (executeUserInput has a finally and no catch), and *)
(* those whose attachments throw are taken from the queue all the same,    *)
(* where query.ts says "only commands that were actually consumed".        *)
NothingLost ==
    \A c \in arrived : Waiting(c) \/ heard[c] > 0 \/ c \in input \cup gone \cup lost

(* A command is put to the model twice, or put to it and left in the       *)
(* queue, only if it left the queue by another way while a turn attached   *)
(* it.                                                                     *)
HeardOnce ==
    \A c \in Commands \ raced :
       /\ heard[c] <= 1
       /\ heard[c] = 1 => ~Waiting(c)

(* No command for the main thread stays in the queue for ever, whatever is *)
(* ahead of it (queueProcessor: a notification for a subagent must not     *)
(* stall a queued prompt), as long as the bound leaves a turn to begin.    *)
QueueDrains ==
    []<>(\/ \A e \in Elements(queue) : ~MainThread(e)
         \/ \A t \in Turns : stage[t] # "none")

==============================================================================
