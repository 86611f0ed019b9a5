# A verification development for axiomate

axiomate is a terminal agent: it sends a conversation to a language model, runs
the tools that the model calls, shares work among several agents, and keeps its
sessions, task lists and schedules in files. It is written in TypeScript and
runs on one JavaScript thread per process; what interleaves inside a process are
the callbacks and the continuations of promises, and between processes the
operations on shared files.

This directory holds TLA+ models of the parts whose correctness depends on such
orders, the TLC configurations that check them on small instances, and proofs
of their most important properties for every instance. `PROJECT.json` lists the
components, the runs, the hazards and which lines of the source each definition
stands for. In the comments of the modules, file names are relative to
`agent/src/`.

    tlc -workers 2 -config TaskBoard.cfg MCTaskList      # one run
    tlapm TaskListProofs.tla                             # one proof module

## The system

### Parts that are modelled

| Part | State it keeps | Operations | Module |
|---|---|---|---|
| Streaming tool executor (`services/tools/StreamingToolExecutor.ts`) | tracked tools with their status, results, pending progress, context modifiers; the abort signals | `addTool`, `processQueue`, `executeTool`, `getCompletedResults`, `getRemainingResults`, `discard` | `ToolExecutor` |
| Tool orchestration in batches (`services/tools/toolOrchestration.ts`, `utils/generators.ts`) | the batches, the promises in the race, queued context modifiers | `partitionToolCalls`, `runTools`, `all` | `ToolBatches` |
| Shared task list (`utils/tasks.ts`) | a file per task, a high water mark file, a lock on the list and one per task | `createTask`, `updateTask`, `deleteTask`, `resetTaskList`, `blockTask`, `claimTask`, `claimTaskWithBusyCheck`, `unassignTeammateTasks`, the automatic clearing of `useTasksV2` | `TaskList` |
| Prompt queue and query guard (`utils/messageQueueManager.ts`, `utils/QueryGuard.ts`, `utils/queueProcessor.ts`, `utils/handlePromptSubmit.ts`, `onQuery` and `onCancel` of `screens/REPL.tsx`) | queued commands, the guard's status and generation, the turns under way, the abort controller the UI holds, the input box | submit, notify, dispatch from the queue, start, end and cancel a query, drain the queue in mid-turn, edit the queue, stop the agents | `PromptQueue` |
| Session transcript (class `Project` of `utils/sessionStorage.ts`) | a write queue per file, a timer, the active drain, the set of recorded messages | `insertMessageChain` and the other appends, `scheduleDrain`, `drainWriteQueue`, `flush`, `removeMessageByUuid` | `TranscriptWriter` |
| Scheduler lock (`utils/cronTasksLock.ts`) | a lock file that names a session and a process | `tryAcquireSchedulerLock`, `releaseSchedulerLock`, the probes of the scheduler | `SchedulerLock` |
| Scheduled tasks (`utils/cronScheduler.ts`, `utils/cronTasks.ts`) | the task file; per session the loaded tasks, fire times, tasks in flight | load, check, fire, reschedule; add, remove and mark in the file; start, probe, stop | `CronScheduler` |
| Teammate mailbox (`utils/teammateMailbox.ts`, `hooks/useInboxPoller.ts`, `utils/swarm/inProcessRunner.ts`, `cli/print.ts`) | an inbox file per agent and its lock; per reader what it polled and what it queued | `writeToMailbox`, `readMailbox`, both marks, the polls and deliveries of three kinds of reader | `Mailbox` |
| Query loop (`query.ts`, `query/stopHooks.ts`, the breaker of `services/compact/autoCompact.ts`) | the messages of the turn, those of the present call, recovery counters, the model in use | compaction, streaming with fallback and next model, tools, continuation, stop hooks, abort, return | `QueryLoop` |

How they interact: a command leaves the **prompt queue** for a turn; the turn
takes the **guard** and runs the **query loop**, which streams the model's
answer and hands the tool calls to the **batch runner** when the message is
complete, or to the streaming **executor** while it comes in (the present build
turns that one off, `query/config.ts:29`); between two requests of a turn the
loop drains the queue once more. What the loop shows is handed to the
**transcript** writer and is the history of the next turn. Fired **scheduled
tasks** and **mailbox** messages enter the prompt queue as commands, or start a
query directly. Tools and teammates work on the shared **task list** in other
processes as well as in this one. A cancel or a new submission aborts the signal
that all of them look at. Calls go down; results come back through generators;
only the task list, the transcript, mailboxes and schedules are shared through
files.

### Parts that are not modelled yet

The state, the operations and what makes each part correct, as found in the
source; `PROJECT.json` names the files and lists their hazards at their lines.

| Part | State and operations | What has to hold |
|---|---|---|
| Tool execution | one call with permission, hooks and a progress stream | an error reaches the caller even if it comes between two reads of the stream |
| Memory consolidation lock | a file whose time stamp is the last consolidation | one holder, a failed run gives the time back |
| Agent swarm | teammates that claim tasks and answer requests; permission requests, shutdown | a request is answered once, a teammate that shuts down leaves no task behind |
| File-state harness | who read and wrote which path; path locks in a process | no agent writes over a change it has not seen |
| API retry and recovery | observations and decisions of a session | rules respect their repeat policy, the retries end |
| Compaction | what is kept and what is summarised (its breaker is in `QueryLoop`) | no tool use loses its result |
| Goals | a goal with a status and a turn budget, stored as transcript entries | a paused or finished goal sends no further prompt |
| Checkpoints and rewind | snapshots in a shadow git store, an index, pruning | a snapshot that the index names can be restored |
| Background tasks | tasks with an output file and a notified flag | one notification per task |
| Headless loop | another consumer of the command queue, with its own `running` flag | no command is stranded when the flag is released |

Left aside for good: permissions (matching of strings), provider adapters
(translation of formats), MCP and LSP clients, plugins, hooks, shells and their
parsers, settings files, rendering, native add-ons, the browser bridge and the
sandbox. They are input and output, conversion without interleaving, or the
behaviour of other programs; the modelled parts see them as delays and outcomes.

## The modules

    Selection                    what Array.filter keeps, used by four modules
    ToolSlots                    what any tool runner promises (abstract)
      ToolExecutor               implements it
        MCToolExecutor           kinds of tool call for TLC
        ToolExecutorProofs       TLAPS
      ToolBatches                implements it
        MCToolBatches            instance for TLC
        ToolBatchesProofs        TLAPS
    TaskList
      MCTaskList                 menus of operations for TLC
      TaskListProofs             TLAPS
    PromptQueue
      MCPromptQueue              commands for TLC
      PromptQueueProofs          TLAPS
    TranscriptWriter
      MCTranscriptWriter         entries for TLC
      TranscriptWriterProofs     TLAPS
    SchedulerLock                who drives the schedule
      MCSchedulerLock            processes for TLC
    CronScheduler                the schedule, with one driver at a time
      MCCronScheduler            tasks for TLC
    CronProofs                   of both, TLAPS
    Mailbox
      MCMailbox                  senders for TLC
      MailboxProofs              TLAPS
    QueryLoop
      MCQueryLoop                limits for TLC
      QueryLoopProofs            TLAPS

An operator whose comment begins with "Mutant" is the form a definition would
take with a plausible bug; no specification uses it. Each checked property is
tried against one, to show that it can fail.

### Selection

`Selected(s, I)` has the elements of `s` at the places in `I`, in their order:
what `Array.filter` returns, for the places that pass. It is defined on the set of
places, so that proofs can use it.
`PromptQueue`, `ToolBatches`, `QueryLoop` and `TranscriptWriter` filter with it.

### ToolSlots

Two sets: the calls that execute and the calls that were ever started. A call
may start when all earlier starts are of earlier blocks and it is compatible
with what executes (safe calls run with safe calls, any other runs alone).
`ImplementsSlots` of both runners instantiates this module with a refinement
mapping.

### ToolExecutor

One action is the code between two awaits or yields. Three kinds of actor
interleave: scans of the queue (`AddTool`, `ResumeScan`, `WakeScan`: each
`processQueue` awaits after a tool it starts, so several scans are pending at
once); running tools (`Deliver`, `Progress`, `Finish`, `LateUpdate`); the
consumer in `query.ts` (`Poll` while streaming, `BeginDrain`, `DrainScan`,
`HandOver`, `GoOn`, `EndCollect`, `EndWait`). The user, a submitted prompt, a
'now' command, a rejected permission and a model fallback abort or discard at
any point where the event loop lets them.

The difference between microtasks and macrotasks is kept, since the end of the
drain depends on it: `Quiet` says that no continuation is pending, and I/O and the
user wait for it. Message contents are reduced to outcomes.

### ToolBatches

`Starts` are the tools with which a batch begins, as `partitionToolCalls` cuts the
message, and `first` is the one of the batch that the loop of `runTools` is at;
`phase` says where each tool's generator stands in `all()`: waiting for a slot,
busy, with a value nobody has taken, over, or taken. The race takes settled
promises in any order. A concurrent tool is asked for its next update before
`runTools` yields the present one, a serial tool after it. The consumer may
suspend the generator between any two updates. A tool may report modifiers of
the context: a serial tool's takes effect at once, those of a batch are queued and
applied in the order of the blocks when it is over; `seen` is the context each
tool was started with. The ids shown as in progress are left out.

### TaskList

A call is a sequence of steps, one per awaited file operation, and the steps of
several sessions interleave. `writeFile` is two steps, so files can be read, or
left by a crash, torn: a torn task reads as absent, a torn mark as 0. A session
may crash anywhere; its locks expire. A wait for a lock may time out, at other
callers' expense. A file that was unlinked and recreated under an open handle
is a different file (`linked`).

`Updates(i)` are the patches that `TaskUpdateTool` and the task watchers make:
a status, an owner or both, decided on a task read before without a lock.
`holder` is who was told that it has a task (`Told`): a claim that got as far as
its update answers success even when `updateTask` found nothing to write to. An
update that names another owner takes the task from him (`Reassigns`): it is no
claim, and he is not told.

The library's takeover of a lock from a live holder that stalls for ten seconds
is left out. Ids are bounded by the number of calls, which never limits a
behaviour: a call hands out at most one id.

### PromptQueue

A turn is one `executeUserInput`, or one `onQuery` that a teammate's message
starts directly. Its stages are `processing` (awaiting `processUserInput`),
`running`, `attaching` (the mid-turn drain awaits its attachments) and `over`.
`Submit`, `Notify`, `IncomingPrompt` hand in commands; `ProcessQueue` is the
effect of `useQueueProcessor`; `StartQuery`, `Requeue`, `RunLocally`, `Fail`,
`TakeQueued`, `Attach` and `Finish` are the steps of a turn; `Cancel`,
`PopEditable` and `KillAgents` are the user.

Two things throw: `processUserInput` (`Fail`), and the making of attachments
(`AttachmentsOf`), after which the commands leave the queue all the same. Both
put their commands into the history `lost`, apart from `gone`, which has what
was done or discarded on purpose.

The chain of continuations from the end of a query to the last finally of
`executeUserInput` is one step: the renderer schedules effects as later tasks of
the event loop, so nothing renders in between. Left out: local JSX and immediate
commands, `nextInput`, sending a query to the background. `Cancel` uses the
controller of the present state; the code uses that of the last render.

### TranscriptWriter

A step is what runs between two awaits, or one operation of the file system. The
queues form a `Map`; its iteration order is the order in which keys came in,
kept in `since`, and an iteration takes the oldest key that it has not passed
(`NextKey`), so it meets keys that come in while it awaits an append. `Fire` is
the timer, `FlushNow`, `FlushAwaits` and `FlushResumes` are `flush()`, and
`DrainStep` carries any drain on. A removal is four steps: `Read` looks at the
end of the file, `Cut` truncates, `WriteBack` writes the rest, `ReadAll` is the
slow path that rewrites the whole file. The process may die at any moment; the
invariants about files hold at every step, so they hold after a crash.

Three history variables name races that the code does not exclude: `beside`
(flushes that another drain ran beside, since a flush does not record its
drain), `crossed` (files that two drains had a batch for at once) and `clash`
(an append or a removal that fell between the two writes of a removal). The
properties say what holds without them.

### SchedulerLock and CronScheduler

`SchedulerLock` has one step per operation on the lock file: the exclusive
create makes an empty file which a later step fills, and a reader in between
finds nothing that it can parse. A process that finds a lock of its session with
another process id takes it over in two steps of its own, `ReadOurs` and the
ordinary write `TakeLock`. Processes die at any step and leave the file;
`SessionOf` lets a process resume the session of another. `raced` records that a
process removed or overwrote, or is about to, a lock that came into being after
it had looked at the old one: then two sessions can own the schedule, though the
comment at `cronTasksLock.ts:109` says that only one create succeeds. It is also
set when one session runs in two processes.

`CronScheduler` takes from it that one session at a time is the owner. Rewrites
of the task file are three steps without a lock (`OpRead`, `OpTruncate`,
`OpFill`), and each may fail: a read that fails is a file without tasks (`Seen`),
which an `add` then writes back with its own task only; a write that fails
(`OpFails`) leaves the file as it was, or empty, and settles like one that went
well, so its tasks are in flight no more. A session that loads may find nothing
either (`unread`). `behind` says that a session's watcher has not delivered a
change. `Check` fires what is due and begins the rewrites; `InitialLoad` shows
and removes one-shots that were missed. Its history variables are `overlapped`
(two rewrites ran at once: tasks come back or vanish), `hasty` (a session acted
on tasks while a change was on its way to it), `cut` (a session died inside a
rewrite) and `failed` (rewrites that could not read or write).

### Mailbox

Writers and marks run the same three steps under the lock, `Lock` (and read
again), `Truncate`, `Fill`; polls read without it and find nothing in a file
that is half written. `reader` chooses which of the three readers the instance
has. A session hands over or queues what it polled and then marks the whole file
(`HandOver`, then `Lock` and so on of the same poll); a teammate and the headless
loop mark first and hand on afterwards (`HandOn`). `lost` collects messages of a
file destroyed by a death in the middle of a write or by the brackets of a late
creator (`FillNew`), `overtaken` messages that came between a poll and its mark,
`dropped` messages that a reader had when it died.

Left out: a read that fails under the lock for another reason than a missing
file. It reads as an empty inbox as well, and the writer fills the file with its
own message only (`teammateMailbox.ts:97`, `:171`).

### QueryLoop

`pc` is the place in `queryLoop`: `begin` (the top, where compaction is decided),
`stream`, `sampled` (after the stream), `tools`, `stop` (in the stop hooks) and
`returned`. Messages are records of a kind, a number and a width, the number of
tool uses they ask for; a result names the use that it answers. `shown` is what
the consumer of the generator was given and has not been told to take back.
Model, client, hooks, compaction and tools answer in any way they can. `row`
counts calls in a row that failed alike, `doomed` compactions that failed since
one succeeded, `late` requests sent after the abort (`Send`: those to a next
model within a round count too; `modelThen` is the model at the time of the
abort). `primary` says that the route overrides the model, so that each round
begins with the first one again.

## What the runs show

| Run | Instance | What it checks |
|---|---|---|
| `executor` | 2 calls, each of 5 kinds (safe, read-only Bash, unsafe, interruptible, unknown) | `NothingSucceedsAfterCancel`, `ImplementsSlots`, `DrainEnds` |
| `tool_batches` | 4 calls of every mix, 2 at once, 2 updates each | `ContextInBlockOrder`, `AllToolsEnd`, `ImplementsSlots` |
| `task_board` | 3 sessions, 3 calls, 1 crash, a task at the start; create, claim, update, block, reset, clear | `FreshIds`, `MarkCovers`, `HolderIsOwner`, `ClaimExclusive`, `CompletedStays` |
| `task_return` | 2 sessions, 3 calls, 1 crash, a task at the start; every operation but a plain update | `CallsReturn`, `LinksMatch` |
| `task_unassign` | claim, update, unassign | `UnassignsOwnOpenTasks` fails (finding) |
| `prompt_queue` | a prompt, a slash command, two notifications, a teammate's message, 3 turns, errors until something is lost | `GuardHasOwner`, `NothingLost`, `HeardOnce`, `QueueDrains` |
| `transcript` | 4 entries for 2 files, one message handed in twice, 2 timer callbacks, a flush, a removal, 1 failed append | `WrittenOnce`, `NothingLost`, `InOrder`, `FlushCovers`, `NeverStranded`, `RemovedIsGone`, `EventuallyWritten` |
| `cron_lock` | 4 processes of 3 sessions | `OneOwner`, `TakenOver` |
| `cron` | 2 sessions, a one-shot and a recurring task that fires twice, a clock of 4 ticks, 1 failed read or write | `OneShotOnce`, `RecurringSpaced`, `NoneForgotten`, `DueFires` |
| `mailbox` | 2 senders, each kind of reader with 2 polls, 1 failed lock, 1 death | `NoneVanish`, `ReadMeansTaken`, `DeliveredOnce`, `Arrives` |
| `mailbox_passed_over` | the same without failures and deaths | `NonePassedOver` fails (finding) |
| `query_loop` | 4 rounds or retries, 2 models, 2 messages with tools, 3 failures or fallbacks, 1 continuation, 2 vain compactions | `RequestPaired`, `ShownPaired`, `RetriesBounded`, `BreakerHolds`, `AbortStops`, `FailureShown` |

**Bounds.** Two calls show every pair of kinds in the executor: a stale scan and
the tool it must not start, a tool that is cancelled by its neighbour; order and
exclusion of any number are proved. Four tools with a cap of two give a batch
that is larger than the cap, a serial tool between two batches and a generator
that waits. Two sessions suffice for every race on one task or one mark; the
third lets a claim be disturbed while two others hold locks, and crash. The
updates of `task_board` are left out of `task_return`: a block and an unassignment
take every step that an update takes. Three turns are a running query, a late one that unwinds and a new one. In the
transcript two entries share a file, one message is handed in twice, and one
entry is for a file that an iteration may have passed; two timer callbacks and a
flush are three drains side by side. The lock has an owner, two that contend for
a stale lock and a process that resumes a session. The clock of the schedule
lets a recurring task fire twice and grow too old, and a one-shot be missed; one
failure reaches each kind of read and write, and nothing but `DueFires` speaks of
what comes after it. A sender beside a mark and a second poll beside the first are what a mailbox can
be confused by. In `query_loop` an answer that is cut short may be continued once
(`RecoveryLimit`, three in the code), so that one more cut answer is within the
four calls and three failures, and two failed compactions trip the breaker: each
limit can be exceeded within the bounds, by a mutant of its guard. The theorems
are about every limit.

The bounds are `MaxTools`, `MaxUpdates`, `MaxCalls`, `MaxCrashes`, `MaxTurns`,
`MaxLost`, `Timers`, `MaxFailures`, `MaxTime`, `MaxDeaths`, `MaxRequests` and `MaxTrouble`;
they stand in guards or index sets. At its bounds the model of `query_loop` still
answers and fails, so the turn ends there as the code ends it.
`CHECK_DEADLOCK FALSE` is set where the system does stop: a message has been
answered, the bounded calls, turns, entries and messages are used up, all
processes are dead. `query_loop` has an explicit `Done` and checks deadlock.

`cron` explores a behaviour up to the first overlap of two rewrites
(`CONSTRAINT MCNoOverlap`): after one, no property of that module says anything,
so this loses nothing and keeps the instance small.

**Symmetry** is used in `task_board` only, for the sessions; it has no liveness
property.

### Findings

1. `task_unassign`: unassigning "all open tasks" works from a list read before;
   it reopens a task completed since, or takes one from its new owner.
2. `mailbox_passed_over`: "Mark messages as read only after they have been
   successfully delivered or reliably queued": the mark reads the file again and
   marks everything in it, so a message that was written after the poll had read
   the inbox is marked without having been seen.

### Divergences without a run

The models have these behaviours; each was seen in a run while its module was
built, and the properties say where they stop short of them.

- With an unsafe tool that waits for I/O followed by an unknown tool,
  `getRemainingResults` finds a completed tool it may not yield yet
  (`StreamingToolExecutor.ts:494`), so it waits on nothing but resolved promises
  and starves the event loop. `DrainEnds` is about calls of known tools.
- Results are not always "emitted in the order tools were received"
  (`StreamingToolExecutor.ts:39`): a safe tool that completes early is emitted
  before an earlier one that still executes (`:449`).
- `deleteTask` updates the mark "to prevent ID reuse" (`tasks.ts:386`) without
  the lock of the list; a concurrent `createTask` can read the mark before and
  the directory after. `FreshIds` is about lists in which nobody deletes.
- "queryGuard guarantees no concurrent executeUserInput call"
  (`handlePromptSubmit.ts:398`) does not hold after Escape while an input is
  processed.
- Auto-restore after an interrupt rewinds the history but clears the input box
  (the default of `nextUserPrompt`, `REPL.tsx:3236`), though the comment at `:2546`
  says that it restores the prompt.
- A claim answers success when `updateTask` returned null (`tasks.ts:582`): of a
  plain claim that is a task removed meanwhile; a busy claim (`tasks.ts:663`) may
  also meet a file that another session is just writing. `TaskUpdateTool` sets an
  owner that it decided on without a lock (`TaskUpdateTool.ts:174`), also over a
  claim that came in between, and the claimer is not told.
- A batch whose `processUserInput` throws is lost: the finally of
  `executeUserInput` releases the guard and nobody queues the commands again
  (`handlePromptSubmit.ts:560`).
- "Remove only commands that were actually consumed as attachments"
  (`query.ts:1429`): when making their attachments throws, `maybe` answers an
  empty list (`attachments.ts:918`) and the commands are removed all the same. The
  comment at `attachments.ts:704` fears just that of another path ("silently
  drops them").
- `ClaimExclusive` would fail with the busy claim, which checks under one lock
  and writes under another (`tasks.ts:663`); nothing in the program makes a busy
  claim.
- Two sessions that recover a stale scheduler lock can both own it
  (`cronTasksLock.ts:165`), also when one of them takes over the lock of the
  session it resumed (`:141`); and two rewrites of the task file that overlap bring
  tasks back or lose them (`cronTasks.ts:247`).
- "inFlight guards against double-fire during the async removeCronTasks +
  chokidar reload" (`cronScheduler.ts:312`; also `:165` and `:198`). It is cleared
  when the removal is done (`:321`), and the view still has the task until the
  watcher has made the session load the file: a check in between fires it again
  (`hasty`).
- A removal that fails is logged, and then the task is in flight no more: it fires
  at every check until a removal succeeds (`cronScheduler.ts:315`). A mark that
  fails lets the next owner fire a recurring task again for the same time (`:339`).
- A task file that cannot be read counts as empty (`cronTasks.ts:96`): adding a
  task then writes a file with that task only.
- The empty list of a late creator is written over messages that others have put
  into the inbox meanwhile (`teammateMailbox.ts:150`).
- After an abort while streaming, a request that fails still goes to each model
  that is left (`query.ts:892`); nobody looks at the signal before the stream is
  over (`:948`).
- A turn whose answers alternate between cut short and too large resets each
  guard with the other (`query.ts:1051`): `RetriesBounded` is about failures of
  one kind in a row.
- A partial answer that is continued after a network cut is never shown
  (`query.ts:795`); the error of a request that is too large is shown twice when
  compaction declines; reactive compaction does not show its boundary.

### Fairness

- **Executor.** Continuations of promises run (`WF`): the engine empties the
  microtask queue. Outcomes of tools that do I/O have strong fairness where
  `Quiet` can switch them off and on: an operation that has completed is served
  when the microtask queue is empty. The user owes nothing.
- **Batches.** `WF` of the whole step relation: a tool yields finitely often
  (`MaxUpdates`) and ends, and the consumer asks for more. In the code that is
  what a tool with a timeout, and `query.ts`, do.
- **Task list.** `WF` of each session's work and of the expiry of dead locks:
  file operations return and a caller keeps trying for a lock. Starting a call,
  giving up on a lock and crashing have none, so `CallsReturn` does not lean on
  time-outs.
- **Transcript.** One `WF` for all continuations and timers together: the event
  loop goes on while something is pending. Nobody has to insert, flush or remove.
- **Scheduler.** `WF` of what a live process does once it has begun, and of its
  timers (`Acquire` is the probe, `Check` the tick) and watcher. Dying, stopping,
  starting, creating and deleting have none, nor has the clock.
- **Mailbox.** `WF` of each step of a write, a mark and a poll: pollers are
  timers, and whoever waits for the lock tries again. `SF` of the delivery to an
  idle session: it may be refused, but a session that is idle again and again
  takes its messages once.
- **Query loop.** None: it has no liveness property. That the retries are bounded
  is a safety property.
- **Prompt queue.** `WF` of the queue processor (an effect that runs after each
  render) and of each turn (processing, attaching and queries end, by
  themselves or through time-outs). Handing in, cancelling and editing have none.

## What is proved

Proofs hold for every value of the constants under the named assumptions of the
modules (`MaxToolsAssumption`, `CallsAssumption`, `TaskListAssumption`,
`PromptQueueAssumption`, `BatchesAssumption`, `TranscriptAssumption`,
`LockAssumption`, `CronAssumption`, `MailboxAssumption`, `QueryAssumption`), with no bound on
tools, sessions, calls, crashes, commands, turns, entries, messages or failures.

- **`ToolExecutorProofs`.** `TypeCorrect`, `ExclusiveExecution`,
  `StartsInOrder`, `ContextInOrder`, `ErrorsAnsweredOnce` and
  `ExecutorImplementsSlots`. `Exclusive` alone is not inductive: a pending scan
  could start anything, and a tool that has completed hides what it was started
  next to. The invariant adds `OrderInv` (no known tool before a started one is
  unstarted; whatever was started after a tool that still executes is compatible
  with it), `ScanInv` (each pending scan stands just behind a tool that was
  started) and `RunInv` (a generator is under way exactly for the tools that
  execute). So the tool that a scan starts comes after every started one and is
  compatible with all that execute (`StartableIsNext`), which is what
  exclusivity, order and the refinement need. `ContextInv` (a modifier that was
  applied is that of a started tool, and none is later than an unsafe tool that
  executes) and `AnswerInv` (who has reported what) are added for the two
  properties they are named after. `NoSuccessAfterCancel` uses `AnswerInv` as
  well: a tool that is started or resumed after the executor was discarded, a Bash
  tool failed or the user aborted the turn sees it (`Cancelled`) and reports an
  error.
- **`TaskListProofs`.** `IdsAreFresh` and `MarkCoversAlways`, assuming that
  nobody deletes single tasks. The invariant has the
  types; `Cover`, which says that the directory and the mark together reach
  every issued id at every moment, also after a session died inside a reset; and
  `Stage(p)`, what the session that holds the lock of the list knows at each of
  its steps: the mark is lowered never, and truncated only while a higher id
  than all issued ones is still in the directory. Only the holder of that lock
  changes the mark, unlinks a file or gives out an id.
  `HolderIsOwnerAlways`, `ClaimsAreExclusive` and `CompletedTasksStay` rest on a
  second part, about the files: `Careful(p)`, what a session knows of the task
  whose lock it holds (what it read under the lock is still in the file, so the
  merge it writes changes the fields of its patch only), and `Apart` (nobody
  works on the file that `createTask` is about to fill, since its id was not given
  out before). `HolderInv` adds who was told what: a claim that looked at a task
  under its lock writes it and answers under the same lock, so whoever is told has
  been written, or the file is gone. `HolderIsOwnerAlways` and
  `ClaimsAreExclusive` leave out the busy claim, which writes through `updateTask`
  and takes its null for success; `CompletedTasksStay` leaves out the unassignment
  (finding 1); all three that nobody deletes single tasks.
  `LinksMirror` needs none of these assumptions. Its invariant `LinkInv` follows
  the one call that is under way: which steps its operation goes through and
  which locks it holds at each (`Routed`, `Locks`), what it has read that still is
  so (`Knows`), and where its updates lead (`Aims`): there are links `f` that
  mirror each other, every update that is left writes what `f` has, and a half
  of a link that differs from `f` is one that an update left to write will set.
  A deletion first unlinks the file, so between that and its first update the
  links mirror each other only without the ones to the task that is gone
  (`Without`). The steps of `Next` are the operations' own, so each lemma takes one
  step of a call and shows what it leaves of the five parts.
- **`PromptQueueProofs`.** `GuardAlwaysHasOwner`, `OnlyTheOwnerEnds`,
  `NothingIsLost` and `HeardAtMostOnce`. The
  invariant adds to `GuardHasOwner` that a live query's generation never exceeds
  the guard's: so the generation that `tryStart` makes belongs to nobody else,
  and a query that was cancelled never compares equal again. For the commands it
  adds `OnceEach`: a command that no race touched is in one place, the queue or a
  turn that processes it, and there once; one that was heard or did not arrive
  yet is nowhere; and what a turn is attaching is still in the queue, and no other
  turn attaches it. Every step moves commands between places (`Takes`, `Others`);
  one that takes what a turn attaches records the race. Whatever leaves its place
  was heard, done or discarded, or lost to an error (`Fate`).
- **`ToolBatchesProofs`.** `CapHolds`, `BatchesImplementSlots` and
  `ContextsInBlockOrder`. The invariant counts the generators that are over and
  not yet noticed as well: their slot is handed on, not freed. For the refinement
  it adds that the tools before the batch are taken and those after it are not
  begun (`Ranged`), that whoever waits for a slot comes after all that were started
  (`InTurn`), and that the race is not over while somebody waits (`Noticed`); each
  step then is one of `ToolSlots` or a stutter (`SlotStep`). For the contexts: what
  is queued was reported by a tool of the batch, what was applied is of earlier
  batches or of the serial tool that runs (`ContextSoFar`), and a concurrent tool
  started with modifiers of tools before its batch only (`SeenBefore`).
- **`TranscriptWriterProofs`.** `NothingStranded`: what waits in a queue has a
  timer, a flush that waits for its turn, or a drain that has not passed it. The
  invariant adds that a queue with entries is in the map (`Keyed`), that keys
  came into the map at different times (`Ordered`), and that only a drain under
  way has passed a key (`IdleStartsOver`). The heart is `NextKeyWaits`: the
  oldest key exists (a set of naturals has a smallest member, from the
  well-foundedness of `<`), and whatever is younger has not been passed; so a
  drain that finishes has passed every key, and one that goes on has not passed
  the keys behind it.
  `OneCopy`, `NothingIsLost`, `OrderIsKept`, `FlushesCover` and `GoneForGood`
  follow the entries. `Whole` is a file with what a removal that has cut it holds
  in memory; every step has one of six effects on the queues, the drains' batches
  and these files (`Effect`): it puts entries into a queue, grabs a batch, stores
  it, drops it, takes a message out, or is still. What a user of the invariant has
  to know is then shown of the six effects and not of each action. The
  invariant says that an entry is in one place and there once (`HeldOnce`), that
  the queue, the batches under way and the file together have what was handed in,
  in order (`InLine`), that what was stored stays unless it was removed or the
  file was written beside (`Kept`), that a removed message stays away (`Gone`), and
  what a flush has waited for (`Covered`; `Alone` says that a drain without a
  companion is the only one). It is conditional on `~clash`, like the properties:
  `ClashStays` shows that a step that raises it ends what they promise.
- **`CronProofs`.** Extends both `SchedulerLock` (whose specification is called
  `LockSpec` therefore) and `CronScheduler`.
  `OneOwnerAlways`, as long as nothing raced: `LockInv`
  says that the file names whoever holds or fills the lock, that an
  unfilled lock is being filled or its writer is dead, and that whoever is about
  to remove or overwrite a lock meets that of a dead process, or none. It is
  conditional on
  `~raced`, and every step that could break it raises `raced`.
  `OneShotsFireOnce`, `RecurringFireSpaced`, `NoTaskForgotten` and
  `DriverIsAhead` rest on `CronInv`. Part of it holds whatever happens: whatever
  anybody knows of was created (`Known`), a session that has heard of every change
  has the file in its view, or nothing where it could not be read (`Fresh`), and what the driver has planned for a
  recurring task is later than its last fire (`Driven`; a session that takes over has
  planned nothing). The other part, `Calm`, holds while no rewrites overlap,
  none fails and nobody dies in one. Either no rewrite is under way and the file is `Sound` (no
  one-shot in it was acted on, each recurring task bears the time of its last
  fire), or one is, it is `Right` (what it is about to write is sound, what it leaves
  out is deleted or over), and the file is sound but for its tasks. A check that
  fires anything begins a rewrite; so it overlaps, or it found a sound file.
- **`MailboxProofs`.** `NothingVanishes`, `ReadIsTaken` and `GivenOnce`. The
  invariant adds that whoever rewrites the file has the lock, and that it has read
  every message that was sent: so what it writes, or destroys by dying, covers
  them all. The second part, `Reading`, is about each content that the file has or
  is about to have: one message per sender (`Signed`), nothing marked that was not
  taken or overtaken (`Vouched`), what a poll took still at the place where the poll
  found it (`Placed`: marks by place are right because nothing is removed or
  reordered), and what was given is marked before the next poll (`Noted`).
- **`QueryLoopProofs`.** `RetriesAreBounded`, `BreakerAlwaysHolds`,
  `AbortAlwaysStops`, `RequestsArePaired`, `ShownIsPaired` and `FailuresAreShown`.
  The invariant ties the history of failed calls to the
  counters of the loop at each place: before a call as many answers in a row were
  cut short as `maxOutputTokensRecoveryCount` says, and a request that was too
  large has set `hasAttemptedReactiveCompact`; the loop is never at its top or in
  the stop hooks with an abort that a call has followed, and within a round that
  was aborted it has sent no more requests than it has gone through models
  (`AbortInv`). The pairing of tool uses
  and results adds that the numbers of uses are fresh, that each sequence of
  messages is coherent (a use at most once, a result after its use, at most once)
  and that the uses without a result are exactly the pending ones: an empty set
  wherever a request is sent or the turn returns. `FailuresAreShown` adds what was
  withheld at each place and that it is the last message of the model
  (`LastShown`).

Only model-checked:

- all liveness (`DrainEnds`, `AllToolsEnd`, `CallsReturn`, `QueueDrains`,
  `EventuallyWritten`, `TakenOver`, `DueFires`, `Arrives`), which is out of the
  prover's reach.

Every safety invariant and action property that the passing runs check is proved,
those of the task list under the conditions given above.

## Hazards without an entry

`PROJECT.json` lists the hazards that matter most. Smaller ones, met while
reading, which later work should look at:

- a discarded executor never takes the ids of its running tools out of the set
  shown as in progress (`query.ts:867`);
- `handleCancel` decides by the signal of the last render
  (`useCancelRequest.ts:88`); stopping the agents clears the user's prompts from
  the queue as well (`useCancelRequest.ts:234`);
- after two inputs were processed side by side, the UI may hold the controller
  of the one that does not run (`REPL.tsx:1800`);
- a notification for a subagent that has ended stays in the queue
  (`killShellTasks.ts:75`); sending a query to the background takes those of
  running subagents out (`REPL.tsx:2130`);
- a lock whose live holder stalls for ten seconds is taken over (`tasks.ts:102`);
- a busy claim is not atomic (`tasks.ts:663`), and a claim reads its blockers
  without their locks, some half written (`tasks.ts:571`);
- the display deletes a list that it found completed a moment ago
  (`useTasksV2.ts:166`), and a session that dies between truncating and filling a
  task file leaves a task nobody can read (`tasks.ts:351`); both are steps of
  `TaskList`, without a property;
- all commands with the mode of the most urgent one leave the queue together
  (`queueProcessor.ts:78`);
- notifications and the output of bash commands that find a query running come
  back as editable prompts (`REPL.tsx:2422`, `messageQueueManager.ts:355`);
- the cap of the generator combinator (`generators.ts:51`) is proved (`CapHolds`)
  and not among the runs;
- after `discard()` the tools of the old executor still run while a fresh one
  starts (`query.ts:737`), which waits for the build to turn the streaming
  executor on;
- the retry loop of the client (`withRetry.ts:241`) and the goal loop
  (`goalHook.ts:60`) each have a budget that must be carried and reset at the
  right places.

## Plan

In the order of what matters most. Runs are few and each answers one question,
so a new component replaces the least telling runs of the older ones. For the
second item one claim is already known to need a run: "Two reclaimers both write,
last wins the PID. Loser bails on re-read" (`consolidationLock.ts:74`) leaves out
a reclaimer that writes after the other has read its own name back.

1. `ToolStream` (`utils/stream.ts`, `services/tools/toolExecution.ts`): a queue
   with one reader, an error that comes between two reads.
2. `ConsolidationLock` (`services/autoDream/consolidationLock.ts`): a lock whose
   time stamp is data; one holder, and a failed run gives the time back.
3. `Handshakes` on top of `Mailbox`: permission, plan approval, shutdown.
4. `Recovery` (`services/api/recoveryRules.ts`, `withRetry.ts`): the rules as a
   function checked over all short histories of errors; the retries end.
5. `Goals` and the headless loop, both as further clients of the prompt queue.
6. `FileState`: read and write stamps of several agents under path locks.

Further questions on the present modules: the order of commands of one priority
(`messageQueueManager.ts:50`) and notifications that come back as editable
prompts (`messageQueueManager.ts:355`).

Theorems to add: that whoever owns the lock of `SchedulerLock` is the one owner
that `CronScheduler` takes for granted, as a refinement with both state spaces.
