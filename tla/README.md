# A verification development of SEEKMORE's backend

SEEKMORE is a local agent platform: a NestJS backend over PostgreSQL, an
Electron desktop shell that starts it, and a React frontend.  What the backend
has to get right is the *turn*: a user's message is accepted durably, queued
behind earlier ones, started exactly once, run by an agent loop that calls
models and tools with side effects, perhaps parked on a question, perhaps
stopped, perhaps interrupted by a crash, and ends in one reported outcome.
Around it stand the parts that keep state of their own over many turns:
workflows that give themselves turns, automations that wake up on a schedule,
consents a tool call waits for, skills that are reviewed and rolled back, files
that outlive conversations.  These modules model the turn and those parts, check
them with TLC and prove what TLAPS can prove.

Paths below are under `src/backend/src/modules/` unless they start with `src/`.

## Inventory

| component | state | operations | what makes it correct |
|---|---|---|---|
| Turn request queue (`chat/turn/chat-turn-request.repository.ts`) | ChatTurnRequest rows: status, sequence, trace, anchors | submit, claimNext, claimUserResume, claimRecovery, markRunning, markWaiting, markCancelling, markTerminal | one active request per conversation; started in order of acceptance; a settled request stays settled |
| Orchestrator and registry (`chat-turn-orchestrator.service.ts`, `chat-turn-execution.registry.ts`) | scheduled drains, live executions | submit, drain, resumeWaitingUser, executeRequest | no message and no answer is forgotten; one execution per conversation |
| Turn execution (`chat-turn.service.ts`) | user message, assistant message, AgentTurn anchor | start: create, anchor, announce, run, finalize, catch | request, turn and message agree at the end |
| Stop handler (`chat-turn-cancellation.service.ts`) | none of its own | stopActiveTurn | a stopped turn ends, and ends once |
| Recovery (`chat-turn-recovery.service.ts`) | lists read at start-up | resume or fail interrupted turns, settle cancelled ones, wake, drain | no blind replay of tools; nothing forgotten; live traffic undisturbed |
| AgentTurn rows (`seekmore-agent/persistence/agent-turn.repository.ts`) | status, inputs, event journal, trajectory checkpoint | start, appendInput, checkpoint, restore, sealInputs, complete, fail, cancel | inputs are read once and in order; no success over unread input |
| Agent loop (`seekmore-agent/runtime/loop/`) | trajectory, budgets, pending clarification | iterate, consume inputs, clarify, call tools, grace call, result | budgets hold over resumptions; the loop ends; a question blocks the model |
| Agent service, finalization (`seekmore-agent/seekmore-agent.service.ts`, `finalization/`) | message status | commitTerminal, commitPause, commitCancelled | idempotent settlement |
| Conversation recycle, restore, purge (`chat/conversation/`, `seekmore-workflow/application/workflow-conversation-cleanup.service.ts`) | deletedAt, workflows, automations, storage tasks | softDelete, restore, purge | nothing starts in a recycled conversation; a restored one goes on; purging leaves no file behind and takes none from others |
| Branches (`chat/conversation/branch/`) | copies of messages and object rows | create | a branch keeps what it shows |
| Object runtime, storage deletion (`object-runtime/`, `chat/conversation/deletion/`) | object rows, files, deletion tasks | upload, enqueue, claim, remove, retry | a file has a row, a task or an upload; every task is carried out |
| Conversation lock, turn cancellation (`seekmore-agent/session/`) | promise chain per conversation, abort controllers | runExclusive, register, cancel, clear | mutual exclusion, FIFO, hand-over by aborted waiters |
| Approvals, access policy (`approval/`) | approval rows, in-process waiters, policy versions | request, wait, decide, expire, reconcile | a call acts on what its row says; a decision reaches the call that waits |
| Response writer (`chat/turn/chat-response-writer.service.ts`) | buffer, timer, flush in flight | append, schedule, flush, hydrate, clear | the final content is what stays |
| Timeline and delivery bus (`chat/runtime-events/`, `chat.gateway.ts`) | newest event of a key, publish queue, event log, rooms | publish, store, send, list, snapshot | a client that is connected misses nothing that is stored |
| Workflow runtime (`seekmore-workflow/`) | runs, phases, turn links, journal, outbox, lease | start, update, complete, block, control; request, deliver, recover, dispatch | one phase at a time; a request leads to one turn and is not lost |
| Automation (`automation/`) | automations, runs, next wake-up | claimDue, prepareRun, prepareMessages, commit, finish; pause, resume, cancel, recover | one open run at a time, and it ends |
| Grow and skill versions (`grow/`, `agent/skill/`) | outbox rows, effect observation, receipts, reviews, drafts | deliver, settle, roll back, observe, review, publish | each use counts once; each review ends |
| Tool runtime, terminal sessions, MCP, LLM client | processes, sessions, connections | execute, cancel | cancellation reaches resources |
| Memory, knowledge, media, documents | rows and files | mostly request-response | data rules |
| Desktop runtime (`src/desktop/src/main/runtime`) | child processes | start, stop, migrate | start-up order |
| Frontend (`src/frontend`) | view state, copy of the timeline with a cursor | render, send; merge socket, replay and bootstrap | reaches the queue through the gateway; shows what its cursor says it has |

How they interact: the gateway calls `submit` and `stopActiveTurn`; the
orchestrator claims a row and runs `executeRequest`, which calls
`ChatTurnService.start`, which calls the agent service under the conversation
lock, which runs the loop; the loop journals and checkpoints the AgentTurn row
and calls tools; the result comes back through finalization into
`markTerminal` or `markWaiting`.  Recovery starts when the module boots
(`void this.recover()`) and the server listens meanwhile, so it runs *beside*
live traffic.  When a turn of a workflow ends, its post-turn decision may append a request to
the workflow's journal and outbox, from which the dispatcher or the recovery
starts an automatic turn under the same conversation lock.  Automations take
their own turns when the conversation has no other.  Each finished turn leaves
an event that grow counts.  A tool call inside a turn may wait for an approval.
All of this is one Node process: steps between two awaits are
atomic, and everything else interleaves through the database.

The hard behaviours are in `PROJECT.json` under `hazards`, each at its line.

## Modules

| module | models | state |
|---|---|---|
| `ChatTurnRequests` | the repository of the queue, one operator per transaction or guarded update; `QueueSpec` lets any caller call anything at any time | rows, recycled flag |
| `ChatTurn` | the callers: clients, orchestrator, executor, stop handler, crash, recovery; extends the queue and is shown to implement `QueueSpec` | queue + AgentTurn status, checkpoint phase, message, pending inputs; execution, claims, drain and wake flags, stop, recovery |
| `AgentTurn` | one turn from inside: loop, trajectory, input log, budgets, pause and resumption | turn, inputs, checkpoint; trajectory in memory, stage of the loop |
| `ChatTurnRequests_proofs` | theorems about `QueueSpec`, in which anybody may call anything: types, one turn at a time, start order, settled requests | |
| `ChatTurn_proofs` | theorems about `ChatTurn`: types, the refinement of the queue, no replay, recovery, how turns end | |
| `TurnInputs` | what a turn promises about the inputs added to it: accepted while it is open, read in order and with the trajectory, sealed over an empty inbox | what is accepted, marked, in the trajectory; the turn's life |
| `AgentTurn_proofs` | theorems about `AgentTurn`: types, the input log, budgets, questions, the seal, the refinement of `TurnInputs` | |
| `ConversationLock` | `runExclusive`: calls, their promises and signals, the map's entry of one conversation | calls, chains, entry |
| `TurnLine` | what a lock promises: who comes stands in line, goes once, and only as the first still there | the line |
| `WorkflowBoard` | the phases of a workflow run and its status under the manager's operations | phases, status, current |
| `WorkflowTurns` | how a run gets its turns: requests, delivery, recovery, lease, automatic turns beside the user's | run, lease, requests, dispatches, user's turn, who holds the lock |
| `WorkflowTurns_proofs` | theorems about `WorkflowTurns`: types, no second turn | |
| `Approval` | consent to tool calls: the waiting call, clients that decide, settings, reconcile, expiry, abort | policy, rows, calls, abort signal, clients |
| `Automation` | the automations of one conversation, their runs and the callers that change them | rows, runs, what a claim has listed, requests, chat turn |
| `GrowReviews` | the outbox dispatcher with settlement and observer, and the review worker, in one process | outbox, effect, receipts, draft, reviews, the two ticks |
| `Background_proofs` | theorems about `Automation` and `GrowReviews`, which work in the background: one open run, who finishes a message, the count of uses, the two refinements of `LeasedJobs` | |
| `LeasedJobs` | what a job table promises: put once, taken, given back, over for good | job |
| `Timeline` | the events of a turn's tool calls from the bus to a client that connects, replays, bootstraps, loses its connection or its page | bus queue, event log, wire, the client's view, replays, bootstrap |
| `Retention` | uploads, branches, recycling, restoring, purging, and the tasks that delete files | conversations, object rows, files, uploads, tasks, workers |
| `Conversation_proofs` | theorems about `ConversationLock`, `Approval` and `Retention`, which a conversation has beside its turns: order of the turns, what is acted on is what is recorded, no file is left behind | |
| `UserView_proofs` | theorems about `WorkflowBoard` and `Timeline`, what a user sees of a turn: one phase worked at, a client that shows what its cursor says | |
| `MC*` | instances for TLC; `MCConversation`, `MCBackground` and `MCUserView` put parts without common state side by side | |

`ChatTurnRequests` is the abstract specification (what the table promises) and
`ChatTurn` the detailed one; the refinement mapping is the identity on the rows,
so it is the property `QueueSpec` of the composed module.  `AgentTurn` is the
inside of what `ChatTurn` reduces to checkpoints, batches and endings.

`LeasedJobs` is a second abstract specification.  `GrowReviews` implements it
twice, with a refinement mapping each: `Deliveries == INSTANCE LeasedJobs WITH
job <- ...` maps the outbox row of an event, and `Reviews` the review it led to,
to the life of a job.  A review that failed and will be put back by the worker
is `taken` in the mapping although its row says FAILED: the row passes through a
terminal status (`grow-review-processor.service.ts:132`, then
`grow-review-worker.service.ts:48`), and only the worker at work knows.
`ImplementsJobs` is the safety of both, `EveryReviewEnds` the liveness of the
second.

`TurnInputs` and `TurnLine` are two more.  `AgentTurn` implements `TurnInputs`
(`InputsPromised`): the length of the input log is what was accepted, the inputs
with the mark `consumed` what was marked, the checkpoint's trajectory what is
durable, the turn's status its life (`LifeOf`: completing is sealed, every
other status before the end is open), and a request that is over `settled`.  The abstract steps join what the code does in one transaction and order
what it does in several: no mark without its trajectory, no seal over an unread
input, no success without a seal.  What is over stays over only with its request: a
turn that gave up may be taken up again until then, an answered one may not.
`ConversationLock` implements `TurnLine`
(`ServedAsInLine`) with where each call stands for the line; the promises, the
chains and the map's entry are gone in it.

### Correspondence

*Atomic steps.*  Each action is a transaction or guarded `updateMany` together
with the synchronous code around it.  `updateMany` that matches nothing is the
second disjunct of the action (`Announce`, `Report`, `WakeClaim`, ...).  What
the caller does with a refused update is modelled as written: `executeRequest`
returns without draining, recovery falls through to `failInterrupted`.

*Stages.*  `exec.at` is the await at which `executeRequest` stands, from the
creation of the user message to the `finally`.  `exec.aborted` is the abort
signal; it is looked at where the code calls `throwIfAborted` or reads
`signal.aborted`, and nowhere else.

*Stop.*  Five steps: read the active request, mark it CANCELLING, signal the
execution (or, without one, cancel the turn, settle the message, settle the
request).  One stop is under way at a time; several may follow each other.

*Crash.*  Everything volatile disappears at once, between any two steps, and
recovery starts from its snapshot.  Its two bulk updates have no status in
their where clauses; the model writes what they write.

*AgentTurn.*  A trajectory is reduced to the input numbers in it, whether a
clarification is open, and the budget counters.  What the model answers, whether
a tool makes progress and whether evidence is missing are free choices.  The
counters of retries (context 3, length 3, empty answers 2, verification 1, no
progress 5) only limit choices that are free here, so they are left out: the
model budget alone already ends the loop.  A turn and its request end in three
steps with a crash possible between any two: the turn row (`Complete`: complete,
fail or cancel), the message (`Finalize`, where a stop is noticed for the last
time), the request (`Report`).  A turn whose failure is written over a ready
checkpoint while its request is still RUNNING is resumed by the recovery, and
`turns.start` makes it running again; `Claim` and `Start` let it be.

*WorkflowBoard.*  Every operation is one transaction under the conversation's
advisory lock, so each is one action and its throws are guards.  Which of
several executable phases is next depends on positions the agent may patch, so
the model takes any.  One `workflow.update` may patch, add, remove, skip, cancel,
complete and choose, and the action does all of it in the code's order.

*WorkflowTurns.*  `dispatches` are `dispatchRequest` calls by the await they stand
at: new, fresh (the checks before the lease), leased, rechecked, created, bound,
acting (under the conversation lock), post, decided, closed.  The code decides
whether a request is stale by comparing the `createdAt` of the newest turn link
with the request's; here a request is `overtaken` from the moment a turn is bound
after it.  `closed` records that the turn a request led to has ended, for
`NoSecondTurn` alone.  The chat does not await `afterTurn` of the user's turn
(`chat-turn.service.ts:710`): the request becomes terminal before, during or
after it (`UserReports`), and it is the request that makes the user's activity.

*Approval.*  `waitForDecision` is a look, the registration of the waiter, a poll,
an expiry or abort that settles the waiter and then, one await later, the row
(`MarkGivenUp`).  `decide` reads, permits, writes under the guard
`status = pending`, and answers the waiter it looked up before the write (`held`).

*Automation.*  The service methods that read a row and write it by id later are
two steps (`Ask`, `Serve`; `FinishRead`, `FinishRow`); guarded updates are one.
`wake` numbers the times an automation is set to wake up, since `claimDue`
compares `nextWakeAt` with what it listed.  `chat` is an open chat turn of the
conversation: one that runs makes `prepareMessages` find it busy by its status,
and one that waits for its user (WAITING_USER is not among the busy statuses)
does by its message, which stays unfinished.

*GrowReviews.*  The two intervals each work one job at a time and interleave at
every await; a fault tears a delivery or a review apart at any of them, and the
word of a failed delivery may fail to be written too (`LeaveClaimed`).  A claim
that has run out is one whose process crashed or that was left so, since a tick
waits for its own.  A turn that was cancelled has no outcome and gives neither
count nor receipt; a skill's first version has none to roll back to.

*Retention.*  A file is its storage key.  A purge is a read, the transaction
that enqueues deletions and deletes rows (or is rolled back because an upload
made a row meanwhile), and the processing of the tasks.  `lapsed` is a claim older
than ten minutes; a claim lapses under a slow worker or after a restart.

*Timeline.*  A call's events are its versions 1, 2 and 3 (`version` of the
projector), or 3 alone when the loop refuses it.  The client's
`RuntimeTimelineState` is reduced to the version it shows of each call and its
cursor: `seenEventIdBuckets` only keeps an event from being handled twice, which
for an activity changes nothing, since one that was seen is never newer than what
is shown.  `replays` has one entry per connection, because a replay asked for on
an earlier one may still land.  The snapshot the bus keeps with the message
reaches the client as events without a cursor and is left out: it can only show
more.  Server and client share nothing but the wire, requests and answers.

*ConversationLock.*  A call is three atomic stretches: up to `await previous`,
from there to the call of `action` (or to the throw of an aborted signal, which
runs the `finally` at once), and the `finally` after the action.  The call's
number stands for the promise it makes, so `previous` is the number of another
call, or 0 for the resolved promise a new chain starts with.  `queues` keeps
every QueueState object ever made, because a call keeps its own (`current`) even
when the map holds another.

## Runs

Bounds are constants in the cfgs and appear in guards only: `MaxCrashes`,
`MaxStops`, `MaxSteers`, `MaxRecycles`, `MaxBatches` (ChatTurn); `MaxInputs`,
`MaxCrashes` (AgentTurn); `MaxCalls` (ConversationLock); `MaxChanges`,
`MaxDependencies` (WorkflowBoard); `MaxVersion`, `MaxUserTurns`, `MaxFaults`,
`Slots` (WorkflowTurns); `MaxRequests` (Approval); `MaxWakes`, `MaxEdits`,
`MaxChats`, `MaxRestarts` (Automation); `MaxDrops`, `MaxBoots`, `MaxCrashes`,
`MaxUnstored` (Timeline) and `MaxMade` (MCUserView); `MaxFaults` (GrowReviews, Retention).
The other constants are parameters of the code.

| run | question | bounds | result |
|---|---|---|---|
| `live` | does a turn act only under its request and report only what is committed, without a restart? | 2 messages, 1 stop, 1 added input, 1 recycle, 1 batch | holds, 1.3 M states |
| `restart` | do the callers keep the queue's rules over crashes, with recovery beside new traffic, and is no tool batch replayed? | 2 messages and 1 crash, or 1 message, 2 batches and any three of 2 crashes, a stop and an added input | holds, 1.3 M |
| `liveness` | is any queued message or answer forgotten, without or over a crash? | 2 messages with a stop or an answer, or 1 with both over a crash | holds, 0.3 M |
| `stop` | does an accepted stop end the turn? | 1 message, 1 stop | violated |
| `waiting` | can an interrupted turn that has asked still be answered? | 1 message, 1 crash | violated |
| `loop` | are inputs read once and in order, do budgets hold, does the loop end? | 3 model calls, 2 tool calls, batches of 1 and 2, 2 inputs, 2 crashes | holds, 0.28 M |
| `question` | is a question answered by an answer? | same, no crash | violated |
| `view` | whatever the agent does to the graph, is one phase worked at, and does a running workflow have one?  Does a client show every tool call it has to? | 3 phases, 1 change to an update and a choice of the current phase, 1 dependency each; 1 call with 1 lost connection or reload, 1 bootstrap, 1 restart, 1 row not stored, or 2 calls with 4 events and 1 lost connection or bootstrap | holds, 0.31 M |
| `turns` | does a request lead to at most one turn, and to one in the end? | 2 phases, 2 dispatches at once, 1 user's turn, 1 fault | holds, 0.79 M |
| `conversation` | four parts, each on its own: the queue, the lock, consent, files | 3 messages; 4 calls of the lock; 1 tool call, 2 clients, 2 requests, or 2 tool calls and 1 request; 1 branch or 2 files, 2 workers, 1 fault | holds, 0.30 M |
| `background` | two services, each on its own: grow and automations | 2 events, 2 attempts, 1 fault; 1 automation with 3 wake-ups, 4 requests, 1 chat turn (that may stay open), 1 restart, or 2 automations with 2 wake-ups, 1 request and 1 chat turn | holds, 0.53 M |
| `branch` | is a file there as long as a conversation shows it? | 1 branch, 1 file | violated |

*Sums.*  `MCConversation`, `MCBackground` and `MCUserView` extend modules that share no
state and no step.  A variable chosen at the start says which one moves; the
others stay in one initial state.  A behaviour of the sum is a behaviour of one
of them, so the run has the states of each, not their product, and a property
of one is checked on all of its behaviours.  Nothing about their interaction is
claimed there: where parts interact, a module holds both (`ChatTurn`,
`WorkflowTurns`, `Automation` with the chat turn, `Retention`,
`Timeline` with server and client).

Why the bounds are enough for the cases they are for: two messages are one turn
in every stage with one queued behind it, which is what draining, claiming and
recycling tell apart (the queue on its own is checked with three and proved for
any number).  One stop meets every stage of the turn and of recovery; a second
finds CANCELLING and changes nothing.  One added input is a steer or an answer
at every stage.  Two crashes interrupt the recovery of the first.  Two batches
are a batch let go and one that follows it, which is what a replay is.  Four
calls are one that acts, one that waits, one that is aborted and one that finds
the entry gone, in any order.  Three phases are a container with two children,
a chain of dependencies, or a cycle the policy must refuse; changes of one
update are made one after the other by the code, and a sequence of updates of one
change each reaches what they do, but for completions that depend on each other.  Two dispatches are
a request delivered twice, or a request and its successor; one user's turn can
stand at every stage of either.  Two clients decide one call, or one decides
while the other changes the policy.  Two workers hold one task when a claim
lapses.  One lost connection makes a second one whose socket, replay and
bootstrap overtake each other and what is left of the first; the second call is
there for a cursor that passes one call's event by another's.  Two automations compete for the conversation, and the one that loses
comes again; three wake-ups are a run, the next one, and one set by a request
meanwhile.  A run that starts with its fault already spent (`turns` from the last
phase) is how two bounds are kept apart without a constraint on steps.  `restart`
uses a state constraint, and checks safety alone.  `CHECK_DEADLOCK` is off because a conversation in which everything
is settled really stops.

### What the runs show as wrong

* **A stop can strand a conversation** (`stop`).  After the last
  `throwIfAborted` of `ChatTurnService.start` the turn is going to end SUCCEEDED.
  A stop marks the request CANCELLING and sets a signal nobody reads again;
  `markTerminal` then refuses SUCCEEDED, PARTIAL and FAILED from CANCELLING and
  the orchestrator returns.  CANCELLING is an active status, so the queue stands
  until a restart.  The same happens to a turn that is parking, and when a
  running conversation is recycled and restored.
* **A question asked before a crash cannot be answered** (`waiting`), when the
  crash falls between the waiting_user checkpoint and the WAITING_USER row.
* **An earlier input answers a later question** (`question`).
* **Purging a conversation deletes the files of its branches** (`branch`).  A
  branch's object rows copy the storage key of their source, and the purge
  enqueues every key of its own rows for deletion without looking for others.
  The branch (or, when the branch is purged, the original) keeps available
  objects whose files are gone.

## Fairness

`FairSpec` of ChatTurn assumes weak fairness of the executor's, the stop
handler's and the recovery's next step, and of each scheduled drain, wake-up and
claim: they are continuations in the microtask queue or of a promise that
settles.  It does not oblige a client to submit, answer or stop, a process to
crash, nor the executor to choose a particular outcome.  A model or tool call
that never returns is excluded; each has its own timeout.  `FairSpec` of
AgentTurn assumes the same of the loop and of the start after a claim;
that of ConversationLock assumes that the continuation of a resolved promise runs
and that the turn a call runs ends, which is what `LoopEnds` says of the loop.
Nothing obliges anybody to abort.

`WorkflowTurns` assumes weak fairness of each dispatch's next step, of the
user's turn once it is there, of the outbox tick and the recovery tick for each
request, and of the clock (a lease that is not renewed expires): both ticks are
intervals that run as long as the process.  `Approval` assumes it of each call's
own steps, polling included; not of clients, of the expiry or of an abort.
`GrowReviews` assumes it of the two intervals, `Retention` of workers, of the
retry tick and of the time after which a claim lapses.  `Automation` assumes it
of the scheduler, of each run and of a request that is being served.  It assumes
nothing of a chat turn: one that has asked its user ends with the answer or a
stop, and nobody owes it either.  Faults are bounded: after the last one the service is left
alone, as liveness has to assume.

`RunsEnd` is conditional: if from some time on no chat turn is open, every open
run of an active automation ends.  While a question waits for its answer the
conversation is busy, and a run goes round between PENDING and RUNNING without
end, in the model as in the code.  `RunsEnd` is checked with one request of a caller at a time (`Callers` has one
member).  With two, `pause`, `resume`, `update` and `finishRun` write by id what
another has changed since they read, and a run can stay CANCELLING or an active
automation without a wake-up: see the hazards.

## Properties

* Queue: `SingleActive`, `StartedInOrder`, `TerminalStays`.
* Composition: `QueueSpec` (the callers implement the abstract queue),
  `DispatchUnderRequest` (no side effects under a settled, waiting or queued
  request, between restarts), `SucceededIsCommitted` (three stores agree on a
  success), `ParkedIsResumable`, `NoReplay`, `NoLostDrain`, `NoLostWake`.
* One turn: `InputsPromised` (the turn implements `TurnInputs`, of which
  `InputsReadOnceInOrder` and `SucceededReadEverything` are consequences),
  `QuestionBlocksModel`, `BudgetsHold` (`ToolBudgetHolds` and
  `ModelBudgetHolds`), `LoopEnds`.
* The lock: `ServedAsInLine` (it implements `TurnLine`; `OneAtATimeInOrder` is a
  consequence), `EntryWhileNeeded`, `EveryCallReturns`.
* Workflows: `OneActivePhase`, `RunningWorks`; `NoSecondTurn`, `RequestsHandled`.
* What a client shows: `ShownUpToCursor`, `InStep`; `NothingTakenBack` is proved
  for every constant, and TLC found it to hold within the bounds of `view`.
* Consent: `ActsAsRecorded`, `DecisionsStay`, `DecisionArrives`.
* Files: `NothingLeaks`, `FilesRemoved`; `FilesKept` is the violated one.
* Grow: `UsesCounted`, `ImplementsJobs`, `EveryReviewEnds`.
* Automations: `OneOpenRun`, `UnfinishedIsRunning`, `RunsEnd`.

Exceptions are written into the properties where the code has them.
`TerminalStays` lets recovery fail a request that had started: its bulk update
names ids and no status.  `SucceededIsCommitted` lets a succeeded turn keep the
failure message of an attempt after which the process stopped: recovery resumes
a turn with a ready checkpoint even if the message had been settled as failed,
and settling a message is idempotent.  `ModelBudgetHolds` speaks of runs without
a crash: model calls since the last checkpoint are not in it.  `OneActivePhase`
asks for the place of the active phase only where the run has a current one: an
update whose `currentPhaseId` is null leaves a phase active that is not current.
`RunningWorks` lets a run be RUNNING over nothing executable: `complete` does
that when only blocked phases are left.  `UsesCounted` allows one extra count
for each fault between the two writes of `recordUsage`; it bounds the count and
does not make it exact.  `UnfinishedIsRunning` speaks of the messages of
automations, not of a chat turn that waits for its user.  `NothingLeaks` allows
files of uploads a restart cut off.

No property says that a succeeded turn stays so.  In the model nothing orders the
recovery's list before the first claim of the new process, and a request claimed
before it is taken for an interrupted one: it can be resumed after its turn has
succeeded.  The code asks for the list while the module boots, before the server
listens, which makes that unlikely and does not exclude it (among the hazards).
`SucceededIsCommitted` holds all the same, of what the request reports in the end.

## What is proved

The proofs hold for every value of the constants under the named assumptions of
the modules (`NobodyAssumption`, `BoundsAssumption`, `BudgetAssumption`,
`WorkflowAssumption`, `PhasesAssumption`, `TimelineAssumption`: bounds and budgets
are natural numbers, a batch has at least one tool, the model budget is at least
one call, a workflow has a phase, `Nobody` is not a request and `None` no phase,
the phases of a run and the calls a client shows are finitely many).  `Requests`,
`Files`, `Events` and the other sets of actors are any sets, infinite ones too.  A theorem that needs more says
so: the conversation that uploads exists (`Original \in Conversations`), an
automation wakes at least once (`MaxWakes >= 1`), a job is tried at least once
(`MaxAttempts >= 1`), the names "none" and "user" are not dispatches, and the
bounds of a run are numbers where the type of a counter is at stake.

Every invariant and every safety property a passing run checks is the subject of
a theorem.  The runs of sums check specifications of their own: the lemmas
`PartsAreAll`, `ServicesAreBoth` and `ViewIsBoth` say that a behaviour of a sum is a
behaviour of each of its parts, so that what is proved of a part holds of the
behaviours TLC looks at, and `PartsTypeCorrect`, `ServicesTypeCorrect` and
`ViewTypeCorrect` put the types together (`TypesOK`).  Each inductive
invariant was checked with TLC before it was proved, as an invariant of a
bounded instance of its module (below, with the size where it was complete).

**`ChatTurnRequests_proofs`.**  `QueueInv` is inductive under `QueueNext`:

* types;
* `LastExists`: there is a largest sequence number, without which the `CHOOSE`
  of the next one means nothing (`Requests` may be infinite);
* `DistinctSequences` and `RowsAreCoherent` (numbered when submitted, started
  when claimed, active only if started): order is about numbers, so two rows
  must not share one, and "queued" has to exclude "started";
* `SingleActive`, `StartedInOrder`.

Submit and claim, the only statements that number or start a row, are proved one
by one; every other statement is `Quiet` and handled once.  Theorems:
`QueueTypeCorrect`, `OneTurnAtATime`, `TurnsStartInOrder`, `SettledStaysSettled`.

**`ChatTurn_proofs`.**  `Inv` is the types, `QueueInv`, and `ActorsInv`: whoever
is at work (executor, stop handler, recovery) works on a request.  From it:

* `ChatTurnTypeCorrect`;
* `ImplementsQueue`: every step of every actor is a step of the queue or leaves
  it alone, so `Spec => QueueSpec` and the theorems about the queue hold of the
  composed system;
* `NothingIsReplayed`: `NoReplay` for any number of crashes, requests and
  batches.  `ReplayInv` adds that a checkpoint `restore()` accepts (none, ready,
  waiting_user) has every batch that was let go observed, and that between
  `executing_tools` and the next `ready` the checkpoint is refused.  It needs
  that only executor steps touch checkpoints, and that there is one executor;
* `RecoveryActsOnWhatItRead`: the recovery's two bulk updates name ids and no
  status.  What was read as STARTING or RUNNING is started for good; what was
  read as CANCELLING can only become CANCELLED, since every other statement
  looks at the status (`GuardedNext`).  So the guards the model gives these two
  updates hold back no step of the code.

How turns end (`OutcomeInv`, `FirstLife`) is who may still write what.  A request
that is being cancelled, is cancelled or has failed is *doomed* and stays so
(`DoomedStays`), and whoever settles a turn from outside, the stop handler or the
recovery, dooms its request before it touches turn and messages.  So while its
request is not doomed the executor finds everything as it wrote it itself
(`HasWritten`), and a doomed one it can only cancel:

* `ParkedIsResumableHolds` and `SucceededIsCommittedHolds`, over any number of
  crashes, stops and recycles.  Neither is inductive: the row alone says nothing
  of the stages at which turn, checkpoint, message and row are written one after
  the other;
* `DispatchesUnderRequest`: until the first crash every claim is of a request
  that is still STARTING or doomed and is entered once (`ClaimedOnce`), which is
  what the row has to say for the executor to let tools go.  After a crash it
  does not hold, for a reason the code has: the recovery may resume a turn whose
  request it has failed.  So the theorem, like the run, is about a first life.

The conjunction was checked with one request, two crashes, a stop and a steer
(3,612,881 states) and with two requests and no crash (1,338,904).

**`AgentTurn_proofs`.**  None of the properties is inductive as it stands:

* `LogInv` (for `InputsReadOnceInOrder`): for some k the first k inputs are
  consumed, the checkpoint holds 1..k, so does the trajectory in memory, and what
  the loop has read and not yet consumed is k+1..m.  Reading in order returns a
  segment, and a segment after a segment is a segment (`IntervalInOrder`,
  `SegmentsJoin`);
* `ToolInv` (for `ToolBudgetHolds`): a checkpoint the turn can be resumed from
  counts every tool that ran, in any process; while tools run it is not one;
* `QuestionInv` (for `QuestionBlocksModel`): a ready checkpoint has no open
  question, and a turn that is resumed over one has an input to read first;
* `SealedInv` (for `SucceededReadEverything`): from the seal to the end of the
  turn nothing is accepted;
* `ModelInv` (for `ModelBudgetHolds`): without a crash memory, and the
  checkpoint of a parked turn, count every model call.  `BudgetsAlwaysHold` puts
  both together.

`RequestInv` (the loop runs only under a claimed request) serves the last ones.

`InputsPromisedHolds` maps every step of the turn to one of `TurnInputs` or to none
(`PromisedStep`).  It needs `LogInv`, which makes of a checkpoint's trajectory the
oldest inputs, `SealedInv` for the step to success, and `LifeInv`: the stage of
the loop says which status the turn has, an answered turn has a checkpoint nobody
resumes from, and a request is settled by the last step of a loop or when there
is none, after which nobody claims it (`SettlementIsLast`).

**`Conversation_proofs`, the lock.**  `LockInv`: there is a k such that exactly the first
k calls have left, those beyond k+1 wait, each for the one before it, and those
beyond k are on the entry of the map, which counts them and ends in the last
one.  A call whose promise is resolved is therefore number k+1
(`ResolvedIsFirst`), and leaving moves k on by one.  `OneAtATimeInOrderHolds`
and `EntryWhileNeededHolds` follow for any number of calls, and so does
`ServedAsInLineHolds`: a step of a call that is not in the way of `TurnLine` would be
one of a call whose promise is not resolved (`LineStep`).

**`Conversation_proofs`, consent.**  `RecordsOnce`: a record takes one decision while it is
pending, has the status of that decision, and leaves that status only when a
consent was acted on.  `HasItsAnswer`: a call goes on with an answer only, the
one of its record, however it heard of it (its own resolver, the re-read that an
expiry makes, or an abort that came too late).  `ActsAsRecorded` is their
consequence; alone it says nothing of the step between the decision and the
record.  `DecisionsStayHolds` proves the action property over the same invariant:
no second client, expiry, reconciliation or abort changes a decision, a row that
was refused, lapsed, given up or used up stays as it is, and a call that is over
stays over (`CallKeepsDecisions`, `ClientKeepsDecisions`).

**`Conversation_proofs`, files.**  `NothingLeaks` has to be told what the workers carry
between their steps (`WorkersKnow`): a purge that is about to write tasks, and a
task that is about to be removed, name only files whose upload has begun to
write, and a worker about to delete its task has removed the file.  What makes
the last one stable is that no upload writes a file twice (`Begun`).
Complete with 340,100 states.

**`Background_proofs`, automations.**  `OneOpenRun` depends on a list read before the claim:
`ListedIsFree` says that the automation `claimDue` has listed has no open run.
It stays so because only its own claim opens one.  The wake-up time that was
listed may be out of date, and plays no part.  `UnfinishedIsRunning` is inductive
with the types and `AsksSomething` (a request being served has something to
write).  Complete with 3,837,298 states.

**`Background_proofs`, grow.**  `UsesCounted` is about two writes and a receipt:
`CountKept` says how far the count may be from the receipts between them (`Ahead`)
and after a loss (`history.torn`), `SettlingKnows` what the dispatcher learned
from its look at the receipt (or that the turn had no outcome) and still relies on, `DispatcherWorks` and
`WorkerWorks` that a tick works on rows it has claimed and nobody else touches.
`Events` may be infinite, the receipts are finite.  `ImplementsJobsHolds` proves
both refinements of `LeasedJobs` step by step (`DeliveryStep`, `ReviewStep`): each
step of the two ticks is one of the job's or leaves it alone.  `LeasedJobs` knows
no lease and no limit of attempts, so neither is part of that.  `GrowTypeCorrect`
includes how often a job is tried: at most `MaxAttempts` times and once more for
each loss of the process or of a write, since a claim that was lost is taken again without a
look at the attempts.  Complete with two events and two faults: 5,699,546 states.

**`WorkflowTurns_proofs`.**  `NoSecondTurn` does not need the lease, and the
proof never looks at it: a heartbeat that fails, a lease taken from a dispatch
that is still at work or two dispatches side by side do no harm.  Every change of
the run gives it a new version, and requests keep theirs (`Steady`).  A turn that
runs to its end has changed the run or has found it changed: it could not be
bound, it called a tool, or there was nothing left to decide but a pause
(`LeavesItMoved`).  So a closed request is out of date (`ClosedIsMoved`), and the
check under the lease refuses it.  Complete with two dispatches and two phases:
1,304,242 states with a fault and a user's turn.

**`UserView_proofs`, induction.**  Two things here need one: on a board the
levels on which parents are completed, in a client the events an answer brings.
The induction theorems of the library are about operators and cannot be used, so
`Induction` states the principle for a set of numbers, from the fact that
inclusion is well-founded on the subsets of a finite set.  `Iterates` follows: a
function over 0..N given by its first value and a step exists.

**`UserView_proofs`, the board.**  `BoardInv`: at most one phase is active, with a
current phase no other one is; while the run is open its current phase is a leaf,
active or blocked, whose dependencies are done, or there is none and nothing is
executable; a run that is over has nothing active.  `OneActivePhase` and
`RunningWorks` are consequences.  Three lemmas carry the operations:

* `ParentsComplete`: on any tree, completing parents level by level leaves each
  phase as it was, or COMPLETED now, open before and over children that are all
  done; so it makes no phase active.  `climb` runs as often as there are phases,
  and by `Induction` each level keeps this (`ReadyCompletes`);
* `TakeUp`: activating an executable phase makes it the one worked at;
* `EditedBoard`: patching, adding and removing phases makes none active.

Each operation then leaves a board that is worked at its current phase
(`Working`), or one without a current phase (`Resting`).  Complete with three
phases: 106,924 states.

**`UserView_proofs`, the timeline.**  A view is `Honest` if up to its cursor it
shows every row of the log or a later version; an answer `Covers` the log from a
cursor on if it brings every row between that cursor and its own.  `TimelineInv`:

* the versions of a call are stored and queued in the order they were made
  (`Ordered`), which is why the last row of a call stands for all of them;
* the client's view and the baseline of its bootstrap are honest; a replay on its
  way asks from a cursor the client has or had, and covers the log from there;
  the answer of a bootstrap covers all of it (`ReplaysComplete`, `BootComplete`);
* a connection has one replay (`OneReplayEach`), and what was sent since it was
  answered is shown or on the wire (`CaughtUp`).

`ShownUpToCursor` is `Honest` of the view, `InStep` is `CaughtUp` with an empty
wire.  What an answer does to a view is a fold of the library over its events.
`FoldExists` gives the recursive function behind it its values, and `Folded` what
they are: nothing shown gets older, and every event is reached.  `AnswerLands`
and `HonestMerge` are the two ways a view moves on: by an answer that covers the
log from a cursor it has passed, and by the merge of a bootstrap with its baseline
and with what came meanwhile.  Complete with 586,408 states.

`NothingTakenBackHolds` follows the three ways a view moves on (`ShownGrows`):
an event of the socket, an answer, a merge.  That the cursor does not go back
needs that a replay asked from a cursor the client had, which is in the invariant.

## Only model-checked

* Liveness under fairness, and ENABLED, are out of the prover's reach:
  the properties of the runs `liveness`, `loop`, `turns`, `conversation` and
  `background` that say something must happen.
* Nothing else.  The violated properties belong to runs that expect a violation.

## Not modelled

* Failures of single database calls in the orchestrator (a failing snapshot
  after a claim strands a STARTING request: see the hazards).
* WAITING_APPROVAL and WAITING_EXTERNAL are in the queue, where any caller may
  use them; the executor never does, since no code of the repository produces
  those results.
* `CONTEXT_INJECTION` inputs: no code of the repository writes one.
* Two backends on one database: the execution registry is per process and the
  desktop shell starts one.
* Workflows: the transition policy's rejections that repeat the manager's,
  context assembly, realtime events.  The user's next turn while the work after
  the last is still being done.  Two cases the code has and no property
  speaks of: an automatic turn that is superseded or fails after its link was
  bound leaves the run RUNNING until the user's next turn, and skipping the last
  child of a container by `workflow.update` does not complete the container.
* Approvals: a request made after a settings change has been reconciled stays
  pending under a policy that would allow it; plan approvals.
* Automations: expiry notices, suppression of empty results, the arithmetic of
  triggers, and a commit that fails in the handling of a failure (the message
  stays unfinished and the conversation busy until a restart).
* Grow: signals and prompts; turns of grow itself, which are delivered unread; a
  claim that runs out beside a worker still at work, for which a second process
  would be needed; a crash between `save(failed)` and `reschedule`,
  which leaves a review FAILED that had attempts left, is in the model as a
  review that is over.  A rollback that fails after its restore leaves a DRAFT
  and later drafts of the skill are refused (`draft` in the model).
* Storage: previews, downloads, and the purge of a whole agent
  (`agent/cognitive/deletion/`), which deletes files itself and keeps no task.
* Timeline: steps, summaries and contents, which have no version check, so that
  an answer older than what the socket brought replaces it
  (`runtimeEventReducer.ts:258`), and the approvals shown again on a connection,
  which can leave a decided approval waiting in the log (both among the
  hazards); the delivery of a turn's own messages; the client's reconnection
  policy (a replay or a reconnection that fails may be the last).  The client asks
  for at most 20 pages of a replay (`runtime-timeline.api.ts:23`); the model's
  replay brings all there is, so what is said of a client holds for those whose
  replay fits.
* Payloads, titles, model prompts, usage metrics.
* The response writer: waiters on one flush do not look at `flushing` again, so
  two writes may be in flight and a slow one can land after finalization
  (`chat-response-writer.service.ts:174`).  Listed as a hazard.
* The components `PROJECT.json` lists as not modelled, with the reasons there.

## Plan

1. Done: the queue, the composed turn, the loop, the lock and their proofs; the
   workflow board and its turns, consent, automations, grow, retention, the timeline.
2. Done: proofs of the safety properties of all of them, with the refinements of
   `QueueSpec`, `LeasedJobs`, `TurnInputs` and `TurnLine`.
3. The response writer, MCP sessions and the desktop's process tree, if their
   promises get written down.
