# Verification of ComposableWorkflow

TLA+ models of the workflow server (`src/packages/workflow-server`), of the
workflows of the app builder that run on it (`src/packages/workflow-app-builder`)
and of the two clients that follow its runs (`src/apps`), the TLC configurations
that check them, and TLAPS proofs of their main properties. Every definition is
translated from the TypeScript source; `PROJECT.json` maps each to its lines.
Paths below are relative to `src/packages/workflow-server/src/` unless they start
with `src/`.

## 1. The system

The server runs *workflows*: state machines written by users as handlers. A
*run* is a row of `workflow_runs` (lifecycle and current state) with a log of
`workflow_events`. `resumeRun` takes the run's lock and executes *steps*: a
step is one database transaction that reads the row, calls the handler of the
current state, and writes the outcome.

| Component | State | Operations | Hard parts | What makes it correct |
|---|---|---|---|---|
| Lifecycle machine (`lifecycle/lifecycle-machine.ts`) | none | transition map, guards | it is consulted by requests, not by steps | rows move only along the map |
| Orchestrator (`orchestrator/orchestrator.ts`) | loops in progress, lock | `startRun`, `resumeRun` | many callers for one run, silent give-up, loop bound | one loop per run; every call returns |
| Transition runner (`orchestrator/transition-runner.ts`) | row, events, child runs | a step; safe points; `launchChild`, `runCommand` | the row is read without a lock and written back whole; safe points throw through user code | transitions form a path; requests are not lost; endings are final |
| Control routes (`lifecycle/control-routes.ts`) | row, events | pause, resume, cancel | commit first, drive later; descendants | an accepted request is finalized once |
| Recovery (`recovery/`, `bootstrap.ts`) | row, events, ready flag | startup pass, reconcile route | crashes anywhere; live runs; listing limit | interrupted requests are closed, recovery is idempotent, startup ends |
| Run lock (`locking/`) | leases map, database sessions, pool clients | `acquire`, `renew`, `release` | two records of one lock, updated across awaits | mutual exclusion; nothing leaks |
| Start and idempotency (`orchestrator/start-run.ts`) | idempotency keys | `startRun` | reservation race | one run per key |
| Child runs (`orchestrator/child/`) | child rows, lineage | launch, await | stepped in the parent's transaction without their own lock | no child lost, parent resumes |
| Human feedback (`api/routes/human-feedback.ts`, `internal-workflows/`) | projection rows | request, respond, cancel | respond against cancel | one answer; the asker goes on |
| Event stream (`stream/`, `read-models/event-pagination.ts`) | cursor of a connection | poll, resume | commits during polling, reconnection | every event once, in order |
| Spec-doc workflow (`src/packages/workflow-app-builder/src/workflows/spec-doc/`) | state data of a run | integrate, check, ask, classify, expand | queue and detour stack, items and answers carried over passes | nothing skipped, nothing misattributed, nothing lost |
| Consistency child (`.../spec-doc/consistency-follow-up-child.ts`) | aggregate of its stages | one delegation per layer, resolution | overlapping findings, crashes | coverage is exact |
| Copilot prompt (`.../workflows/copilot-prompt.ts`) | a process, a session, a transcript | exchanges, retries, timeout | replies, exits and timers race | replies are not mixed up; every delegation ends, with its process |
| Web dashboard (`src/apps/workflow-web`) | panels, board, stream cursor | load, retry, refresh, merge frames | snapshots and a stream of different ages | the board is the run's history |
| CLI (`src/apps/workflow-cli`) | cursor | `runs events --follow`, start with retries | reconnection, repeated requests | each event once; one run per key |
| Commands (`command/`) | child process | run with timeout | kill and close race | settles once |
| Registry and loader (`registry/`, `loader/`) | registered types | load packages | partial failure | no half-registered package |
| Read models, observability, HTTP wiring, schema, API types | none | queries, logs | - | - |

Interaction. Routes, `startRun` and reconciliation commit their own
transaction and then call `resumeRun`, some awaiting it, some not. All of them
share the database rows, the run lock and one connection pool. `resumeRun`
calls the lock provider and the transition runner; the transition runner calls
user handlers, which call back (`transition`, `complete`, `fail`,
`runCommand`, `launchChild`). A child is stepped by its parent's step, in the
parent's transaction. A feedback run is a child whose end is written by the
response route, which then resumes its parent. The spec-doc workflow launches
three kinds of children: copilot prompts, the consistency child (which launches
prompts of its own), and feedback runs. Clients only see committed rows.

`PROJECT.json` lists every component with its status, and the hazards of this
code at the lines where they bite.

## 2. Modules

    Lifecycle            vocabulary: lifecycles, guards, safe-point outcomes
    RunExecution         runs, steps, requests, recovery, crashes (extends Lifecycle)
    RunExecutionProofs   its theorems about rows, locks and states
    RunHistoryProofs     its theorems about histories
    RunRow               a run's row, as one step at a time works on it (abstract)
    RunLock              the abstract run lock
    AdvisoryLock         PostgresAdvisoryLockProvider and the pool under resumeRun
    AdvisoryLockProofs   its theorems
    ChildRuns            a chain of parent and child runs down to a feedback run,
                         starts with an idempotency key (extends Lifecycle)
    ChildRunsProofs      its theorems
    StartOnce            what an idempotency key promises (abstract)
    EventStream          event numbers, the stream route, the CLI and the dashboard
    EventStreamProofs    its theorems
    EventFeed            what a reader of the log is promised (abstract)
    SpecDoc              the spec-doc workflow
    SpecDocProofs        its theorems
    CopilotPrompt        one delegation to a copilot process
    ConsistencyFollowUp  the consistency child and its delegations (extends CopilotPrompt)
    ConsistencyFollowUpProofs   the theorems of both
    RankLemmas           lemmas about the n-th element of a finite set of numbers
    MC*                  small instances for TLC

`RunLock` sits between the two machines: `RunExecution` uses its `lock`
variable as a `RunLock` (`UsesRunLock`), and `AdvisoryLock` implements one
(`ImplementsRunLock`). Both refinements are checked by TLC and proved. What
`RunExecution` assumes beyond safety, that a lock is released and can be taken
again, does not hold in two situations, which are runs of their own
(`AdvisoryLock_leak`, `AdvisoryLock_pool2`).

Three more abstract specifications say what a component looks like from outside;
the detailed one is proved to implement each, by a mapping of every step to a step
or a stutter:

| Abstract | Implemented by | Mapping | Says |
|---|---|---|---|
| `RunRow` | `RunExecution` (`OneStepAtATime`) | `row` is the row; `read` is the row the one step in progress has read (`reading`), if any | one step at a time reads a row, and writes what it read or finalizes a request; requests change the lifecycle only |
| `EventFeed` | `EventStream` (`FollowsFeed`) | `feed` is `events`; `delivered` is the events of the `printed` lines (`printedEvents`) | the log only grows, by whole transactions; a reader gets it event by event, each once |
| `StartOnce` | `ChildRuns` (`StartsAtOnce`) | `exists` is that the root has a row; `answer` is what each client was told (`answers`) | a keyed start is one instant |

### RunExecution

| Model | Code |
|---|---|
| `row`, `log`, `trail` | `workflow_runs`, the types in `workflow_events`, the payloads of `transition.completed` |
| a worker (`pc`, `job`, `snap`, `iteration`) | one asynchronous activity: a request, a start or a reconcile pass, which ends in a `resumeRun` call; `snap` is the row its current step read |
| `lock`, `reconciling` | the run lock and the `reconcile:<runId>` lock |
| `phase`, `toRecover` | startup reconciliation, before the listener opens |
| `BeginStep` | `getRunSummary` at the start of the step's transaction: no row lock (READ COMMITTED) |
| `PassSafePoint`, `StartOperation` | the safe point in front of `runCommand` or `launchChild`, and the `command.started` append, which takes the row lock |
| `Interrupt` | a safe point that finds a transitional lifecycle and throws `SafePointInterruption` |
| `Transition`, `Complete`, `Fail`, `NoProgress`, `SettleStep`, `QuietStep` | the outcomes of `runTransitionStep` |
| `AbortStep` | any failure of the step's transaction |
| `Crash` | the process dies: transactions roll back, advisory locks end with their sessions |

Granularity. From its first append a step holds the row lock (`appendEvent`
selects the run `FOR UPDATE`), so everything after it that concerns the row is
one action, unless user code runs in between (`holding`). Requests and
reconciliation lock the row before they read it, so they are one action each
(`RowFree` is the row lock). A refused request changes nothing and is no
action. An event whose type no property looks at (`state.entered`,
`transition.requested`, `command.*`) is left out of `log`. Runs have no
children here, so cancel's descendants loop is empty; a step that launches a
child is an operation like a command.

`SwallowInterruption` stands for handlers that catch what `launchChild` or
`runCommand` throws and call `ctx.fail`, as the spec-doc states do
(`src/packages/workflow-app-builder/src/workflows/spec-doc/states/`). Handlers
that catch it and transition or complete are not modelled.

`Interrupt` and `SwallowInterruption` are each one action, although a safe point reads
the lifecycle without a lock (`transition-runner.ts:387`) and takes the row lock only
with its append: a request that commits between the two is left out. The safe point
would then finalize the earlier request over the later one, the kind of loss that
`LostOnlyToOverlap` already allows, as the step had read the row before.

### AdvisoryLock

`acquire`, `renew` and `release` are cut at their awaits: the code between two
awaits is one action; a query is a step in the database, and its answer
reaches the caller in a later one. `lease` is the provider's map, `session`
the advisory locks in the database, `idle` and `queue` the pool. The pool is
external code, modelled from how it is used: `connect` waits in order, and a
released client goes back unchanged, with whatever locks its session holds.
A call keeps one client for its lock and takes one more for each step. Owner
ids are the callers' names and are used again by later calls, where the code
makes a fresh one: this is sound because no lease ever names a call that is
over (`LeaseHasCaller`, proved).

### ChildRuns

| Model | Code |
|---|---|
| runs `1..Depth` | a root, its child, and so on; run `Depth` is a `server.human-feedback.v1` run |
| `row` | committed lifecycles; `NotStarted` is no row |
| `request`, `accepted` | the status in `human_feedback_requests`; responses that returned 200 |
| `driver`, `wanted` | the `resumeRun` call inside a run's lock; calls that wait for it |
| `at`, `phase`, `snap` | the run whose `runTransitionStep` a driver is in, how far it is, and the summaries it holds |
| `writes`, `held` | what its transaction has written and locked |
| `cancel` | a cancel request between its reads and its updates |
| `start`, `key` | start requests and their idempotency record |
| `SettleOnEntry`, `PassSafePoint`, `FinishWithChild`, `Park` | the safe points of a step, each on the row as it is at that point |
| `LaunchChild`, `ReenterChild`, `RejectLaunch` | `launchChild` with a new key, a known key, a refused request |
| `Return` | a step's result: a commit, or what `awaitChild` makes of it |
| `Respond` | `POST /human-feedback/requests/:id/respond` |

A step that is nested in another one has no lock of its own run and reads
committed rows and its transaction's own writes (`View`). A write waits for
whoever holds the row's lock (`RowFree`). Two transactions that wait for each
other are ended by the database: `AbortStep` and `AbortCancel` let any waiting
transaction be the victim, so a step that waits for good is always ended.
Each workflow has one state, whose handler launches its child; the transitions
of a run with more states are `RunExecution`'s. `Respond` is one action although
it locks the projection row and then the run's: its checks are made under both.

### EventStream

| Model | Code |
|---|---|
| `row` | the lifecycle in the run's row |
| `events`, `open` | committed `workflow_events` of one run by sequence; the appends of open transactions |
| `stream` | a connection to the stream route: the boundary of its loop, and frames in flight |
| `cursor` | the follower's last cursor |
| `printed` | the lines of `runs events --follow` |
| `phase`, `panels` | `runInitialSnapshot` and what its requests returned |
| `board` | `streamState`: timeline, watermark, summary |
| `AppendEvent` | `appendEvent` and the routes' `appendLifecycleEvent`: `MAX(sequence) + 1` under the row lock |
| `Poll`, `Connect`, `Drop` | one turn of the route's loop; opening with a cursor; losing the connection with what is in flight |
| `EndTransaction`, `RowsAfter` | a commit, and the lifecycle it leaves in the row: that of its last lifecycle event, or the `running` a step has read |
| `ApplyFrame`, `Load`, `Retry`, `Refresh` | `applyStreamFrame` and the dashboard's queries |
| `Cancel`, `CancelAccepted`, `CancelForgotten`, `isCancelling` | `cancelRun`: the request, its answer, its failure |

A poll reads committed rows only, and because sequences are allotted under a
lock held to the commit, a smaller number never commits after a larger one: this
is what the boundary relies on. The React updater may or may not have run when
`onFrame` returns, so the dashboard's cursor may lag (a free choice in
`ApplyFrame`). The two followers share nothing, so the instance has one at a
time. Events are known by their sequence, and their kinds are a constant: the
model asks only whether an event is a log line and whether its frame sets a
lifecycle (`LifecycleKinds`). Nothing keeps a writer from appending after an
ending, as `appendEvent` does not; a step that writes back the `running` it had
read, and `workflow.resumed`, which sets no lifecycle, are why the row and the
last lifecycle event can differ. An answer to a cancel request that arrives while
the panels are loaded again is taken when they are loaded, which comes to the same.

### SpecDoc

The variables are the fields of the run's persisted state data; every state's
handler is one action per outcome, since its transition and its data are written
in one statement. `feedback` is what each feedback child was answered, under its
idempotency key (question, pass, attempt): asking again under the same key finds
the same child and its old response, which is how the code reuses answers.
`deferred` is the stack of detours. What a language model returns (questions,
action items, whether a text is a question, whether a follow-up is needed) is a
free choice within its schema and the handlers' checks: a check may return an id
twice, and a check or an expansion may return the id of the completion question
(`reserved` is the history of that). `DelegationFails` covers every error path: they all
fail the run. `found`, `passed` and `askedBy` are history variables.

A response has at most one option: the route rejects what the validators would
(`cardinality` in `api/routes/human-feedback.ts`), so the handler's branch that
asks the same question again after an invalid response cannot be taken, and is
not in the model.

### CopilotPrompt and ConsistencyFollowUp

`CopilotPrompt` is `executeWithCopilotAcp`: the four kinds of exchange, the
transcript they share and the offset each one takes, the timer, and the process
with its two grace periods. The agent replies, streams, exits or stays silent as
it likes. `ConsistencyFollowUp` runs one such delegation per prompt layer, merges
the outputs and resolves; every variable of the child run is in one transaction of
its parent, so a crash leaves nothing and the parent launches a new child
(`Crash`). The module extends `CopilotPrompt`: a delegation's steps interleave
with nothing but the crash, since the child awaits it.

## 3. Runs

| Run | Expected | Shows |
|---|---|---|
| `RunExecution_safety` | pass | the safety of requests, steps, reconciliation and a crash in any order |
| `RunExecution_liveness` | pass | calls return, driven requests settle, startup completes, interrupted runs are closed |
| `AdvisoryLock_pool4` | pass | the provider implements the lock, and with enough connections every call returns |
| `ChildRuns_chain` | pass | one run per key, one answer per request, which ended runs can change and how, an answered parent goes on |
| `EventStream_follow` | pass | followers get every event once and in order, the live board is exact, both catch up |
| `SpecDoc_passes` | pass | questions, answers and action items survive detours, and what an integration can leave out |
| `ConsistencyFollowUp_sweep` | pass | replies are not mixed up, no process stays, the coverage is exact, the child ends |
| `RunExecution_lost_request` | violation | a step overwrites a pause accepted while it ran |
| `RunExecution_two_endings` | violation | a swallowed interruption leaves two endings |
| `RunExecution_cancel_crash` | violation | a crash leaves a run cancelling for ever |
| `AdvisoryLock_leak` | violation | a lock and its connection are never released |
| `AdvisoryLock_pool2` | violation | all connections are held by calls that wait for one |

Bounds of `RunExecution`: one run, since runs share nothing in this module but
the startup list; two workers, enough for every pairwise overlap of a step
with a request, a reconcile pass or another loop (three requests of which each
waits for the lock behave as one at a time); two requests, so that one can
overtake another; two transitions and a two-state cycle, so that a state can be
entered again; three iterations, so that the loop bound is reached; one crash
and one aborted step in the safety run, two crashes in the liveness run, so
that recovery itself is interrupted. Workers are symmetric in the safety run.
Bounds of `AdvisoryLock`: two runs and two callers, so that calls meet on a run
and compete for the pool on different ones; four clients are the two that each
call needs at once, two are what it takes to run out; four calls, so that each
caller comes back to what an earlier call left; two attempts, so that the last
one fails. The violations use the smallest instance that shows them.

Bounds of `ChildRuns`: three runs, so that there is a step nested in a step and a
parent that is a child; three control requests, so that a pause or resume meets a
cancel of an ancestor and its result (the safety properties are proved for any
number of runs and requests); two starters, since a third one finds what the
second does. The exception of `AnswerWakesParent` (`ParentOvertaken`) takes a fourth control
request: with one starter and four or five requests TLC finds the property true, and
false without the exception; that an answered parent is never left without a call
for any other reason is proved for any number (`AnswerIsTakenUp`, section 4). Bounds of `EventStream`:
three events, a page of one and batches of two, so that the page leaves two events to
the stream and they come in one batch or in two; of each kind that the definitions tell
apart; a lost connection, and two reloads (a failed panel, a retry, a cancel, or a
refresh), one more than it takes to reset the board behind the stream; one follower at a
time, as they share nothing. TLC finds the invariants, `IInv` included, to hold with four
events and pages of two as well. Bounds of `SpecDoc`: two checks, so that what one pass
leaves is seen by the next; three ids that a check may return, the middle one that of
the completion question, up to two of them at once and perhaps the same one twice; two
follow-up ids, which a check may have returned as well, one of them again the completion
question's; two detours, at most two of them of one question, so that a follow-up can bring
back a question that waits deeper on the stack; four recorded answers, so that a pass is
left after its detours and the next one has answers of its own (2.7 million states). Bounds of `ConsistencyFollowUp`: two layers that share
a checklist key, one finding of each kind, one retry, one chunk per exchange
(two would be read by the same offset), one crash.

`CHECK_DEADLOCK FALSE` everywhere: the system rests when no request is left
within the bounds.

Properties of `RunExecution`:

- `ExclusiveRunner`, `TransitionsChain`, `SnapshotDrift`: one loop per run, and
  therefore no transition from a state that has been left. The row a step works
  on can be stale, but only in its lifecycle and only by requests.
- `LostOnlyToOverlap`: how a request can get lost. An accepted request is
  finalized, or superseded by cancel or recovery, or overwritten by a step that
  had read the row before it was accepted; nothing else loses one.
- `SettledOnRequest`, `RecoveryNeedsProgress`: every safe-point event answers a
  request of its own; recovery is not repeated without progress.
- `TerminalSealed`, `TerminalIsFinal`: the ending of a run is final, and the row
  and the log agree about it.
- `WorkersFinish`, `RequestsSettle`, `StartupFinishes`, `InterruptedSettle`: calls
  return, a request is finalized while its run is driven, the listener opens, and
  what a crash interrupted is closed.

Properties of the other modules:

- `AnsweredOnce` (ChildRuns): a request is answered at most once, never after its
  cancellation, and no ancestor completes without the answer.
- `EndedUnlessStale` (ChildRuns): how an ended run can change. A cancel writes
  descendants it read before they ended; a step writes a child it has written
  already, or commits its own stale row. Nothing else does.
- `StartsAgree` (ChildRuns): concurrent starts with one key end with one run.
- `AnswerWakesParent` (ChildRuns): after an answer the parent that asked goes on,
  but for a lost call, a stale write of the answered run, and `ParentOvertaken`
  (section 5).
- `FollowedOnce`, `CatchesUp` (EventStream): every event once, in order, and in
  the end all of them, through lost connections.
- `BoardExact` (EventStream): the live board has every event up to its watermark;
  where summary and page were read at the same point, its counter is theirs, its
  lifecycle is the row's as read and as the frames behind it have changed it, and it
  calls a run ended only if it shows an ending. Its two exceptions are what the code does: the
  events between the page and the top of later-read logs, and a board that was
  reset while the stream behind it stayed open.
- `AnswersAreTheHumans` (SpecDoc): no answer is attributed to another question.
- `NothingSkipped`, `DetourFirst` (SpecDoc): no question is passed over, and a
  detour is finished before the queue goes on, but for a free text and for a
  deferred id that is in the queue twice. Neither holds in a run in which a model has
  used the id of the completion question (section 5); TLC finds them false without
  that exception.
- `ItemsReachTheSpec`, `LostOnlyToStaleItems` (SpecDoc): what a check found is in
  the next integration, or, in such a run, still stashed; and answers are left out of
  one only when it carries the items of an earlier check in their place.
- `OwnText`, `NothingLeftRunning` (CopilotPrompt): a reply is read from the text
  of its own exchange; a delegation leaves no process that was not told to end.
- `CoverageIsExact`, `ChildEnds` (ConsistencyFollowUp): the resolution is given
  what all layers reported; the child ends whatever the agent does.

Fairness. `WF(Drive(w))`: the event loop runs every continuation that is
pending, and handlers, queries and commands end (commands have a timeout).
`WF(StartupStep)`: `bootstrap` awaits the startup pass. No fairness for
requests, crashes, failures, or reconcile passes after startup. The liveness
run sets `MayGiveUp` to false: giving up is a timeout (200 attempts, 10 ms
apart) under which no request need be driven. In `AdvisoryLock`,
`WF(Proceed(c))` and `WF` of the pool say that queries are answered and a free
client is handed out; `SF(LeaveLoop(c))` says that a loop that could leave after
every step does not go round for ever, which its bound of 256 guarantees.
In `ChildRuns`, `WF(Driving)` says only that the server does not stand still while any
call or any request's transaction can go on; nobody is bound to respond. In `EventStream`, the poll loop,
the reconnection timers and the readers go on by themselves; nobody is bound to
append, and a follower need not catch up with a writer that never pauses. In
`ConsistencyFollowUp`, the handlers and the timers go on; the agent and its
process have no fairness at all, so `ChildEnds` rests on the timer.

## 4. Proofs

All for every value of the constants, from the named assumptions on them (null
values are none of the real ones, the bounds are naturals, the workflow's
transitions are between its states).

`RunExecutionProofs`. The invariant `IInv` adds to the properties: whoever is
past `acquire` is the recorded holder of the lock (`OwnsLock`, which makes
exclusion inductive); `resumeRun` is called for existing runs only; handlers
run only in steps that read `running`; a step is within the loop bound; a run
without a row is in its initial state. The core is that `SnapshotDrift` and
`TransitionsChain` support each other: a transition leaves the state the step
read, which is the current one because nobody else is in a step of that run,
and so it extends the path. Theorems: `TypeCorrect`, `OneRunner`,
`SnapshotsAgeByRequestsOnly`, `TransitionsFormAPath`, `EndedRunsStayEnded`,
`OrchestratorUsesRunLock`.

`AdvisoryLockProofs`. The leases map is unreliable, so the argument is about
sessions: a call that was granted a lock uses the client whose session has it
(`SessionOfCall`), and a client has one user (`OneUserPerClient`); two calls
granted the same run would share a client. `CallHas` says which clients a call
has at each point, `QueueOnce` that a waiting caller is in the queue once.
Theorems: `TypeCorrect`, `ClientsAreNotShared`, `LeasesNameLiveCalls`,
`OneCallInside`, `ProviderImplementsRunLock`.
Two more explain the two violated runs. `LocksLeakByOverlapOnly`: the leak needs a
call inside its loop while another is between its unlock query and the deletion of
the lease; as long as that does not happen (`ReleaseFinishesFirst`), a call inside
has its lease in the map and every lock has its call (`LocksKept`).
`PoolServesWaiters`: each client is idle, or a caller's, or has a locked run's
session (`ClientsAccounted`), so a pool of one client per call and one per locked run
never makes a call wait; `TwoClientsPerCallAreEnough` puts the two together. The
count is exact: TLC finds a waiting call with three clients for two calls.

`RunHistoryProofs`. Histories are about pairs of positions, so the invariant
`LogInv` ties the end of the log to the row: `LastEventTells` says which last
safe-point event goes with which lifecycle, and a step that has read a
transitional lifecycle still has its request unanswered in the log
(`SnapshotRequestOpen`). The second one is what a stale row needs: such a step may
finalize the request, and nobody else has. Theorems: `EndedRunsAreSealed`,
`SafePointsAnswerRequests`, `RecoveryIsIdempotent`,
`RequestsAreLostToOverlapOnly`, with swallowed interruptions included.
`EndingsComeLast` and `RunsEndOnce` say when the claim refuted by
`RunExecution_two_endings` holds: the second ending is always a failure after a
cancellation, and handlers that let the interruption through leave one.

The same module has what is about rows rather than events. `RowsAreSteppedOneAtATime`
is the refinement of `RunRow`; its invariant `ReadingFacts` says that the step in
progress is unique and what it has read agrees with the row but for requests.
`MapIsLeftByStaleStepsOnly` follows from it: a write off the declared lifecycle map is
one of a step that read before the latest request, so `RunExecution_lost_request` shows
the only kind of departure. `NoLockIsLeft`, `StartupClosesWhatCrashesLeave` and
`NoRequestIsForgotten` are the safety halves of the liveness properties: no lock is
held by a call that is gone; the listener opens only when what a crash interrupted is
closed (`StartupInv`); and an open request has, at every moment, a call that will
settle it (`WillSettle`), or is on startup's list, unless some call gave up, some
transaction failed, or a crash caught a cancellation (`StartsAfterCrash`). The last two
assume that there are no more runs than the startup pass lists (`ReconcileLimit`, 100 in
the code): beyond it they are false, which is a hazard of its own. TLC shows that none of the excuses in
`RequestsAreTakenUp` can be dropped.

`ChildRunsProofs`. The invariant adds: before the start commits there is nothing
to drive (`NothingBeforeStart`); the key tells how far its one holder is
(`KeyTells`); a completion, committed or not, goes back to the answer
(`CompletedIsAnswered`); a transaction writes only rows it has locked, and a run
being cancelled is as its request found it (`LocksHold`); a step has read
`running` of every run above the one it executes (`ReadsHold`). Every action that
ends a step does it through `Return`, so one lemma covers them: a step writes only
the run it executes, which it has not read as ended. Theorems: `TypeCorrect`,
`OneAnswer`, `OneRunPerKey`, `EndedRunsChangeByStaleReads`. `ProjectionMatchesRuns`
relates the projection to the rows, for which the uncommitted writes must fit it as
well (`WritesProject`); `KeyedStartsAreInstants` is the refinement of `StartOnce`.

`AnsweredParentsAreDriven` (`AnswerIsTakenUp`) is the safety half of
`AnswerWakesParent`: while the answer stands (no call lost, the answered run not
overwritten) and the parent is not overtaken, a parent that runs has a call that is
due or under way. Its invariant `AnswerHasACall` says where the call is: wanted, about to step,
in a step that reads the child, or the row, after the answer (`FindsAnswer`), or not needed
because the row has settled, and whoever has written that the parent runs will find
the answer itself (`ParentRests`). An answer that stands has stood since it was
given (`StoodBefore`), and a step writes only below itself and never a transitional
lifecycle (`WritesBelow`); so each step of the parent, or above it, reads the ended child
again or leaves a row that has settled (`ParentStepKeepsCall`, `OtherStepKeepsCall`).
That the call then runs to the end is liveness, and stays with TLC. TLC also checked this
invariant for three runs with four and five requests before it was proved.

`EventStreamProofs`. Four parts: the numbers have no gaps and one transaction at
most has more (`NumbersInOrder`); the frames in flight are the rows up to the
boundary and the cursor is not ahead of them (`FramesInOrder`); printed lines end
where the cursor is (`PrintsInOrder`); the panels are prefixes of the log
(`PanelsFit`), from which the board goes on one event after the other
(`BoardFollows`). Most of the work is about `Ascending`, the n-th element of a
finite set, in `RankLemmas`. Theorems: `TypeCorrect`, `PrintsEachOnce`,
`BoardIsTheRuns`, and `FollowingIsAFeed`, the refinement of `EventFeed`. For the
lifecycle the board shows, `RowFits` says that a row which has ended has its ending in
the log, and `LastAdds` and `LastKept` follow the last lifecycle event through frames and
commits; nothing is assumed about what comes after an ending.

`ConsistencyFollowUpProofs`. `ProcessToldToGo` says that whoever settles or fires
the timer has dealt with the process; `StagesCounted` and `SeenIsReported` relate
the aggregate to the stages' outputs. Theorems: `TypeCorrect`, `RepliesReadOwnText`,
`ProcessesAreToldToGo`, `SweepIsComplete`, for any sequence of layers.

`SpecDocProofs`. The invariant says that the index points into the queue, and
behind the item whose text is being classified (`IndexInQueue`); that an answer
comes from a response that is never taken back (`AnswersGiven`); and where the
latest check's items are until an integration carries them (`ItemsKept`).
`NothingSkipped` needs to know how far back the queue can still go: an item has been
passed when it is behind the index or behind the first item of a deferred question
(`Behind`), and such an item is answered or deferred (`StackInQueue`); the completion
question comes first, and all else in its queue is a detour of it
(`CompletionFirst`), or confirming it could leave questions open. This part of the
invariant is about runs in which no model has used the completion question's id: once
`reserved`, always `reserved` (`ReservedStays`), and the types, the human's answers, the
loss of answers and the fate of the items are proved without that condition. `DetourFirst` needs
the same account one step earlier, when a text is classified and when it is
expanded (`DetourAccount`). Theorems: `TypeCorrect`, `HumansAnswer`, `ItemsCarried`,
`LossExplained`, `QueueIsExhausted`, `DetoursComeFirst`.

Only model-checked: all liveness (`WorkersFinish`, `RequestsSettle`,
`StartupFinishes`, `InterruptedSettle`, `CallsReturn`, `AnswerWakesParent`,
`CatchesUp`, `ChildEnds`), because the prover has no backend for ENABLED and fairness.
The theorems without a run of their own (the conditional ones and the refinements of
this section) were checked by TLC on the instances of the runs before they were proved,
but no run lists them. Out of its reach as well: induction over data
and recursive operators, so no module declares one.

## 5. What the models show of the code

Five runs each exhibit a disagreement between the code and its documents (see
"findings" in `PROJECT.json`). The other modules show more, which their
properties describe rather than forbid:

- *Stale source* (`.../spec-doc/states/logical-consistency-check.ts:150-157`). `source` and
  `actionableItems` stay in the state data that every later state spreads. After a
  check with action items only, the next pass applies those items again instead
  of the answers given meanwhile. `LostOnlyToStaleItems` says that nothing else
  loses answers. `docs/spec-doc-generation-workflow.md:382` and `:421` of the app
  builder expect the answers.
- *Deferred question answered with text* (`numbered-options-human-request.ts`): it
  is never popped from the stack, so the exhausted queue goes back to it, finds the
  cached response, and so on until the loop bound of 256 steps.
- `Done` reads the first answer to the completion question (`states/done.ts:59`), the
  states before it the latest. A question that is asked again under the same key
  is answered twice in the record.
- *Follow-up with a known id* (`states/expand-question-with-clarification.ts`): nothing
  keeps an expansion from returning the id of a queued question. When that question
  waits below the top of the stack and the human asks back once more, the stack
  stays as it is (`state-data.ts:203-209`), the research resumes behind the new item,
  and an unrelated question is asked before the detour on top is over.
- *A question with the reserved id* (`.../spec-doc/states/numbered-options-human-request.ts:395`).
  The handler tells the completion question by its id, `completion-confirmation`.
  `queue.ts:66` says that the item is never model-authored, but no schema and no check
  enforces it. An answer to such a question of a model's leaves the queue at once: option
  1 goes to `Done` with questions open, any other option to the next integration without
  the stashed items, which stay behind, as the stack of deferred questions does: a later
  pass asks in the order of that stale stack and skips questions, and an early answer is
  read as the confirmation when a later queue is exhausted.
- *Repeated ids in a check* (`.../spec-doc/consistency-follow-up-child.ts:305`).
  `followUpQuestions` is a list that nothing deduplicates, and `buildQuestionQueue` keeps
  duplicates: the second item is asked under the same key and is credited with the cached
  answer to the first, whatever it asks.
- *The log goes on past an ending* (`persistence/event-repository.ts:109-138`). No append
  looks at what was appended before: a swallowed interruption or a cancel of a run that
  has just ended adds a lifecycle event behind the ending, and the dashboard takes the later
  one (`applyStreamFrame.ts:85-112`).
- *After a resumption or a recovery* the frames `workflow.resumed` and
  `workflow.recovered` set no lifecycle (`applyStreamFrame.ts:22-34`): the board goes on
  showing `resuming` or `recovering` while the row is `running`, until it is loaded again.
- *Cancel of descendants* (`lifecycle/control-routes.ts:102-116`, `:242-250`) updates them
  unconditionally from an unlocked read: a feedback run answered in between goes
  from `completed` back to `cancelling`. A nested step can in the same way write a
  stale row over an ended child. A child that is launched while the cancel
  commits is not seen by it and stays running under a cancelled parent. A child that
  waits for a response when its parent is cancelled stays `cancelling`, because
  nothing drives it and recovery does not list it.
- *Answered and left* (`orchestrator/orchestrator.ts:132`). A step of the root that has
  read its child as `resuming` can settle it to `running` after the child's own loop
  has answered a later pause: the call that the human's answer sends to the child
  reads `paused` and leaves, the root's step then commits `running`, and nobody drives
  the child (`ParentOvertaken`; found by TLC with four control requests).
- A response resumes its direct parent only; a grandparent goes on when somebody
  resumes it. `awaitChild` reports a child that ends on its 256th step as one that
  exceeded them.
- *Dashboard*. Logs read after the page of events raise the watermark
  (`applyStreamFrame.ts:45-62`), so the stream's frames between them are dropped; any
  change of a panel while the stream is open resets the board (`RunDetailPage.tsx:88-103`)
  and what the stream had added is gone until a refresh; a summary read before the
  page counts the events between them twice; an accepted cancel writes `cancelling` over
  whatever the summary has become since. The documents
  promise otherwise (`workflow-web-behaviors.md:145-155`, `:292-295`).
- *Copilot prompt*. SIGKILL is never sent; a valid reply in the two seconds after
  the timeout still counts; a crash runs every prompt of the parent's step again.

## 6. Not modelled

- Components with status `not_modelled` in `PROJECT.json`: the registry and loader
  (sequential, once, before the listener), the command runner and its policy (an
  operation inside a step), the HTTP server and configuration, observability,
  migrations (their constraints are part of the modules that rely on them), the
  authoring library and API types (declarations), the reference package (examples),
  and the in-memory lock, which production does not use.
- Of run execution and locking: a failing query inside the lock provider, the third
  connection of a reconcile pass and its lock keys, several server processes on
  one database (the lock is modelled as if for any number of them; startup is not).
- Of child runs: a launch that is refused late. `launch-child.ts:212` parses the input of
  a feedback request after the child's row, its key and `workflow.started` are written; an
  input that is missing makes it throw, the parent is failed, and the commit leaves a
  running feedback run without projection row or lineage. `RejectLaunch` is a refusal that
  comes before. Also a second child of one parent, the bound of 256 child steps, the
  two row locks of a response as separate steps.
- Of the event stream: filters by type, heartbeats, unparsable frames, answers 400
  and 404 to a connection, a failing query of the poll loop (it leaves the
  connection silent), navigation between runs, and the tree, definition, feedback
  and health panels.
- Of the app builder: prompts and schemas, the fixture mode of the prompt workflow,
  its log files, and what a language model says.

## 7. Left to do

A second child per parent would let `ChildRuns` speak of
siblings, and a response in two steps of its lock order. The command runner and the
in-memory lock are small machines that could have modules of their own.
