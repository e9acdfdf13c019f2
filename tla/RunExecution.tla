---------------------------- MODULE RunExecution ----------------------------
(***************************************************************************)
(* How the server drives workflow runs: the workflow_runs rows, the event  *)
(* log, the resumeRun loops that execute steps under the run lock, the     *)
(* pause/resume/cancel requests, reconciliation, and crashes.              *)
(*                                                                         *)
(* A worker is one asynchronous activity of the server process: a control  *)
(* request, a start, or a reconciliation, each of which ends in a call of  *)
(* resumeRun.  A step is one database transaction under READ COMMITTED: it *)
(* reads the run row without a row lock (snap), runs the state's handler,  *)
(* and takes the row lock at its first append.  From that append on nobody *)
(* else can write the row, so the rest of the step is one action, unless   *)
(* the handler goes on after the append (pc "holding").  Control requests  *)
(* and reconciliation lock the row first (FOR UPDATE): one action each.    *)
(*                                                                         *)
(* Runs here have no children; cancel's descendants loop is then empty.    *)
(***************************************************************************)
EXTENDS Lifecycle, Naturals, Sequences, FiniteSets

CONSTANTS
  Runs,               \* run ids
  Workers,            \* concurrent activities of the server process
  NoRun, NoWorker,    \* null values
  States,             \* state names of the workflow definition
  InitialState,       \* its initialState
  Allowed,            \* its transitions, as pairs of states
  MaxIterations,      \* maxIterations of resumeRun (256 in the code)
  ReconcileLimit,     \* limit of the startup reconciliation (100)
  HandlerMaySwallow,  \* a handler may catch SafePointInterruption
  MayGiveUp,          \* a lock may be held for longer than the 200 attempts
  MaxControls,        \* bound: control requests in a behaviour
  MaxTransitions,     \* bound: transitions of one run
  MaxAborts,          \* bound: steps whose transaction fails
  MaxCrashes          \* bound: crashes of the server process

ASSUME NullAssumption == NoRun \notin Runs /\ NoWorker \notin Workers

ASSUME DefinitionAssumption ==
  InitialState \in States /\ Allowed \subseteq States \X States

ASSUME BoundAssumption ==
  /\ MaxIterations \in Nat \ {0}
  /\ {ReconcileLimit, MaxControls, MaxTransitions, MaxAborts, MaxCrashes} \subseteq Nat
  /\ HandlerMaySwallow \in BOOLEAN
  /\ MayGiveUp \in BOOLEAN

VARIABLES
  row,         \* workflow_runs: lifecycle and current_state of each run
  log,         \* workflow_events: the types of each run's events, in sequence order
  trail,       \* the payloads of its transition.completed events, in order
  lock,        \* the holder of each run's lock
  pc,          \* what each worker is doing
  job,         \* the run it works on
  snap,        \* the row its current step read
  iteration,   \* iterations of its resumeRun loop
  reconciling, \* the workers that hold the reconcile:<runId> lock of their run
  phase,       \* "starting" until startup reconciliation is over
  toRecover,   \* the runs startup reconciliation has still to visit
  used         \* how many of the bounded events have happened

bootVars == <<phase, toRecover>>
vars == <<row, log, trail, lock, pc, job, snap, iteration, reconciling,
          phase, toRecover, used>>

Rows == [lifecycle : Lifecycles \cup {NotStarted}, state : States]

\* idle: none; waiting: retrying lockProvider.acquire; ready: holds the lock,
\* between steps; step: has read the row; checked: passed the safe point of a
\* command or child launch; holding: has appended, so has the row lock;
\* releasing: in the finally block.
WorkerStates ==
  {"idle", "waiting", "ready", "step", "checked", "holding", "releasing"}

HoldsLock == {"ready", "step", "checked", "holding", "releasing"}
InStep    == {"step", "checked", "holding"}

NoSnap == [lifecycle |-> NotStarted, state |-> InitialState]

TypeOK ==
  /\ row \in [Runs -> Rows]
  /\ log \in [Runs -> Seq(EventTypes)]
  /\ trail \in [Runs -> Seq(States \X States)]
  /\ lock \in [Runs -> Workers \cup {NoWorker}]
  /\ pc \in [Workers -> WorkerStates]
  /\ job \in [Workers -> Runs \cup {NoRun}]
  /\ \A w \in Workers : pc[w] # "idle" => job[w] \in Runs
  /\ snap \in [Workers -> Rows]
  /\ iteration \in [Workers -> 0..MaxIterations]
  /\ reconciling \subseteq Workers
  /\ phase \in {"starting", "serving"}
  /\ toRecover \subseteq Runs
  /\ used \in [controls : 0..MaxControls, aborts : 0..MaxAborts, crashes : 0..MaxCrashes]

Init ==
  /\ row = [r \in Runs |-> NoSnap]
  /\ log = [r \in Runs |-> <<>>]
  /\ trail = [r \in Runs |-> <<>>]
  /\ lock = [r \in Runs |-> NoWorker]
  /\ pc = [w \in Workers |-> "idle"]
  /\ job = [w \in Workers |-> NoRun]
  /\ snap = [w \in Workers |-> NoSnap]
  /\ iteration = [w \in Workers |-> 0]
  /\ reconciling = {}
  /\ phase = "serving"
  /\ toRecover = {}
  /\ used = [controls |-> 0, aborts |-> 0, crashes |-> 0]

-----------------------------------------------------------------------------
(* Rows, events and the row lock. *)

\* No other open transaction holds the row lock of r.
RowFree(w, r) == \A v \in Workers \ {w} : ~(pc[v] = "holding" /\ job[v] = r)

\* upsertRunSummary: the whole row is written, from the summary it is given.
SetRow(r, lifecycle, state) ==
  row' = [row EXCEPT ![r] = [lifecycle |-> lifecycle, state |-> state]]

\* appendEvent of one event.
Emit(r, event) == log' = [log EXCEPT ![r] = Append(@, event)]

(* The resumeRun loop: where a worker goes after a step. *)

\* The step progressed: the lock is renewed and the loop goes round.
Continue(w) ==
  /\ pc' = [pc EXCEPT ![w] = "ready"]
  /\ iteration' = [iteration EXCEPT ![w] = @ + 1]
  /\ snap' = [snap EXCEPT ![w] = NoSnap]
  /\ UNCHANGED <<job, lock, reconciling, bootVars>>

\* The step was terminal, made no progress or failed: the finally block.
Leave(w) ==
  /\ pc' = [pc EXCEPT ![w] = "releasing"]
  /\ iteration' = [iteration EXCEPT ![w] = 0]
  /\ snap' = [snap EXCEPT ![w] = NoSnap]
  /\ UNCHANGED <<job, lock, reconciling, bootVars>>

\* resumeRun(r) is called.
Dispatch(w, r) ==
  /\ pc' = [pc EXCEPT ![w] = "waiting"]
  /\ job' = [job EXCEPT ![w] = r]
  /\ UNCHANGED <<lock, snap, iteration>>

-----------------------------------------------------------------------------
(* Requests.  The route commits its own transaction and then calls        *)
(* resumeRun; a refused request (409) changes nothing.                     *)

Serving(w) == phase = "serving" /\ pc[w] = "idle"

StartRun(w, r) ==
  /\ Serving(w)
  /\ row[r].lifecycle = NotStarted
  /\ SetRow(r, "running", InitialState)
  /\ Emit(r, "workflow.started")
  /\ Dispatch(w, r)
  /\ UNCHANGED <<trail, reconciling, bootVars, used>>

Request(w, r, target) ==
  /\ Serving(w)
  /\ used.controls < MaxControls
  /\ RowFree(w, r)
  /\ row' = [row EXCEPT ![r].lifecycle = target]
  /\ Emit(r, OpeningEvent(target))
  /\ used' = [used EXCEPT !.controls = @ + 1]
  /\ Dispatch(w, r)
  /\ UNCHANGED <<trail, reconciling, bootVars>>

RequestPause(w, r)  == CanPause(row[r].lifecycle)  /\ Request(w, r, "pausing")
RequestResume(w, r) == CanResume(row[r].lifecycle) /\ Request(w, r, "resuming")
RequestCancel(w, r) == CanCancel(row[r].lifecycle) /\ Request(w, r, "cancelling")

-----------------------------------------------------------------------------
(* The resumeRun loop and the run lock. *)

AcquireUnlocked(w) ==
  /\ pc[w] = "waiting"
  /\ lock' = [lock EXCEPT ![job[w]] = w]
  /\ pc' = [pc EXCEPT ![w] = "ready"]
  /\ UNCHANGED <<row, log, trail, job, snap, iteration, reconciling, bootVars, used>>

AcquireLock(w) ==
  /\ pc[w] = "waiting"
  /\ lock[job[w]] = NoWorker
  /\ lock' = [lock EXCEPT ![job[w]] = w]
  /\ pc' = [pc EXCEPT ![w] = "ready"]
  /\ UNCHANGED <<row, log, trail, job, snap, iteration, reconciling, bootVars, used>>

\* All 200 attempts found the lock taken: resumeRun returns silently.
GiveUp(w) ==
  /\ MayGiveUp
  /\ pc[w] = "waiting"
  /\ lock[job[w]] # NoWorker
  /\ pc' = [pc EXCEPT ![w] = "idle"]
  /\ job' = [job EXCEPT ![w] = NoRun]
  /\ reconciling' = reconciling \ {w}
  /\ UNCHANGED <<row, log, trail, lock, snap, iteration, bootVars, used>>

BeginStepUnbounded(w) ==
  /\ pc[w] = "ready"
  /\ snap' = [snap EXCEPT ![w] = row[job[w]]]
  /\ pc' = [pc EXCEPT ![w] = "step"]
  /\ UNCHANGED <<row, log, trail, lock, job, iteration, reconciling, bootVars, used>>

\* BEGIN, and getRunSummary: a plain SELECT, which no row lock delays.
BeginStep(w) ==
  /\ pc[w] = "ready"
  /\ iteration[w] < MaxIterations
  /\ snap' = [snap EXCEPT ![w] = row[job[w]]]
  /\ pc' = [pc EXCEPT ![w] = "step"]
  /\ UNCHANGED <<row, log, trail, lock, job, iteration, reconciling, bootVars, used>>

\* "Resume loop exceeded ..."
ExhaustLoop(w) ==
  /\ pc[w] = "ready"
  /\ iteration[w] = MaxIterations
  /\ Leave(w)
  /\ UNCHANGED <<row, log, trail, used>>

ReleaseKeepingLock(w) ==
  /\ pc[w] = "releasing"
  /\ pc' = [pc EXCEPT ![w] = "idle"]
  /\ job' = [job EXCEPT ![w] = NoRun]
  /\ reconciling' = reconciling \ {w}
  /\ UNCHANGED <<row, log, trail, lock, snap, iteration, bootVars, used>>

Release(w) ==
  /\ pc[w] = "releasing"
  /\ lock' = [lock EXCEPT ![job[w]] = NoWorker]
  /\ pc' = [pc EXCEPT ![w] = "idle"]
  /\ job' = [job EXCEPT ![w] = NoRun]
  /\ reconciling' = reconciling \ {w}
  /\ UNCHANGED <<row, log, trail, snap, iteration, bootVars, used>>

-----------------------------------------------------------------------------
(* Steps: runTransitionStep on the row the transaction read.               *)

\* A safe point finalizes the transitional lifecycle of base, and writes base
\* back with the lifecycle that follows.  Only cancelled is terminal.
SettleRow(w, base) ==
  /\ base.lifecycle \in Settling
  /\ RowFree(w, job[w])
  /\ SetRow(job[w], SettledLifecycle(base.lifecycle), base.state)
  /\ Emit(job[w], SettledEvent(base.lifecycle))
  /\ IF base.lifecycle = "cancelling" THEN Leave(w) ELSE Continue(w)
  /\ UNCHANGED <<trail, used>>

\* The safe point at the start of a step, on the row the step has read.
SettleStep(w) ==
  /\ pc[w] = "step"
  /\ SettleRow(w, snap[w])

\* The row was paused or terminal: nothing is written.
QuietStep(w) ==
  /\ pc[w] = "step"
  /\ snap[w].lifecycle \in TerminalLifecycles \cup {"paused"}
  /\ Leave(w)
  /\ UNCHANGED <<row, log, trail, used>>

InHandlerWhenCancelling(w) ==
  pc[w] \in InStep /\ snap[w].lifecycle \in {"running", "cancelling"}

\* The handler of snap's state is executing.
InHandler(w) == pc[w] \in InStep /\ snap[w].lifecycle = "running"

\* Before a command or a child launch the handler passes a safe point, which
\* reads the row again ...
PassSafePoint(w) ==
  /\ InHandler(w)
  /\ pc[w] = "step"
  /\ row[job[w]].lifecycle = "running"
  /\ pc' = [pc EXCEPT ![w] = "checked"]
  /\ UNCHANGED <<row, log, trail, lock, job, snap, iteration, reconciling, bootVars, used>>

\* ... and then appends command.started or child.started, which takes the row
\* lock until the transaction ends.
StartOperation(w) ==
  /\ pc[w] = "checked"
  /\ RowFree(w, job[w])
  /\ pc' = [pc EXCEPT ![w] = "holding"]
  /\ UNCHANGED <<row, log, trail, lock, job, snap, iteration, reconciling, bootVars, used>>

\* A safe point before or after the operation finds a transitional lifecycle:
\* it finalizes the row as it is now, and its SafePointInterruption ends the
\* step with that result.
Interrupt(w) ==
  /\ InHandler(w)
  /\ pc[w] \in {"step", "holding"}
  /\ SettleRow(w, row[job[w]])

\* The handler catches that interruption and calls ctx.fail: the step writes
\* the failure on top of what the safe point wrote in the same transaction.
SwallowInterruption(w) ==
  LET r == job[w]
      found == row[r].lifecycle
  IN /\ HandlerMaySwallow
     /\ InHandler(w)
     /\ pc[w] \in {"step", "holding"}
     /\ found \in Settling
     /\ RowFree(w, r)
     /\ SetRow(r, "failed", snap[w].state)
     /\ log' = [log EXCEPT ![r] =
                  Append(Append(@, SettledEvent(found)), "workflow.failed")]
     /\ Leave(w)
     /\ UNCHANGED <<trail, used>>

\* The handler has returned or thrown: its last writes go to the row lock.
CanFinish(w) ==
  /\ InHandler(w)
  /\ pc[w] \in {"step", "holding"}
  /\ RowFree(w, job[w])

\* ctx.complete
Complete(w) ==
  /\ CanFinish(w)
  /\ SetRow(job[w], "completed", snap[w].state)
  /\ Emit(job[w], "workflow.completed")
  /\ Leave(w)
  /\ UNCHANGED <<trail, used>>

\* ctx.fail, an error, no handler for the state, a transition not in Allowed.
Fail(w) ==
  /\ CanFinish(w)
  /\ SetRow(job[w], "failed", snap[w].state)
  /\ Emit(job[w], "workflow.failed")
  /\ Leave(w)
  /\ UNCHANGED <<trail, used>>

\* ctx.transition: the row written is the one the step read, with its new
\* state; its lifecycle is therefore the one the step read.
Transition(w, to) ==
  LET r == job[w] IN
  /\ CanFinish(w)
  /\ <<snap[w].state, to>> \in Allowed
  /\ Len(trail[r]) < MaxTransitions
  /\ SetRow(r, snap[w].lifecycle, to)
  /\ Emit(r, "transition.completed")
  /\ trail' = [trail EXCEPT ![r] = Append(@, <<snap[w].state, to>>)]
  /\ Continue(w)
  /\ UNCHANGED used

\* No intent, or a child that waits for external input: the run stays where
\* it is, and this loop ends.
NoProgress(w) ==
  /\ InHandler(w)
  /\ pc[w] \in {"step", "holding"}
  /\ Leave(w)
  /\ UNCHANGED <<row, log, trail, used>>

\* The transaction fails (connection lost, chosen as a deadlock's victim): it
\* rolls back, and resumeRun rejects after its finally block.
AbortStep(w) ==
  /\ pc[w] \in InStep
  /\ used.aborts < MaxAborts
  /\ used' = [used EXCEPT !.aborts = @ + 1]
  /\ Leave(w)
  /\ UNCHANGED <<row, log, trail>>

-----------------------------------------------------------------------------
(* Reconciliation, crash and restart. *)

ProgressEver(events) ==
  \E i \in 1..Len(events) : events[i] = "transition.completed"

\* A transition has completed since the latest workflow.recovered, or the run
\* was never recovered.
ProgressSinceRecovery(events) ==
  \/ \A i \in 1..Len(events) : events[i] # "workflow.recovered"
  \/ \E i \in 1..Len(events) :
       /\ events[i] = "transition.completed"
       /\ \A j \in i..Len(events) : events[j] # "workflow.recovered"

ShouldRecover(r) ==
  /\ row[r].lifecycle \in Recoverable
  /\ row[r].lifecycle = "running" => ProgressSinceRecovery(log[r])

\* One run of a reconcile pass: under the run's reconcile lock, its row is
\* locked, checked again and marked; then resumeRun is awaited.  At startup
\* the pass is alone and visits the runs of its list one after the other.
Reconcile(w, r) ==
  /\ pc[w] = "idle"
  /\ phase = "starting" =>
       r \in toRecover /\ \A v \in Workers : pc[v] = "idle"
  /\ \A v \in reconciling : job[v] # r
  /\ RowFree(w, r)
  /\ ShouldRecover(r)
  /\ row' = [row EXCEPT ![r].lifecycle = "recovering"]
  /\ log' = IF row[r].lifecycle = "recovering" THEN log
            ELSE [log EXCEPT ![r] = Append(@, "workflow.recovering")]
  /\ reconciling' = reconciling \cup {w}
  /\ toRecover' = toRecover \ {r}
  /\ Dispatch(w, r)
  /\ UNCHANGED <<trail, phase, used>>

SkipEndedAtStartup(r) ==
  /\ phase = "starting"
  /\ r \in toRecover
  /\ \A v \in Workers : pc[v] = "idle"
  /\ row[r].lifecycle \notin Recoverable
  /\ toRecover' = toRecover \ {r}
  /\ UNCHANGED <<row, log, trail, lock, pc, job, snap, iteration, reconciling, phase, used>>

\* Startup reconciliation skips a listed run.
SkipAtStartup(r) ==
  /\ phase = "starting"
  /\ r \in toRecover
  /\ \A v \in Workers : pc[v] = "idle"
  /\ ~ShouldRecover(r)
  /\ toRecover' = toRecover \ {r}
  /\ UNCHANGED <<row, log, trail, lock, pc, job, snap, iteration, reconciling, phase, used>>

\* The listener opens once the startup pass has returned.
FinishStartup ==
  /\ phase = "starting"
  /\ toRecover = {}
  /\ \A v \in Workers : pc[v] = "idle"
  /\ phase' = "serving"
  /\ UNCHANGED <<row, log, trail, lock, pc, job, snap, iteration, reconciling,
                 toRecover, used>>

\* The process dies and starts again: open transactions roll back, advisory
\* locks end with their sessions, and startup lists at most ReconcileLimit runs.
Crash ==
  /\ used.crashes < MaxCrashes
  /\ used' = [used EXCEPT !.crashes = @ + 1]
  /\ lock' = [r \in Runs |-> NoWorker]
  /\ pc' = [w \in Workers |-> "idle"]
  /\ job' = [w \in Workers |-> NoRun]
  /\ snap' = [w \in Workers |-> NoSnap]
  /\ iteration' = [w \in Workers |-> 0]
  /\ reconciling' = {}
  /\ phase' = "starting"
  /\ LET candidates == {r \in Runs : row[r].lifecycle \in Recoverable}
     IN \E listed \in SUBSET candidates :
          /\ \/ listed = candidates /\ Cardinality(candidates) <= ReconcileLimit
             \/ Cardinality(listed) = ReconcileLimit
          /\ toRecover' = listed
  /\ UNCHANGED <<row, log, trail>>

-----------------------------------------------------------------------------

Requests(w) ==
  \E r \in Runs : \/ StartRun(w, r)
                  \/ RequestPause(w, r)
                  \/ RequestResume(w, r)
                  \/ RequestCancel(w, r)
                  \/ Reconcile(w, r)

\* What a worker does once resumeRun has been called.
Drive(w) ==
  \/ AcquireLock(w) \/ GiveUp(w)
  \/ BeginStep(w) \/ ExhaustLoop(w) \/ Release(w)
  \/ SettleStep(w) \/ QuietStep(w)
  \/ PassSafePoint(w) \/ StartOperation(w)
  \/ Interrupt(w) \/ SwallowInterruption(w)
  \/ Complete(w) \/ Fail(w) \/ NoProgress(w)
  \/ \E to \in States : Transition(w, to)

Next ==
  \/ \E w \in Workers : Requests(w) \/ Drive(w) \/ AbortStep(w)
  \/ \E r \in Runs : SkipAtStartup(r)
  \/ FinishStartup
  \/ Crash

Spec == Init /\ [][Next]_vars

\* Startup reconciliation runs on its own, before the listener opens.
StartupStep ==
  \/ phase = "starting" /\ \E w \in Workers, r \in Runs : Reconcile(w, r)
  \/ \E r \in Runs : SkipAtStartup(r)
  \/ FinishStartup

\* The event loop runs every pending continuation: a worker in resumeRun, and
\* the startup pass, go on as long as they can.  Nobody has to send a request.
FairSpec == Spec /\ (\A w \in Workers : WF_vars(Drive(w))) /\ WF_vars(StartupStep)

-----------------------------------------------------------------------------
(* Safety. *)

\* Single active runner per run: no two resumeRun loops are past
\* lockProvider.acquire for the same run, whatever crashed or gave up before.
ExclusiveRunner ==
  \A v, w \in Workers :
    pc[v] \in HoldsLock /\ pc[w] \in HoldsLock /\ job[v] = job[w] => v = w

\* A sequence of transitions in which each leaves the state the one before it
\* entered, and the state it ends in.
Chain(transitions) ==
  \A i \in 1..Len(transitions) :
    transitions[i][1] = IF i = 1 THEN InitialState ELSE transitions[i - 1][2]

EndOf(transitions) ==
  IF transitions = <<>> THEN InitialState ELSE transitions[Len(transitions)][2]

\* The executed transitions form one path from the initial state, which ends
\* in the row's current_state: no step transitions from a state that another
\* step has left meanwhile.
TransitionsChain ==
  \A r \in Runs : Chain(trail[r]) /\ row[r].state = EndOf(trail[r])

\* The lifecycle a step has read, and what control requests and reconciliation
\* may have turned it into while the step runs.
MayDrift(seen, current) ==
  \/ current = seen
  \/ seen = "running" /\ current \in {"pausing", "recovering", "cancelling"}
  \/ seen = "paused" /\ current \in {"resuming", "recovering", "cancelling"}
  \/ seen \in {"pausing", "resuming"} /\ current \in {"recovering", "cancelling"}

\* The row a step works on is stale only in its lifecycle, and only by
\* requests: the state it read stays current, and the row has not become
\* paused, running again, or terminal behind its back.
SnapshotDrift ==
  \A w \in Workers : pc[w] \in InStep =>
    /\ row[job[w]].state = snap[w].state
    /\ MayDrift(snap[w].lifecycle, row[job[w]].lifecycle)

TerminalEvents == {"workflow.completed", "workflow.failed", "workflow.cancelled"}

\* A run's row is terminal exactly when its log ends with the terminal event
\* of that lifecycle: nothing is appended to the history of an ended run, and
\* no other run looks ended to a reader of the events.
TerminalSealed ==
  \A r \in Runs :
    LET ended == row[r].lifecycle \in TerminalLifecycles IN
    /\ ended => /\ log[r] # <<>>
                /\ log[r][Len(log[r])] = TerminalEvent(row[r].lifecycle)
    /\ ~ended => \A i \in 1..Len(log[r]) : log[r][i] \notin TerminalEvents

\* Every occurrence of the answer is preceded by the question, with no other
\* answer in between.
Answers(events, question, answer) ==
  \A j \in 1..Len(events) : events[j] = answer =>
    \E i \in 1..(j - 1) :
      /\ events[i] = question
      /\ \A k \in (i + 1)..(j - 1) : events[k] # answer

\* A safe point finalizes only what was asked for, and once: each paused,
\* resumed, recovered or cancelled event answers a request of its own.
SettledOnRequest ==
  \A r \in Runs, lifecycle \in Settling :
    Answers(log[r], OpeningEvent(lifecycle), SettledEvent(lifecycle))

\* What happens to a run other than recovery.
ActivityEvents == {"transition.completed", "workflow.pausing", "workflow.resuming"}

\* Recovery is idempotent: after workflow.recovered, the run is not taken over
\* again before something else has happened to it.
RecoveryNeedsProgress ==
  \A r \in Runs :
    \A i, j \in 1..Len(log[r]) :
      /\ i < j
      /\ log[r][i] = "workflow.recovered"
      /\ log[r][j] = "workflow.recovering"
      => \E k \in i..j : log[r][k] \in ActivityEvents

\* An ended run never changes again.
TerminalIsFinal ==
  [][\A r \in Runs : row[r].lifecycle \in TerminalLifecycles =>
       row'[r] = row[r] /\ log'[r] = log[r]]_vars

\* A request that takes over a transitional lifecycle from another one.
Supersedes(new, old) ==
  \/ new = "cancelling" /\ old \in {"pausing", "resuming"}
  \/ new = "recovering" /\ old \in {"pausing", "resuming"}

\* An accepted request is finalized or superseded, unless a step that had
\* read the row before the request was accepted writes it back: that overlap
\* is the only way to lose one.
LostOnlyToOverlap ==
  [][\A r \in Runs :
       /\ row[r].lifecycle \in Settling
       /\ row'[r].lifecycle # row[r].lifecycle
       => \/ row'[r].lifecycle = SettledLifecycle(row[r].lifecycle)
          \/ Supersedes(row'[r].lifecycle, row[r].lifecycle)
          \/ \E w \in Workers : /\ pc[w] \in InStep
                                /\ job[w] = r
                                /\ snap[w].lifecycle # row[r].lifecycle]_vars

\* The startup pass is over only when no listed run is left as the crash found
\* it: with a list that has room for every run, the server opens with no run
\* pausing or resuming, and none recovering unless a step of it failed.
StartupClosesInterruptions ==
  phase = "starting" /\ toRecover = {} /\ (\A w \in Workers : pc[w] = "idle") =>
    \A r \in Runs :
      /\ row[r].lifecycle \notin {"pausing", "resuming"}
      /\ row[r].lifecycle = "recovering" => used.aborts > 0

\* The next thing w does to r is to finalize the request it finds there.
WillSettle(w, r) ==
  /\ job[w] = r
  /\ \/ pc[w] = "waiting"
     \/ pc[w] = "ready" /\ iteration[w] < MaxIterations
     \/ pc[w] = "step" /\ snap[w].lifecycle \in Settling

\* An open request has a resumeRun call that will take it up, as long as none of
\* these calls gives up or fails.  Of what a crash interrupts the startup pass
\* has the rest on its list, but a cancellation.
RequestsAreTakenUp ==
  ~MayGiveUp /\ used.aborts = 0 =>
    \A r \in Runs : row[r].lifecycle \in Settling =>
      \/ \E w \in Workers : WillSettle(w, r)
      \/ r \in toRecover
      \/ row[r].lifecycle = "cancelling" /\ used.crashes > 0

\* The loops use the run lock as a LockProvider promises it: it is taken only
\* when free, and comes free when its loop or its process ends.
LockService ==
  INSTANCE RunLock WITH Keys <- Runs, Owners <- Workers, Nobody <- NoWorker, holder <- lock

UsesRunLock == LockService!Spec

\* What the step in progress on each run has read.
reading ==
  [r \in Runs |->
     LET steps == {w \in Workers : pc[w] \in InStep /\ job[w] = r}
     IN IF steps = {} THEN NoSnap ELSE snap[CHOOSE w \in steps : TRUE]]

\* To a run it makes no difference how many loops, requests and crashes there
\* are: its row is read and written by one step at a time.
SteppedRow == INSTANCE RunRow WITH read <- reading

OneStepAtATime == SteppedRow!Spec

\* A move of the declared map, or one of a step that has read the row before the
\* latest request and writes over the mark of that request.
MapMove(r) ==
  LET from == row[r].lifecycle
      to   == row'[r].lifecycle
  IN \/ to = from
     \/ from = NotStarted /\ to = "running"
     \/ CanTransition(from, to)
     \/ /\ from \in {"pausing", "recovering", "cancelling"}
        /\ reading[r].lifecycle \notin {from, NotStarted}

\* Nothing but such a step takes a row off the declared map of lifecycles.
OffTheMapByStaleSteps == [][\A r \in Runs : MapMove(r)]_vars

-----------------------------------------------------------------------------
(* What makes the safety properties inductive.                             *)

\* Whoever is past acquire is the recorded holder of its run's lock.
OwnsLock ==
  \A w \in Workers : pc[w] \in HoldsLock => lock[job[w]] = w

\* resumeRun is only called for runs that have a row.
WorksOnStarted ==
  \A w \in Workers : pc[w] # "idle" => row[job[w]].lifecycle # NotStarted

\* A step is one of at most MaxIterations.
StepsWithinBound ==
  \A w \in Workers : pc[w] \in InStep => iteration[w] < MaxIterations

\* A handler, and so its commands and child launches, runs only in a step that
\* has read running.
HandlersReadRunning ==
  \A w \in Workers : pc[w] \in {"checked", "holding"} => snap[w].lifecycle = "running"

\* A run without a row has not left its initial state.
UnstartedAtInitial ==
  \A r \in Runs : row[r].lifecycle = NotStarted => row[r].state = InitialState

IInv ==
  /\ TypeOK
  /\ OwnsLock
  /\ WorksOnStarted
  /\ StepsWithinBound
  /\ HandlersReadRunning
  /\ UnstartedAtInitial
  /\ SnapshotDrift
  /\ TransitionsChain

\* The last event of a run's log tells its lifecycle: no write of the row goes
\* without its event, and nothing is appended behind it.
LastEventTells ==
  \A r \in Runs :
    LET lifecycle == row[r].lifecycle
        last == log[r][Len(log[r])]
    IN /\ lifecycle \in Settling =>
            log[r] # <<>> /\ last = OpeningEvent(lifecycle)
       /\ lifecycle \in TerminalLifecycles =>
            log[r] # <<>> /\ last = TerminalEvent(lifecycle)

\* The request a log has not yet seen finalized.
Unanswered(events, question, answer) ==
  \E i \in 1..Len(events) :
    /\ events[i] = question
    /\ \A k \in (i + 1)..Len(events) : events[k] # answer

\* The request a step has read in its run's lifecycle is open until the step
\* finalizes it, even when another one has taken over the row.
SnapshotRequestOpen ==
  \A w \in Workers : pc[w] \in InStep /\ snap[w].lifecycle \in Settling =>
    Unanswered(log[job[w]], OpeningEvent(snap[w].lifecycle),
               SettledEvent(snap[w].lifecycle))

LogInv ==
  /\ LastEventTells
  /\ SnapshotRequestOpen
  /\ TerminalSealed
  /\ SettledOnRequest
  /\ RecoveryNeedsProgress

\* A lock has its holder in the loop: none is left behind.
NoLockLeft ==
  \A r \in Runs : lock[r] # NoWorker => pc[lock[r]] \in HoldsLock /\ job[lock[r]] = r

\* A loop that has not begun counts from zero.
CountsFromZero ==
  \A w \in Workers : pc[w] \in {"idle", "waiting", "releasing"} => iteration[w] = 0

\* w is about to finalize the recovery of r: nothing has happened in its loop.
WillRecover(w, r) ==
  /\ job[w] = r
  /\ \/ pc[w] = "waiting"
     \/ pc[w] = "ready" /\ iteration[w] = 0
     \/ pc[w] = "step" /\ snap[w].lifecycle = "recovering"

\* There is a startup pass only behind a crash.
StartsAfterCrash == phase = "starting" => used.crashes > 0

\* The startup pass drives one run at a time, and visits every interrupted one.
StartupInv ==
  phase = "starting" =>
    /\ \A v, w \in Workers : pc[v] # "idle" /\ pc[w] # "idle" => v = w
    /\ \A r \in Runs : row[r].lifecycle \in {"pausing", "resuming"} => r \in toRecover
    /\ \A r \in Runs : row[r].lifecycle = "recovering" =>
         r \in toRecover \/ used.aborts > 0 \/ \E w \in Workers : WillRecover(w, r)

-----------------------------------------------------------------------------
(* Liveness, under FairSpec.                                               *)

\* Every resumeRun call returns: the lock is handed over and the loop ends.
WorkersFinish ==
  \A w \in Workers : pc[w] # "idle" ~> pc[w] = "idle"

Driven(r) == \E w \in Workers : pc[w] # "idle" /\ job[w] = r

\* No request stays open while a resumeRun call is there to drive it: the
\* transitional lifecycle is left, unless the server dies first.
RequestsSettle ==
  \A r \in Runs :
    row[r].lifecycle \in Settling /\ Driven(r)
      ~> row[r].lifecycle \notin Settling \/ phase = "starting"

\* After a crash the server accepts requests again.
StartupFinishes == phase = "starting" ~> phase = "serving"

\* A pause, resume or recovery that a crash interrupts is closed by the
\* startup pass.
InterruptedSettle ==
  \A r \in Runs :
    row[r].lifecycle \in {"pausing", "resuming", "recovering"}
      ~> row[r].lifecycle \notin {"pausing", "resuming", "recovering"}

-----------------------------------------------------------------------------
(* Statements of the documentation that the code does not keep.            *)

\* A run goes back to running only from a lifecycle the declared machine lets
\* it: never from pausing or cancelling.
DeclaredReturnToRunning ==
  [][\A r \in Runs :
       /\ row[r].lifecycle \notin {NotStarted, "running"}
       /\ row'[r].lifecycle = "running"
       => CanTransition(row[r].lifecycle, "running")]_vars

\* A run has at most one terminal event.
OneTerminalEvent ==
  \A r \in Runs :
    Cardinality({i \in 1..Len(log[r]) : log[r][i] \in TerminalEvents}) <= 1

\* A run that entered cancelling leaves it.
CancelSettles ==
  \A r \in Runs : row[r].lifecycle = "cancelling" ~> row[r].lifecycle # "cancelling"

-----------------------------------------------------------------------------
(* When it does keep them.                                                 *)

\* A history ends with the ending of its run.  A second ending is the failure
\* of a handler that has swallowed the cancellation in front of it.
EndingIsLast ==
  \A r \in Runs : \A i \in 1..Len(log[r]) : log[r][i] \in TerminalEvents =>
    \/ i = Len(log[r])
    \/ /\ HandlerMaySwallow
       /\ i + 1 = Len(log[r])
       /\ log[r][i] = "workflow.cancelled"
       /\ log[r][i + 1] = "workflow.failed"

\* Handlers that let interruptions through end a run once.
EndsOnceUnlessSwallowed == ~HandlerMaySwallow => []OneTerminalEvent

=============================================================================
