-------------------------- MODULE RunHistoryProofs --------------------------
(***************************************************************************)
(* Proofs about the event log of RunExecution: what a run's history can    *)
(* look like, for every number of runs and workers, every workflow         *)
(* definition and every bound.                                             *)
(***************************************************************************)
EXTENDS RunExecutionProofs, FiniteSetTheorems

-----------------------------------------------------------------------------
(* Appending to a log.                                                     *)

LEMMA AppendedLog ==
  ASSUME NEW events \in Seq(EventTypes), NEW event
  PROVE  /\ Len(events) \in Nat
         /\ Append(events, event) # <<>>
         /\ Len(Append(events, event)) = Len(events) + 1
         /\ Append(events, event)[Len(events) + 1] = event
         /\ \A i \in 1..Len(events) : Append(events, event)[i] = events[i]
  OBVIOUS

\* An event other than the answer leaves an open request open.
LEMMA UnansweredAppend ==
  ASSUME NEW events \in Seq(EventTypes), NEW event, NEW question, NEW answer,
         Unanswered(events, question, answer), event # answer
  PROVE  Unanswered(Append(events, event), question, answer)
<1>1. PICK i \in 1..Len(events) :
        /\ events[i] = question
        /\ \A k \in (i + 1)..Len(events) : events[k] # answer
  BY DEF Unanswered
<1> DEFINE longer == Append(events, event)
<1>2. /\ Len(events) \in Nat
      /\ Len(longer) = Len(events) + 1
      /\ longer[Len(events) + 1] = event
      /\ \A k \in 1..Len(events) : longer[k] = events[k]
  BY AppendedLog
<1> HIDE DEF longer
<1>3. i \in 1..Len(longer) /\ longer[i] = question
  BY <1>1, <1>2
<1>4. ASSUME NEW k \in (i + 1)..Len(longer) PROVE longer[k] # answer
  BY <1>1, <1>2
<1>5. Unanswered(longer, question, answer)
  BY <1>3, <1>4 DEF Unanswered
<1> QED
  BY <1>5 DEF longer

\* A request that ends the log is open.
LEMMA UnansweredLast ==
  ASSUME NEW events \in Seq(EventTypes), NEW question, NEW answer,
         events # <<>>, events[Len(events)] = question
  PROVE  Unanswered(events, question, answer)
<1>1. Len(events) \in 1..Len(events)
  OBVIOUS
<1>2. \A k \in (Len(events) + 1)..Len(events) : events[k] # answer
  OBVIOUS
<1> QED
  BY <1>1, <1>2 DEF Unanswered

\* An answer may be appended where a request is open.
LEMMA AnswersAppend ==
  ASSUME NEW events \in Seq(EventTypes), NEW event, NEW question, NEW answer,
         Answers(events, question, answer),
         event = answer => Unanswered(events, question, answer)
  PROVE  Answers(Append(events, event), question, answer)
<1> DEFINE longer == Append(events, event)
<1>1. /\ Len(events) \in Nat
      /\ Len(longer) = Len(events) + 1
      /\ longer[Len(events) + 1] = event
      /\ \A k \in 1..Len(events) : longer[k] = events[k]
  BY AppendedLog
<1> HIDE DEF longer
<1>2. ASSUME NEW j \in 1..Len(longer), longer[j] = answer
      PROVE  \E i \in 1..(j - 1) :
               /\ longer[i] = question
               /\ \A k \in (i + 1)..(j - 1) : longer[k] # answer
  <2>1. CASE j \in 1..Len(events)
    <3>1. PICK i \in 1..(j - 1) :
            /\ events[i] = question
            /\ \A k \in (i + 1)..(j - 1) : events[k] # answer
      BY <1>1, <1>2, <2>1 DEF Answers
    <3> QED
      BY <1>1, <2>1, <3>1
  <2>2. CASE j = Len(events) + 1
    <3>1. PICK i \in 1..Len(events) :
            /\ events[i] = question
            /\ \A k \in (i + 1)..Len(events) : events[k] # answer
      BY <1>1, <1>2, <2>2 DEF Unanswered
    <3> QED
      BY <1>1, <2>2, <3>1
  <2> QED
    BY <1>1, <2>1, <2>2
<1>3. Answers(longer, question, answer)
  BY <1>2 DEF Answers
<1> QED
  BY <1>3 DEF longer

\* RecoveryNeedsProgress, for one log.
TakenOverAfterActivity(events) ==
  \A i, j \in 1..Len(events) :
    /\ i < j
    /\ events[i] = "workflow.recovered"
    /\ events[j] = "workflow.recovering"
    => \E k \in i..j : events[k] \in ActivityEvents

LEMMA ActivityAppend ==
  ASSUME NEW events \in Seq(EventTypes), NEW event,
         TakenOverAfterActivity(events),
         event = "workflow.recovering" =>
           \A i \in 1..Len(events) : events[i] = "workflow.recovered" =>
             \E k \in i..Len(events) : events[k] \in ActivityEvents
  PROVE  TakenOverAfterActivity(Append(events, event))
<1> DEFINE longer == Append(events, event)
<1>1. /\ Len(events) \in Nat
      /\ Len(longer) = Len(events) + 1
      /\ longer[Len(events) + 1] = event
      /\ \A k \in 1..Len(events) : longer[k] = events[k]
  BY AppendedLog
<1> HIDE DEF longer
<1>2. ASSUME NEW i \in 1..Len(longer), NEW j \in 1..Len(longer), i < j,
             longer[i] = "workflow.recovered", longer[j] = "workflow.recovering"
      PROVE  \E k \in i..j : longer[k] \in ActivityEvents
  <2>1. i \in 1..Len(events) /\ events[i] = "workflow.recovered"
    BY <1>1, <1>2
  <2>2. CASE j \in 1..Len(events)
    <3>1. PICK k \in i..j : events[k] \in ActivityEvents
      BY <1>1, <1>2, <2>1, <2>2 DEF TakenOverAfterActivity
    <3> QED
      BY <1>1, <2>1, <2>2, <3>1
  <2>3. CASE j = Len(events) + 1
    <3>1. PICK k \in i..Len(events) : events[k] \in ActivityEvents
      BY <1>1, <1>2, <2>1, <2>3
    <3> QED
      BY <1>1, <2>1, <2>3, <3>1
  <2> QED
    BY <1>1, <2>2, <2>3
<1>3. TakenOverAfterActivity(longer)
  BY <1>2 DEF TakenOverAfterActivity
<1> QED
  BY <1>3 DEF longer

\* No event finalizes two requests, and none both opens and finalizes.
LEMMA EventsApart ==
  ASSUME NEW asked \in Settling, NEW lifecycle \in Settling
  PROVE  /\ OpeningEvent(asked) # SettledEvent(lifecycle)
         /\ SettledEvent(asked) = SettledEvent(lifecycle) => asked = lifecycle
         /\ SettledEvent(asked) # "workflow.recovering"
         /\ OpeningEvent(asked) \notin TerminalEvents
         /\ SettledEvent(asked) \in TerminalEvents => asked = "cancelling"
         /\ OpeningEvent(asked) \in EventTypes
         /\ OpeningEvent(asked) = "workflow.recovering" => asked = "recovering"
         /\ SettledEvent(asked) \notin
              {"workflow.started", "workflow.completed", "workflow.failed", "transition.completed"}
  BY DEF Settling, OpeningEvent, SettledEvent, TerminalEvents, EventTypes
-----------------------------------------------------------------------------
(* The ways a step changes a run's row and log.                            *)

Untouched(r) == row'[r] = row[r] /\ log'[r] = log[r]

Started(r) ==
  /\ row[r].lifecycle = NotStarted
  /\ row'[r].lifecycle = "running"
  /\ log'[r] = Append(log[r], "workflow.started")

\* A request or reconciliation has opened a transitional lifecycle.
Requested(r, target) ==
  /\ row[r].lifecycle \in Lifecycles \ TerminalLifecycles
  /\ target = "recovering" => ShouldRecover(r) /\ row[r].lifecycle # "recovering"
  /\ row'[r].lifecycle = target
  /\ log'[r] = Append(log[r], OpeningEvent(target))

\* A safe point has finalized the lifecycle its step had read, or the one it
\* found in the row.
Finalized(w, lifecycle) ==
  LET r == job[w] IN
  /\ snap[w].lifecycle = lifecycle \/ row[r].lifecycle = lifecycle
  /\ \/ /\ row'[r].lifecycle = SettledLifecycle(lifecycle)
        /\ log'[r] = Append(log[r], SettledEvent(lifecycle))
     \/ /\ HandlerMaySwallow
        /\ row[r].lifecycle = lifecycle
        /\ row'[r].lifecycle = "failed"
        /\ log'[r] = Append(Append(log[r], SettledEvent(lifecycle)), "workflow.failed")

\* A handler's own result: the run's end, or its next state.
Resulted(w, lifecycle, event) ==
  LET r == job[w] IN
  /\ <<lifecycle, event>> \in { <<"completed", "workflow.completed">>,
                                <<"failed", "workflow.failed">>,
                                <<"running", "transition.completed">> }
  /\ row'[r].lifecycle = lifecycle
  /\ log'[r] = Append(log[r], event)

Wrote(w) ==
  /\ pc[w] \in InStep
  /\ row[job[w]].lifecycle \notin TerminalLifecycles
  /\ \/ \E lifecycle \in Settling : Finalized(w, lifecycle)
     \/ \E lifecycle \in Lifecycles, event \in EventTypes : Resulted(w, lifecycle, event)

LEMMA RunOf ==
  ASSUME IInv
  PROVE  /\ row \in [Runs -> Rows] /\ log \in [Runs -> Seq(EventTypes)]
         /\ \A w \in Workers : pc[w] # "idle" => job[w] \in Runs
  BY DEF IInv, TypeOK

\* The steps that write finalize a request or report a handler's result.
LEMMA WriterWrote ==
  ASSUME IInv, NEW w \in Workers,
         \/ SettleStep(w) \/ Interrupt(w) \/ SwallowInterruption(w)
         \/ Complete(w) \/ Fail(w) \/ \E to \in States : Transition(w, to)
  PROVE  Wrote(w) /\ (Leave(w) \/ Continue(w))
<1> DEFINE r == job[w]
<1>1. /\ pc[w] \in InStep
      /\ row[r].lifecycle \notin TerminalLifecycles
      /\ Leave(w) \/ Continue(w)
  BY WritersWriteTheirRun
     DEF SettleStep, SettleRow, Interrupt, SwallowInterruption, Complete, Fail, Transition,
         CanFinish, InHandler, InStep
<1>2. r \in Runs /\ row \in [Runs -> Rows] /\ log \in [Runs -> Seq(EventTypes)]
  BY <1>1, RunOf DEF InStep
<1>3. CASE SettleStep(w)
  BY <1>1, <1>2, <1>3 DEF SettleStep, SettleRow, SetRow, Emit, Wrote, Finalized
<1>4. CASE Interrupt(w)
  BY <1>1, <1>2, <1>4 DEF Interrupt, SettleRow, SetRow, Emit, Wrote, Finalized
<1>5. CASE SwallowInterruption(w)
  BY <1>1, <1>2, <1>5 DEF SwallowInterruption, SetRow, Wrote, Finalized
<1>6. CASE Complete(w)
  <2>1. Resulted(w, "completed", "workflow.completed")
    BY <1>2, <1>6 DEF Complete, SetRow, Emit, Resulted
  <2> QED
    BY <1>1, <2>1 DEF Wrote, Lifecycles, EventTypes
<1>7. CASE Fail(w)
  <2>1. Resulted(w, "failed", "workflow.failed")
    BY <1>2, <1>7 DEF Fail, SetRow, Emit, Resulted
  <2> QED
    BY <1>1, <2>1 DEF Wrote, Lifecycles, EventTypes
<1>8. CASE \E to \in States : Transition(w, to)
  <2>1. Resulted(w, "running", "transition.completed")
    BY <1>2, <1>8 DEF Transition, CanFinish, InHandler, SetRow, Emit, Resulted
  <2> QED
    BY <1>1, <2>1 DEF Wrote, Lifecycles, EventTypes
<1> QED
  BY <1>3, <1>4, <1>5, <1>6, <1>7, <1>8

\* What the routes and reconciliation do to the run they are called for.
LEMMA RequestOfRun ==
  ASSUME IInv, NEW w \in Workers, NEW s \in Runs, NEW r \in Runs,
         \/ StartRun(w, s) \/ Reconcile(w, s) \/ RequestPause(w, s)
         \/ RequestResume(w, s) \/ RequestCancel(w, s)
  PROVE  Untouched(r) \/ Started(r) \/ \E target \in Settling : Requested(r, target)
<1>1. row \in [Runs -> Rows] /\ log \in [Runs -> Seq(EventTypes)]
  BY RunOf
<1>2. CASE StartRun(w, s)
  BY <1>1, <1>2 DEF StartRun, SetRow, Emit, Untouched, Started
<1>3. CASE Reconcile(w, s)
  <2>1. CASE s # r \/ row[s].lifecycle = "recovering"
    BY <1>1, <1>3, <2>1 DEF Reconcile, Untouched, Rows
  <2>2. CASE s = r /\ row[s].lifecycle # "recovering"
    <3>1. Requested(r, "recovering")
      BY <1>1, <1>3, <2>2
         DEF Reconcile, ShouldRecover, Recoverable, Requested, OpeningEvent, Lifecycles,
             TerminalLifecycles
    <3> QED
      BY <3>1 DEF Settling
  <2> QED
    BY <2>1, <2>2
<1>4. CASE RequestPause(w, s) \/ RequestResume(w, s) \/ RequestCancel(w, s)
  <2>1. PICK target \in {"pausing", "resuming", "cancelling"} :
          /\ Request(w, s, target)
          /\ row[s].lifecycle \in Lifecycles \ TerminalLifecycles
    BY <1>4 DEF RequestPause, CanPause, RequestResume, CanResume, RequestCancel, CanCancel,
                Lifecycles, TerminalLifecycles
  <2>2. CASE s # r
    BY <1>1, <2>1, <2>2 DEF Request, Emit, Untouched
  <2>3. CASE s = r
    <3>1. Requested(r, target)
      BY <1>1, <2>1, <2>3 DEF Request, Emit, Requested
    <3> QED
      BY <3>1 DEF Settling
  <2> QED
    BY <2>2, <2>3
<1> QED
  BY <1>2, <1>3, <1>4

\* Whatever the server does, a run is left alone, started, asked to change, or
\* written by the one step that works on it.
LEMMA StepOfRun ==
  ASSUME IInv, [Next]_vars, NEW r \in Runs
  PROVE  \/ Untouched(r)
         \/ Started(r)
         \/ \E target \in Settling : Requested(r, target)
         \/ \E w \in Workers : job[w] = r /\ Wrote(w) /\ (Leave(w) \/ Continue(w))
<1>1. ASSUME NEW w \in Workers, Requests(w)
      PROVE  Untouched(r) \/ Started(r) \/ \E target \in Settling : Requested(r, target)
  BY <1>1, RequestOfRun DEF Requests
<1>2. ASSUME NEW w \in Workers, Drive(w)
      PROVE  Untouched(r) \/ (job[w] = r /\ Wrote(w) /\ (Leave(w) \/ Continue(w)))
  <2>1. CASE \/ SettleStep(w) \/ Interrupt(w) \/ SwallowInterruption(w)
             \/ Complete(w) \/ Fail(w) \/ \E to \in States : Transition(w, to)
    BY <2>1, WriterWrote, WritersWriteTheirRun DEF Untouched
  <2>2. CASE \/ AcquireLock(w) \/ GiveUp(w) \/ BeginStep(w) \/ ExhaustLoop(w) \/ Release(w)
             \/ QuietStep(w) \/ PassSafePoint(w) \/ StartOperation(w) \/ NoProgress(w)
    BY <2>2 DEF AcquireLock, GiveUp, BeginStep, ExhaustLoop, Release, QuietStep, PassSafePoint,
                StartOperation, NoProgress, Untouched
  <2> QED
    BY <1>2, <2>1, <2>2 DEF Drive
<1>3. CASE \/ \E w \in Workers : AbortStep(w)
           \/ \E s \in Runs : SkipAtStartup(s)
           \/ FinishStartup \/ Crash \/ UNCHANGED vars
  BY <1>3 DEF AbortStep, SkipAtStartup, FinishStartup, Crash, vars, Untouched
<1> QED
  BY <1>1, <1>2, <1>3 DEF Next

\* A step in progress has just begun, or has been in progress all along with
\* the row it read.
LEMMA StepsBegin ==
  ASSUME IInv, [Next]_vars, NEW w \in Workers, pc'[w] \in InStep
  PROVE  /\ job'[w] = job[w]
         /\ \/ pc[w] \in InStep /\ snap'[w] = snap[w]
            \/ snap'[w] = row[job[w]] /\ UNCHANGED <<row, log>>
<1>1. /\ pc \in [Workers -> WorkerStates] /\ snap \in [Workers -> Rows]
      /\ job \in [Workers -> Runs \cup {NoRun}]
  BY DEF IInv, TypeOK
<1> USE DEF InStep
<1>2. ASSUME NEW v \in Workers, Requests(v)
      PROVE  job'[w] = job[w] /\ pc[w] \in InStep /\ snap'[w] = snap[w]
  BY <1>1, <1>2 DEF Requests, StartRun, RequestPause, RequestResume, RequestCancel, Request,
                    Reconcile, Dispatch
<1>3. ASSUME NEW v \in Workers, Leave(v) \/ Continue(v)
      PROVE  job'[w] = job[w] /\ pc[w] \in InStep /\ snap'[w] = snap[w]
  BY <1>1, <1>3 DEF Leave, Continue
<1>4. ASSUME NEW v \in Workers,
             \/ SettleStep(v) \/ Interrupt(v) \/ SwallowInterruption(v) \/ Complete(v)
             \/ Fail(v) \/ NoProgress(v) \/ QuietStep(v) \/ ExhaustLoop(v)
             \/ (\E to \in States : Transition(v, to)) \/ AbortStep(v)
      PROVE  Leave(v) \/ Continue(v)
  BY <1>4 DEF SettleStep, SettleRow, Interrupt, SwallowInterruption, Complete, Fail, NoProgress,
              QuietStep, ExhaustLoop, Transition, AbortStep
<1>5. ASSUME NEW v \in Workers,
             \/ AcquireLock(v) \/ GiveUp(v) \/ Release(v) \/ PassSafePoint(v)
             \/ StartOperation(v)
      PROVE  job'[w] = job[w] /\ pc[w] \in InStep /\ snap'[w] = snap[w]
  BY <1>1, <1>5 DEF AcquireLock, GiveUp, Release, PassSafePoint, StartOperation, InHandler
<1>6. ASSUME NEW v \in Workers, BeginStep(v)
      PROVE  /\ job'[w] = job[w]
             /\ \/ pc[w] \in InStep /\ snap'[w] = snap[w]
                \/ snap'[w] = row[job[w]] /\ UNCHANGED <<row, log>>
  BY <1>1, <1>6 DEF BeginStep
<1>7. CASE (\E s \in Runs : SkipAtStartup(s)) \/ FinishStartup \/ UNCHANGED vars
  BY <1>7 DEF SkipAtStartup, FinishStartup, vars
<1>8. CASE Crash
  BY <1>8 DEF Crash
<1> QED
  BY <1>2, <1>3, <1>4, <1>5, <1>6, <1>7, <1>8 DEF Next, Drive
-----------------------------------------------------------------------------
(* Every step keeps the history in order.                                  *)

\* The request a step finalizes is open: it is the one the step has read, or
\* the one the run's last event has opened.
LEMMA FinalizedIsOpen ==
  ASSUME IInv, LogInv, NEW w \in Workers, pc[w] \in InStep,
         NEW lifecycle \in Settling, Finalized(w, lifecycle)
  PROVE  Unanswered(log[job[w]], OpeningEvent(lifecycle), SettledEvent(lifecycle))
<1>1. job[w] \in Runs /\ log[job[w]] \in Seq(EventTypes)
  BY RunOf DEF InStep
<1>2. CASE snap[w].lifecycle = lifecycle
  BY <1>2 DEF LogInv, SnapshotRequestOpen
<1>3. CASE row[job[w]].lifecycle = lifecycle
  <2>1. /\ log[job[w]] # <<>>
        /\ log[job[w]][Len(log[job[w]])] = OpeningEvent(lifecycle)
    BY <1>1, <1>3 DEF LogInv, LastEventTells
  <2> QED
    BY <1>1, <2>1, UnansweredLast
<1> QED
  BY <1>2, <1>3 DEF Finalized

\* A takeover follows an activity of the run: the transition that recovery
\* looks for, or the request that the run's last event has opened.
LEMMA TakeoverAfterActivity ==
  ASSUME IInv, LogInv, NEW r \in Runs, ShouldRecover(r),
         row[r].lifecycle # "recovering",
         NEW i \in 1..Len(log[r]), log[r][i] = "workflow.recovered"
  PROVE  \E k \in i..Len(log[r]) : log[r][k] \in ActivityEvents
<1>1. log[r] \in Seq(EventTypes)
  BY RunOf
<1>2. CASE row[r].lifecycle = "running"
  <2>1. PICK k \in 1..Len(log[r]) :
          /\ log[r][k] = "transition.completed"
          /\ \A j \in k..Len(log[r]) : log[r][j] # "workflow.recovered"
    BY <1>2 DEF ShouldRecover, ProgressSinceRecovery
  <2>2. k \in i..Len(log[r])
    BY <1>1, <2>1
  <2> QED
    BY <2>1, <2>2 DEF ActivityEvents
<1>3. CASE row[r].lifecycle \in {"pausing", "resuming"}
  <2>1. /\ log[r] # <<>>
        /\ log[r][Len(log[r])] = OpeningEvent(row[r].lifecycle)
    BY <1>3 DEF LogInv, LastEventTells, Settling
  <2>2. log[r][Len(log[r])] \in ActivityEvents
    BY <1>3, <2>1 DEF OpeningEvent, ActivityEvents
  <2>3. Len(log[r]) \in i..Len(log[r])
    BY <1>1
  <2> QED
    BY <2>2, <2>3
<1> QED
  BY <1>2, <1>3 DEF ShouldRecover, Recoverable

\* What one run's log owes to the properties.
HistoryInOrder(r) ==
  LET ended == row[r].lifecycle \in TerminalLifecycles
      last == log[r][Len(log[r])]
  IN /\ row[r].lifecycle \in Settling =>
          log[r] # <<>> /\ last = OpeningEvent(row[r].lifecycle)
     /\ ended => log[r] # <<>> /\ last = TerminalEvent(row[r].lifecycle)
     /\ ~ended => \A i \in 1..Len(log[r]) : log[r][i] \notin TerminalEvents
     /\ \A lifecycle \in Settling :
          Answers(log[r], OpeningEvent(lifecycle), SettledEvent(lifecycle))
     /\ TakenOverAfterActivity(log[r])

LEMMA LogInvByRun ==
  LogInv <=> SnapshotRequestOpen /\ \A r \in Runs : HistoryInOrder(r)
  BY DEF LogInv, LastEventTells, TerminalSealed, SettledOnRequest, RecoveryNeedsProgress,
         HistoryInOrder, TakenOverAfterActivity

\* One event more, which matches the lifecycle written with it.
LEMMA OneMoreEvent ==
  ASSUME NEW r \in Runs, log[r] \in Seq(EventTypes), HistoryInOrder(r),
         NEW event \in EventTypes,
         log'[r] = Append(log[r], event),
         row[r].lifecycle \notin TerminalLifecycles,
         row'[r].lifecycle \in Settling => event = OpeningEvent(row'[r].lifecycle),
         row'[r].lifecycle \in TerminalLifecycles => event = TerminalEvent(row'[r].lifecycle),
         row'[r].lifecycle \notin TerminalLifecycles => event \notin TerminalEvents,
         \A lifecycle \in Settling : event = SettledEvent(lifecycle) =>
           Unanswered(log[r], OpeningEvent(lifecycle), SettledEvent(lifecycle)),
         event = "workflow.recovering" =>
           \A i \in 1..Len(log[r]) : log[r][i] = "workflow.recovered" =>
             \E k \in i..Len(log[r]) : log[r][k] \in ActivityEvents
  PROVE  HistoryInOrder(r)'
<1>1. /\ Len(log[r]) \in Nat
      /\ log'[r] # <<>>
      /\ Len(log'[r]) = Len(log[r]) + 1
      /\ log'[r][Len(log'[r])] = event
      /\ \A i \in 1..Len(log[r]) : log'[r][i] = log[r][i]
  BY AppendedLog
<1>2. row'[r].lifecycle \notin TerminalLifecycles =>
        \A i \in 1..Len(log'[r]) : log'[r][i] \notin TerminalEvents
  BY <1>1 DEF HistoryInOrder
<1>3. ASSUME NEW lifecycle \in Settling
      PROVE  Answers(log'[r], OpeningEvent(lifecycle), SettledEvent(lifecycle))
  BY AnswersAppend DEF HistoryInOrder
<1>4. TakenOverAfterActivity(log'[r])
  BY ActivityAppend DEF HistoryInOrder
<1> QED
  BY <1>1, <1>2, <1>3, <1>4
     DEF HistoryInOrder, Answers, OpeningEvent, SettledEvent, TakenOverAfterActivity
\* A handler that swallows its interruption leaves two events: the answer to
\* the request, and the failure that ends the run.
LEMMA TwoMoreEvents ==
  ASSUME NEW r \in Runs, log[r] \in Seq(EventTypes), HistoryInOrder(r),
         NEW lifecycle \in Settling,
         Unanswered(log[r], OpeningEvent(lifecycle), SettledEvent(lifecycle)),
         row'[r].lifecycle = "failed",
         log'[r] = Append(Append(log[r], SettledEvent(lifecycle)), "workflow.failed")
  PROVE  HistoryInOrder(r)'
<1> DEFINE first == Append(log[r], SettledEvent(lifecycle))
<1>1. first \in Seq(EventTypes) /\ log'[r] = Append(first, "workflow.failed")
  BY SettledTypes
<1>2. ASSUME NEW asked \in Settling
      PROVE  Answers(log'[r], OpeningEvent(asked), SettledEvent(asked))
  <2>1. Answers(log[r], OpeningEvent(asked), SettledEvent(asked))
    BY DEF HistoryInOrder
  <2>2. SettledEvent(lifecycle) = SettledEvent(asked) => asked = lifecycle
    BY EventsApart
  <2>3. Answers(first, OpeningEvent(asked), SettledEvent(asked))
    BY <2>1, <2>2, AnswersAppend
  <2>4. SettledEvent(asked) # "workflow.failed"
    BY EventsApart
  <2> HIDE DEF first
  <2> QED
    BY <1>1, <2>3, <2>4, AnswersAppend
<1>3. TakenOverAfterActivity(log'[r])
  <2>1. TakenOverAfterActivity(log[r]) /\ SettledEvent(lifecycle) # "workflow.recovering"
    BY EventsApart DEF HistoryInOrder
  <2>2. TakenOverAfterActivity(first)
    BY <2>1, ActivityAppend
  <2> HIDE DEF first
  <2> QED
    BY <1>1, <2>2, ActivityAppend
<1>4. /\ log'[r] # <<>>
      /\ log'[r][Len(log'[r])] = "workflow.failed"
  <2> HIDE DEF first
  <2> QED
    BY <1>1, AppendedLog
<1>5. /\ row'[r].lifecycle \in TerminalLifecycles \ Settling
      /\ TerminalEvent(row'[r].lifecycle) = "workflow.failed"
  BY DEF TerminalLifecycles, Settling, TerminalEvent
<1> QED
  BY <1>2, <1>3, <1>4, <1>5
     DEF HistoryInOrder, Answers, OpeningEvent, SettledEvent, TakenOverAfterActivity

LEMMA HistoryStep ==
  ASSUME IInv, LogInv, [Next]_vars, NEW r \in Runs
  PROVE  HistoryInOrder(r)'
<1>1. HistoryInOrder(r) /\ log[r] \in Seq(EventTypes)
  BY LogInvByRun, RunOf
<1>2. CASE Untouched(r)
  BY <1>1, <1>2 DEF Untouched, HistoryInOrder, Answers, TakenOverAfterActivity
<1>3. CASE Started(r)
  <2>1. /\ "workflow.started" \in EventTypes \ TerminalEvents
        /\ NotStarted \notin TerminalLifecycles
        /\ "running" \notin Settling \cup TerminalLifecycles
        /\ \A lifecycle \in Settling : SettledEvent(lifecycle) # "workflow.started"
    BY EventsApart DEF EventTypes, TerminalEvents, NotStarted, TerminalLifecycles, Settling
  <2> QED
    BY <1>1, <1>3, <2>1, OneMoreEvent DEF Started
<1>4. ASSUME NEW target \in Settling, Requested(r, target)
      PROVE  HistoryInOrder(r)'
  <2> DEFINE event == OpeningEvent(target)
  <2>1. /\ event \in EventTypes /\ event \notin TerminalEvents
        /\ \A lifecycle \in Settling : event # SettledEvent(lifecycle)
        /\ event = "workflow.recovering" => target = "recovering"
    BY EventsApart
  <2>2. target \notin TerminalLifecycles
    BY DEF Settling, TerminalLifecycles
  <2>3. ASSUME event = "workflow.recovering",
               NEW i \in 1..Len(log[r]), log[r][i] = "workflow.recovered"
        PROVE  \E k \in i..Len(log[r]) : log[r][k] \in ActivityEvents
    BY <1>4, <2>1, <2>3, TakeoverAfterActivity DEF Requested
  <2>4. /\ log'[r] = Append(log[r], event)
        /\ row[r].lifecycle \notin TerminalLifecycles
        /\ row'[r].lifecycle = target
    BY <1>4 DEF Requested
  <2>5. row'[r].lifecycle \in Settling => event = OpeningEvent(row'[r].lifecycle)
    BY <2>4
  <2> HIDE DEF event
  <2> QED
    BY <1>1, <2>1, <2>2, <2>3, <2>4, <2>5, OneMoreEvent
<1>5. ASSUME NEW w \in Workers, job[w] = r, Wrote(w)
      PROVE  HistoryInOrder(r)'
  <2>1. pc[w] \in InStep /\ row[r].lifecycle \notin TerminalLifecycles
    BY <1>5 DEF Wrote
  <2>2. ASSUME NEW lifecycle \in Settling, Finalized(w, lifecycle)
        PROVE  HistoryInOrder(r)'
    <3>1. Unanswered(log[r], OpeningEvent(lifecycle), SettledEvent(lifecycle))
      BY <1>5, <2>1, <2>2, FinalizedIsOpen
    <3>2. CASE /\ row'[r].lifecycle = SettledLifecycle(lifecycle)
               /\ log'[r] = Append(log[r], SettledEvent(lifecycle))
      <4> DEFINE event == SettledEvent(lifecycle)
      <4>1. /\ event \in EventTypes
            /\ event # "workflow.recovering"
            /\ \A asked \in Settling : event = SettledEvent(asked) => asked = lifecycle
        BY SettledTypes, EventsApart
      <4>2. /\ row'[r].lifecycle \notin Settling
            /\ row'[r].lifecycle \in TerminalLifecycles => event = TerminalEvent(row'[r].lifecycle)
            /\ row'[r].lifecycle \notin TerminalLifecycles => event \notin TerminalEvents
        BY <3>2 DEF Settling, SettledLifecycle, SettledEvent, TerminalLifecycles, TerminalEvent,
                    TerminalEvents
      <4>3. log'[r] = Append(log[r], event)
        BY <3>2
      <4>4. \A asked \in Settling : event = SettledEvent(asked) =>
              Unanswered(log[r], OpeningEvent(asked), SettledEvent(asked))
        BY <3>1, <4>1
      <4> HIDE DEF event
      <4> QED
        BY <1>1, <2>1, <4>1, <4>2, <4>3, <4>4, OneMoreEvent
    <3>3. CASE /\ row'[r].lifecycle = "failed"
               /\ log'[r] = Append(Append(log[r], SettledEvent(lifecycle)), "workflow.failed")
      BY <1>1, <3>1, <3>3, TwoMoreEvents
    <3> QED
      BY <1>5, <2>2, <3>2, <3>3 DEF Finalized
  <2>3. ASSUME NEW lifecycle \in Lifecycles, NEW event \in EventTypes,
               Resulted(w, lifecycle, event)
        PROVE  HistoryInOrder(r)'
    <3>1. /\ lifecycle \notin Settling
          /\ lifecycle \in TerminalLifecycles => event = TerminalEvent(lifecycle)
          /\ lifecycle \notin TerminalLifecycles => event \notin TerminalEvents
          /\ event \in {"workflow.completed", "workflow.failed", "transition.completed"}
      BY <2>3 DEF Resulted, Settling, TerminalLifecycles, TerminalEvent, TerminalEvents
    <3>2. \A asked \in Settling : event # SettledEvent(asked)
      BY <3>1, EventsApart
    <3>3. row'[r].lifecycle = lifecycle /\ log'[r] = Append(log[r], event)
      BY <1>5, <2>3 DEF Resulted
    <3> QED
      BY <1>1, <2>1, <3>1, <3>2, <3>3, OneMoreEvent
  <2> QED
    BY <1>5, <2>2, <2>3 DEF Wrote
<1> QED
  BY <1>2, <1>3, <1>4, <1>5, StepOfRun

\* What a step has read is open until it finalizes it: on its run only
\* requests are written meanwhile, because no other step works on it.
LEMMA SnapshotStep ==
  ASSUME IInv, LogInv, [Next]_vars
  PROVE  SnapshotRequestOpen'
<1> SUFFICES ASSUME NEW w \in Workers, pc'[w] \in InStep, snap'[w].lifecycle \in Settling
             PROVE  Unanswered(log'[job'[w]], OpeningEvent(snap'[w].lifecycle),
                               SettledEvent(snap'[w].lifecycle))
  BY DEF SnapshotRequestOpen, Unanswered, OpeningEvent, SettledEvent
<1> DEFINE r == job[w]
<1>1. /\ job'[w] = r
      /\ \/ pc[w] \in InStep /\ snap'[w] = snap[w]
         \/ snap'[w] = row[r] /\ UNCHANGED <<row, log>>
  BY StepsBegin
<1>2. r \in Runs
  <2>1. IInv'
    BY NextKeeps
  <2> QED
    BY <1>1, <2>1 DEF IInv, TypeOK, InStep
<1>3. log[r] \in Seq(EventTypes)
  BY <1>2, RunOf
<1>4. CASE snap'[w] = row[r] /\ UNCHANGED <<row, log>>
  <2>1. log[r] # <<>> /\ log[r][Len(log[r])] = OpeningEvent(snap'[w].lifecycle)
    BY <1>2, <1>4 DEF LogInv, LastEventTells
  <2> QED
    BY <1>1, <1>3, <1>4, <2>1, UnansweredLast
<1>5. CASE pc[w] \in InStep /\ snap'[w] = snap[w]
  <2> DEFINE lifecycle == snap[w].lifecycle
  <2>1. lifecycle \in Settling /\ Unanswered(log[r], OpeningEvent(lifecycle), SettledEvent(lifecycle))
    BY <1>5 DEF LogInv, SnapshotRequestOpen
  <2>2. CASE Untouched(r)
    BY <1>1, <1>5, <2>1, <2>2 DEF Untouched
  <2>3. CASE Started(r)
    BY <1>5, <2>3 DEF Started, IInv, WorksOnStarted, InStep
  <2>4. ASSUME NEW target \in Settling, Requested(r, target)
        PROVE  Unanswered(log'[r], OpeningEvent(lifecycle), SettledEvent(lifecycle))
    <3>1. OpeningEvent(target) # SettledEvent(lifecycle)
      BY <2>1, EventsApart
    <3> QED
      BY <1>3, <2>1, <2>4, <3>1, UnansweredAppend DEF Requested
  <2>5. ASSUME NEW v \in Workers, job[v] = r, Wrote(v), Leave(v) \/ Continue(v)
        PROVE  FALSE
    <3>1. v = w
      BY <1>5, <2>5 DEF Wrote, IInv, OwnsLock, HoldsLock, InStep
    <3>2. pc'[w] \notin InStep
      BY <2>5, <3>1 DEF Leave, Continue, IInv, TypeOK, InStep
    <3> QED
      BY <3>2
  <2> QED
    BY <1>1, <1>2, <1>5, <2>2, <2>3, <2>4, <2>5, StepOfRun
<1> QED
  BY <1>1, <1>4, <1>5

LEMMA LogInvariance == Spec => []LogInv
<1>1. Init => LogInv
  <2> SUFFICES ASSUME Init PROVE LogInv
    OBVIOUS
  <2>1. \A r \in Runs : HistoryInOrder(r)
    BY DEF Init, NoSnap, NotStarted, HistoryInOrder, Settling, TerminalLifecycles, Answers,
           TakenOverAfterActivity
  <2>2. SnapshotRequestOpen
    BY DEF Init, SnapshotRequestOpen, InStep
  <2> QED
    BY <2>1, <2>2, LogInvByRun
<1>2. IInv /\ LogInv /\ [Next]_vars => LogInv'
  <2> SUFFICES ASSUME IInv, LogInv, [Next]_vars PROVE LogInv'
    OBVIOUS
  <2>1. \A r \in Runs : HistoryInOrder(r)'
    BY HistoryStep
  <2>2. SnapshotRequestOpen'
    BY SnapshotStep
  <2> QED
    BY <2>1, <2>2
       DEF LogInv, LastEventTells, TerminalSealed, SettledOnRequest, RecoveryNeedsProgress,
           HistoryInOrder, TakenOverAfterActivity, Answers, OpeningEvent, SettledEvent
<1> QED
  BY <1>1, <1>2, Invariance, PTL DEF Spec

-----------------------------------------------------------------------------
(* The theorems.                                                           *)

\* A run whose row is terminal has that ending as its last event, and no other
\* run has a terminal event: readers of the row and of the log agree
\* (transition-runner.ts 935-1064, event-repository.ts).
THEOREM EndedRunsAreSealed == Spec => []TerminalSealed
<1>1. LogInv => TerminalSealed
  BY DEF LogInv
<1> QED
  BY <1>1, LogInvariance, PTL

\* Each paused, resumed, recovered or cancelled event answers a request of its
\* own, with any overlap of steps and requests (transition-runner.ts 178-254).
THEOREM SafePointsAnswerRequests == Spec => []SettledOnRequest
<1>1. LogInv => SettledOnRequest
  BY DEF LogInv
<1> QED
  BY <1>1, LogInvariance, PTL

\* However often the server restarts or reconcile is called, a recovered run is
\* not taken over again before something else has happened to it
\* (reconcile-service.ts 44-158).
THEOREM RecoveryIsIdempotent == Spec => []RecoveryNeedsProgress
<1>1. LogInv => RecoveryNeedsProgress
  BY DEF LogInv
<1> QED
  BY <1>1, LogInvariance, PTL

-----------------------------------------------------------------------------
(* Lost requests.                                                          *)

\* How the lifecycle of a run that is being settled may change.
SettlingMayChange(r) ==
  /\ row[r].lifecycle \in Settling
  /\ row'[r].lifecycle # row[r].lifecycle
  => \/ row'[r].lifecycle = SettledLifecycle(row[r].lifecycle)
     \/ Supersedes(row'[r].lifecycle, row[r].lifecycle)
     \/ \E w \in Workers : /\ pc[w] \in InStep
                           /\ job[w] = r
                           /\ snap[w].lifecycle # row[r].lifecycle

LEMMA RequestMayChange ==
  ASSUME IInv, NEW r \in Runs, NEW w \in Workers, Requests(w)
  PROVE  SettlingMayChange(r)
<1>1. row \in [Runs -> Rows]
  BY DEF IInv, TypeOK
<1>2. PICK s \in Runs : \/ StartRun(w, s) \/ Reconcile(w, s) \/ RequestPause(w, s)
                        \/ RequestResume(w, s) \/ RequestCancel(w, s)
  BY DEF Requests
<1>3. CASE StartRun(w, s)
  BY <1>1, <1>3 DEF StartRun, SetRow, SettlingMayChange, Settling, NotStarted
<1>4. CASE RequestPause(w, s) \/ RequestResume(w, s) \/ RequestCancel(w, s)
  BY <1>1, <1>4 DEF RequestPause, CanPause, RequestResume, CanResume, RequestCancel, CanCancel,
                    Request, SettlingMayChange, Supersedes, Settling, Rows
<1>5. CASE Reconcile(w, s)
  BY <1>1, <1>5 DEF Reconcile, ShouldRecover, Recoverable, SettlingMayChange, Supersedes,
                    Settling, Rows
<1> QED
  BY <1>2, <1>3, <1>4, <1>5

\* A step that reads the row as it is settles it; one that does not is stale.
LEMMA StepMayChange ==
  ASSUME IInv, NEW r \in Runs, NEW w \in Workers,
         \/ SettleStep(w) \/ Interrupt(w) \/ SwallowInterruption(w)
         \/ Complete(w) \/ Fail(w) \/ \E to \in States : Transition(w, to)
  PROVE  SettlingMayChange(r)
<1>1. row \in [Runs -> Rows] /\ job[w] \in Runs /\ pc[w] \in InStep
  <2>1. pc[w] \in InStep
    BY DEF SettleStep, Interrupt, SwallowInterruption, Complete, Fail, Transition,
           CanFinish, InHandler, InStep
  <2> QED
    BY <2>1 DEF IInv, TypeOK, InStep
<1>2. CASE r # job[w]
  BY <1>2, WritersWriteTheirRun DEF SettlingMayChange
<1>3. CASE r = job[w] /\ snap[w].lifecycle # row[r].lifecycle
  BY <1>1, <1>3 DEF SettlingMayChange
<1>4. CASE r = job[w] /\ snap[w].lifecycle = row[r].lifecycle
  <2>1. CASE SettleStep(w)
    <3>1. row'[r].lifecycle = SettledLifecycle(row[r].lifecycle)
      BY <1>1, <1>4, <2>1 DEF SettleStep, SettleRow, SetRow
    <3> QED
      BY <3>1 DEF SettlingMayChange
  <2>2. CASE ~SettleStep(w)
    <3>1. snap[w].lifecycle = "running"
      BY <2>2 DEF Interrupt, SwallowInterruption, Complete, Fail, Transition, CanFinish, InHandler
    <3> QED
      BY <1>4, <3>1 DEF SettlingMayChange, Settling
  <2> QED
    BY <2>1, <2>2
<1> QED
  BY <1>2, <1>3, <1>4

\* An accepted request is finalized, or taken over by a cancel or a recovery, or
\* overwritten by a step of its run that had read the row before it was accepted
\* (control-routes.ts 118-270, transition-runner.ts 1129-1132): nothing else
\* loses one.
THEOREM RequestsAreLostToOverlapOnly == Spec => LostOnlyToOverlap
<1> DEFINE A == \A r \in Runs : SettlingMayChange(r)
<1>1. IInv /\ [Next]_vars => A
  <2> SUFFICES ASSUME IInv, [Next]_vars, NEW r \in Runs
               PROVE  SettlingMayChange(r)
    OBVIOUS
  <2>1. ASSUME NEW w \in Workers, Drive(w) PROVE SettlingMayChange(r)
    <3>1. CASE \/ SettleStep(w) \/ Interrupt(w) \/ SwallowInterruption(w)
               \/ Complete(w) \/ Fail(w) \/ \E to \in States : Transition(w, to)
      BY <3>1, StepMayChange
    <3>2. CASE \/ AcquireLock(w) \/ GiveUp(w) \/ BeginStep(w) \/ ExhaustLoop(w) \/ Release(w)
               \/ QuietStep(w) \/ PassSafePoint(w) \/ StartOperation(w) \/ NoProgress(w)
      BY <3>2 DEF AcquireLock, GiveUp, BeginStep, ExhaustLoop, Release, QuietStep, PassSafePoint,
                  StartOperation, NoProgress, SettlingMayChange
    <3> QED
      BY <2>1, <3>1, <3>2 DEF Drive
  <2>2. ASSUME NEW w \in Workers, Requests(w) PROVE SettlingMayChange(r)
    BY <2>2, RequestMayChange
  <2>3. CASE \/ \E w \in Workers : AbortStep(w)
             \/ \E s \in Runs : SkipAtStartup(s)
             \/ FinishStartup \/ Crash \/ UNCHANGED vars
    BY <2>3 DEF AbortStep, SkipAtStartup, FinishStartup, Crash, vars, SettlingMayChange
  <2> QED
    BY <2>1, <2>2, <2>3 DEF Next
<1>2. LostOnlyToOverlap <=> [][A]_vars
  BY DEF LostOnlyToOverlap, SettlingMayChange
<1> HIDE DEF A
<1> QED
  BY <1>1, <1>2, Invariance, PTL DEF Spec

-----------------------------------------------------------------------------
(* Locks and the startup pass.                                             *)

\* What a worker does at the end of a step or between two: it ends the step,
\* and keeps its lock.
EndsStep(w) ==
  \/ SettleStep(w) \/ QuietStep(w) \/ Interrupt(w) \/ SwallowInterruption(w)
  \/ Complete(w) \/ Fail(w) \/ NoProgress(w) \/ ExhaustLoop(w) \/ AbortStep(w)
  \/ \E to \in States : Transition(w, to)

LEMMA EndsByLoop ==
  ASSUME NEW w \in Workers, EndsStep(w)
  PROVE  pc[w] \in HoldsLock /\ (Leave(w) \/ Continue(w))
  BY DEF EndsStep, SettleStep, SettleRow, QuietStep, Interrupt, SwallowInterruption, Complete,
         Fail, NoProgress, ExhaustLoop, AbortStep, Transition, CanFinish, InHandler, HoldsLock,
         InStep

\* A step that only reads, or passes a safe point, leaves everybody's lock.
LEMMA LoopMoves ==
  ASSUME IInv, NEW w \in Workers, BeginStep(w) \/ PassSafePoint(w) \/ StartOperation(w)
  PROVE  /\ pc[w] \in HoldsLock /\ pc'[w] \in InStep
         /\ \A v \in Workers \ {w} : pc'[v] = pc[v]
         /\ UNCHANGED <<row, lock, job, iteration, phase, toRecover, used>>
  BY DEF IInv, TypeOK, BeginStep, PassSafePoint, StartOperation, bootVars, HoldsLock, InStep

LEMMA LocksStep ==
  ASSUME IInv, NoLockLeft, CountsFromZero, [Next]_vars
  PROVE  NoLockLeft' /\ CountsFromZero'
<1>1. /\ pc \in [Workers -> WorkerStates] /\ job \in [Workers -> Runs \cup {NoRun}]
      /\ lock \in [Runs -> Workers \cup {NoWorker}]
      /\ iteration \in [Workers -> 0..MaxIterations]
  BY DEF IInv, TypeOK
<1> USE DEF HoldsLock, InStep
<1>2. ASSUME NEW w \in Workers, Requests(w) PROVE NoLockLeft' /\ CountsFromZero'
  <2>1. PICK r \in Runs : Dispatch(w, r) /\ pc[w] = "idle"
    BY <1>2 DEF Requests, StartRun, RequestPause, RequestResume, RequestCancel, Request,
                Reconcile, Serving
  <2>2. NoLockLeft'
    BY <1>1, <2>1 DEF Dispatch, NoLockLeft
  <2>3. CountsFromZero'
    BY <1>1, <2>1 DEF Dispatch, CountsFromZero
  <2> QED
    BY <2>2, <2>3
<1>3. ASSUME NEW w \in Workers, EndsStep(w) PROVE NoLockLeft' /\ CountsFromZero'
  <2>1. /\ pc[w] \in HoldsLock /\ pc'[w] \in HoldsLock
        /\ \A v \in Workers \ {w} : pc'[v] = pc[v] /\ iteration'[v] = iteration[v]
        /\ pc'[w] = "ready" \/ (pc'[w] = "releasing" /\ iteration'[w] = 0)
        /\ UNCHANGED <<job, lock>>
    BY <1>1, <1>3, EndsByLoop DEF Leave, Continue
  <2>2. NoLockLeft'
    BY <1>1, <2>1 DEF NoLockLeft
  <2>3. CountsFromZero'
    BY <2>1 DEF CountsFromZero
  <2> QED
    BY <2>2, <2>3
<1>4. ASSUME NEW w \in Workers, BeginStep(w) \/ PassSafePoint(w) \/ StartOperation(w)
      PROVE  NoLockLeft' /\ CountsFromZero'
  BY <1>1, <1>4, LoopMoves DEF NoLockLeft, CountsFromZero
<1>5. ASSUME NEW w \in Workers, AcquireLock(w) PROVE NoLockLeft' /\ CountsFromZero'
  BY <1>1, <1>5 DEF AcquireLock, NoLockLeft, CountsFromZero
<1>6. ASSUME NEW w \in Workers, GiveUp(w) PROVE NoLockLeft' /\ CountsFromZero'
  BY <1>1, <1>6 DEF GiveUp, NoLockLeft, CountsFromZero
<1>7. ASSUME NEW w \in Workers, Release(w) PROVE NoLockLeft' /\ CountsFromZero'
  BY <1>1, <1>7 DEF Release, NoLockLeft, CountsFromZero
<1>8. ASSUME Crash PROVE NoLockLeft' /\ CountsFromZero'
  BY <1>8 DEF Crash, NoLockLeft, CountsFromZero
<1>9. CASE FinishStartup \/ (\E r \in Runs : SkipAtStartup(r)) \/ UNCHANGED vars
  BY <1>9 DEF FinishStartup, SkipAtStartup, vars, NoLockLeft, CountsFromZero
<1> QED
  BY <1>2, <1>3, <1>4, <1>5, <1>6, <1>7, <1>8, <1>9 DEF Next, Drive, EndsStep

\* The worker the startup pass waits for is alone, and reads what is there.
LEMMA AloneStep ==
  ASSUME IInv, NoLockLeft, CountsFromZero, NEW w \in Workers, NEW r \in Runs,
         \A v \in Workers : pc[v] # "idle" => v = w,
         WillRecover(w, r), row[r].lifecycle = "recovering", row'[r] = row[r],
         Drive(w)
  PROVE  WillRecover(w, r)'
<1>1. /\ pc \in [Workers -> WorkerStates] /\ snap \in [Workers -> Rows]
      /\ iteration \in [Workers -> 0..MaxIterations] /\ MaxIterations \in Nat \ {0}
      /\ row \in [Runs -> Rows]
  BY BoundAssumption DEF IInv, TypeOK
<1>2. job[w] = r
  BY DEF WillRecover
<1>3. CASE pc[w] = "waiting"
  <2>1. ~GiveUp(w)
    <3>1. lock[r] # NoWorker => lock[r] \in Workers /\ pc[lock[r]] \in HoldsLock
      BY DEF NoLockLeft, IInv, TypeOK
    <3> QED
      BY <1>2, <1>3, <3>1 DEF GiveUp, HoldsLock
  <2>2. AcquireLock(w)
    BY <1>3, <2>1 DEF Drive, BeginStep, ExhaustLoop, Release, SettleStep, QuietStep, PassSafePoint,
                      StartOperation, Interrupt, SwallowInterruption, Complete, Fail, NoProgress,
                      Transition, CanFinish
  <2> QED
    BY <1>1, <1>2, <1>3, <2>2 DEF AcquireLock, CountsFromZero, WillRecover
<1>4. CASE pc[w] = "ready" /\ iteration[w] = 0
  <2>1. BeginStep(w)
    BY <1>1, <1>4
       DEF Drive, AcquireLock, GiveUp, ExhaustLoop, Release, SettleStep, QuietStep, PassSafePoint,
           StartOperation, Interrupt, SwallowInterruption, Complete, Fail, NoProgress, Transition,
           CanFinish
  <2> QED
    BY <1>1, <1>2, <2>1 DEF BeginStep, WillRecover
<1>5. CASE pc[w] = "step" /\ snap[w].lifecycle = "recovering"
  <2>1. SettleStep(w)
    BY <1>5
       DEF Drive, AcquireLock, GiveUp, BeginStep, ExhaustLoop, Release, QuietStep, PassSafePoint,
           StartOperation, Interrupt, SwallowInterruption, Complete, Fail, NoProgress, Transition,
           CanFinish, InHandler, TerminalLifecycles
  <2>2. row'[r].lifecycle = "running"
    BY <1>1, <1>2, <1>5, <2>1 DEF SettleStep, SettleRow, SetRow, SettledLifecycle
  <2> QED
    BY <2>2
<1> QED
  BY <1>3, <1>4, <1>5 DEF WillRecover

\* What a step writes is not transitional.
LEMMA WroteIsSettled ==
  ASSUME NEW w \in Workers, Wrote(w)
  PROVE  row'[job[w]].lifecycle \notin Settling
  BY DEF Wrote, Finalized, Resulted, Settling, SettledLifecycle

\* A worker in resumeRun leaves the startup pass and the other workers alone.
LEMMA LoopKeepsStartup ==
  ASSUME IInv, NEW w \in Workers, Drive(w) \/ AbortStep(w)
  PROVE  /\ pc[w] # "idle"
         /\ \A v \in Workers \ {w} : pc'[v] = pc[v]
         /\ UNCHANGED <<phase, toRecover>>
         /\ AbortStep(w) \/ used' = used
<1>1. pc \in [Workers -> WorkerStates]
  BY DEF IInv, TypeOK
<1>2. CASE EndsStep(w)
  <2>1. pc[w] \in HoldsLock /\ (Leave(w) \/ Continue(w))
    BY <1>2, EndsByLoop
  <2>2. CASE AbortStep(w)
    BY <1>1, <2>1, <2>2 DEF Leave, Continue, bootVars, HoldsLock
  <2>3. CASE ~AbortStep(w)
    <3>1. used' = used
      BY <1>2, <2>3 DEF EndsStep, SettleStep, SettleRow, QuietStep, Interrupt, SwallowInterruption,
                        Complete, Fail, NoProgress, ExhaustLoop, Transition
    <3> QED
      BY <1>1, <2>1, <3>1 DEF Leave, Continue, bootVars, HoldsLock
  <2> QED
    BY <2>2, <2>3
<1>3. CASE BeginStep(w) \/ PassSafePoint(w) \/ StartOperation(w)
  BY <1>3, LoopMoves DEF HoldsLock
<1>4. CASE AcquireLock(w) \/ GiveUp(w) \/ Release(w)
  BY <1>1, <1>4 DEF AcquireLock, GiveUp, Release, bootVars
<1> QED
  BY <1>2, <1>3, <1>4 DEF Drive, EndsStep

\* A worker in resumeRun leaves a run alone or writes it by its step.
LEMMA DriveOfRun ==
  ASSUME IInv, NEW w \in Workers, NEW r \in Runs, Drive(w) \/ AbortStep(w)
  PROVE  Untouched(r) \/ (job[w] = r /\ Wrote(w))
<1>1. CASE \/ SettleStep(w) \/ Interrupt(w) \/ SwallowInterruption(w)
           \/ Complete(w) \/ Fail(w) \/ \E to \in States : Transition(w, to)
  BY <1>1, WriterWrote, WritersWriteTheirRun DEF Untouched
<1>2. CASE \/ AcquireLock(w) \/ GiveUp(w) \/ BeginStep(w) \/ ExhaustLoop(w) \/ Release(w)
           \/ QuietStep(w) \/ PassSafePoint(w) \/ StartOperation(w) \/ NoProgress(w)
           \/ AbortStep(w)
  BY <1>2 DEF AcquireLock, GiveUp, BeginStep, ExhaustLoop, Release, QuietStep, PassSafePoint,
              StartOperation, NoProgress, AbortStep, Untouched
<1> QED
  BY <1>1, <1>2 DEF Drive

LEMMA StartupStepKeeps ==
  ASSUME Cardinality(Runs) <= ReconcileLimit, IsFiniteSet(Runs),
         IInv, NoLockLeft, CountsFromZero, StartupInv, [Next]_vars
  PROVE  StartupInv'
<1>1. /\ pc \in [Workers -> WorkerStates] /\ row \in [Runs -> Rows]
      /\ job \in [Workers -> Runs \cup {NoRun}]
      /\ used \in [controls : 0..MaxControls, aborts : 0..MaxAborts, crashes : 0..MaxCrashes]
  BY DEF IInv, TypeOK
<1> SUFFICES ASSUME phase' = "starting" PROVE StartupInv'
  BY DEF StartupInv
<1>2. CASE Crash
  <2>1. toRecover' = {r \in Runs : row[r].lifecycle \in Recoverable}
    <3> DEFINE candidates == {r \in Runs : row[r].lifecycle \in Recoverable}
    <3>1. PICK listed \in SUBSET candidates :
            /\ \/ listed = candidates
               \/ Cardinality(listed) = ReconcileLimit
            /\ toRecover' = listed
      BY <1>2 DEF Crash
    <3>2. listed \subseteq Runs /\ candidates \subseteq Runs
      OBVIOUS
    <3> HIDE DEF candidates
    <3>3. Cardinality(listed) = ReconcileLimit => listed = Runs
      <4>1. Cardinality(listed) <= Cardinality(Runs) /\ (Cardinality(Runs) = Cardinality(listed) => Runs = listed)
        BY <3>2, FS_Subset
      <4>2. Cardinality(Runs) \in Nat /\ ReconcileLimit \in Nat
        BY FS_CardinalityType, BoundAssumption
      <4> QED
        BY <4>1, <4>2
    <3>4. listed = candidates
      BY <3>1, <3>2, <3>3
    <3> QED
      BY <3>1, <3>4 DEF candidates
  <2>2. (\A v \in Workers : pc'[v] = "idle") /\ row' = row
    BY <1>2 DEF Crash
  <2> QED
    BY <2>1, <2>2 DEF StartupInv, Recoverable
<1>3. ASSUME NEW w \in Workers, Drive(w) \/ AbortStep(w) PROVE StartupInv'
  <2>1. pc[w] # "idle" /\ UNCHANGED <<phase, toRecover>>
    BY <1>3, LoopKeepsStartup
  <2>2. \A v \in Workers : pc[v] # "idle" => v = w
    BY <2>1 DEF StartupInv
  <2>3. \A v \in Workers \ {w} : pc'[v] = pc[v]
    BY <1>3, LoopKeepsStartup
  <2>4. \A v, u \in Workers : pc'[v] # "idle" /\ pc'[u] # "idle" => v = u
    BY <2>2, <2>3
  <2>5. ASSUME NEW r \in Runs, row'[r].lifecycle \in {"pausing", "resuming", "recovering"}
        PROVE  row'[r] = row[r]
    <3>1. Untouched(r) \/ \E v \in Workers : job[v] = r /\ Wrote(v)
      BY <1>3, DriveOfRun
    <3> QED
      BY <2>5, <3>1, WroteIsSettled DEF Untouched, Settling
  <2>6. \A r \in Runs : row'[r].lifecycle \in {"pausing", "resuming"} => r \in toRecover'
    BY <2>1, <2>5 DEF StartupInv
  <2>7. ASSUME NEW r \in Runs, row'[r].lifecycle = "recovering"
        PROVE  r \in toRecover' \/ used'.aborts > 0 \/ \E v \in Workers : WillRecover(v, r)'
    <3>1. row'[r] = row[r] /\ row[r].lifecycle = "recovering"
      BY <2>5, <2>7
    <3>2. CASE AbortStep(w)
      <4>1. used.aborts \in Nat /\ used'.aborts = used.aborts + 1
        BY <1>1, <3>2 DEF AbortStep
      <4> QED
        BY <4>1
    <3>3. CASE Drive(w) /\ \E v \in Workers : WillRecover(v, r)
      <4>1. WillRecover(w, r)
        BY <2>2, <3>3 DEF WillRecover
      <4> QED
        BY <2>2, <3>1, <3>3, <4>1, AloneStep
    <3>4. CASE r \in toRecover
      BY <2>1, <3>4
    <3>5. CASE ~AbortStep(w) /\ used.aborts > 0
      <4>1. used' = used
        BY <1>3, <3>5, LoopKeepsStartup
      <4> QED
        BY <3>5, <4>1
    <3> QED
      BY <1>3, <2>1, <3>1, <3>2, <3>3, <3>4, <3>5 DEF StartupInv
  <2> QED
    BY <2>4, <2>6, <2>7 DEF StartupInv, WillRecover
<1>4. ASSUME NEW w \in Workers, Requests(w) PROVE StartupInv'
  <2>1. PICK r \in Runs : \/ StartRun(w, r) \/ Reconcile(w, r) \/ RequestPause(w, r)
                          \/ RequestResume(w, r) \/ RequestCancel(w, r)
    BY <1>4 DEF Requests
  <2>2. phase = "starting"
    BY <2>1 DEF StartRun, Reconcile, RequestPause, RequestResume, RequestCancel, Request, bootVars
  <2>3. Reconcile(w, r)
    BY <2>1, <2>2 DEF StartRun, RequestPause, RequestResume, RequestCancel, Request, Serving
  <2>4. /\ \A v \in Workers : pc[v] = "idle"
        /\ pc' = [pc EXCEPT ![w] = "waiting"] /\ job' = [job EXCEPT ![w] = r]
        /\ row' = [row EXCEPT ![r].lifecycle = "recovering"]
        /\ toRecover' = toRecover \ {r} /\ used' = used
    BY <2>2, <2>3 DEF Reconcile, Dispatch
  <2>5. \A v, u \in Workers : pc'[v] # "idle" /\ pc'[u] # "idle" => v = u
    BY <1>1, <2>4
  <2>6. \A s \in Runs : ~\E v \in Workers : WillRecover(v, s)
    BY <2>4 DEF WillRecover
  <2>7. row'[r].lifecycle = "recovering" /\ \A s \in Runs \ {r} : row'[s] = row[s]
    BY <1>1, <2>4 DEF Rows
  <2>8. pc'[w] = "waiting" /\ job'[w] = r
    BY <1>1, <2>4
  <2> QED
    BY <2>2, <2>4, <2>5, <2>6, <2>7, <2>8 DEF StartupInv, WillRecover
<1>5. ASSUME NEW r \in Runs, SkipAtStartup(r) PROVE StartupInv'
  <2>1. row[r].lifecycle \notin {"pausing", "resuming", "recovering"}
    BY <1>5 DEF SkipAtStartup, ShouldRecover, Recoverable
  <2> QED
    BY <1>5, <2>1 DEF SkipAtStartup, StartupInv, WillRecover
<1>6. CASE FinishStartup
  BY <1>6 DEF FinishStartup
<1>7. CASE UNCHANGED vars
  BY <1>7 DEF vars, StartupInv, WillRecover
<1> QED
  BY <1>2, <1>3, <1>4, <1>5, <1>6, <1>7 DEF Next

LEMMA StartupInvariance ==
  ASSUME Cardinality(Runs) <= ReconcileLimit, IsFiniteSet(Runs)
  PROVE  Spec => []StartupInv
<1>1. Init => NoLockLeft /\ CountsFromZero /\ StartupInv
  BY DEF Init, NoLockLeft, CountsFromZero, StartupInv
<1>2. IInv /\ NoLockLeft /\ CountsFromZero /\ [Next]_vars => NoLockLeft' /\ CountsFromZero'
  BY LocksStep
<1>3. IInv /\ NoLockLeft /\ CountsFromZero /\ StartupInv /\ [Next]_vars => StartupInv'
  BY StartupStepKeeps
<1> QED
  BY <1>1, <1>2, <1>3, Invariance, PTL DEF Spec

\* No run's lock outlives the loop that took it: a run is never locked out by
\* a call that has returned, given up or died (orchestrator.ts 110-169).
THEOREM NoLockIsLeft == Spec => []NoLockLeft
<1>1. Init => NoLockLeft /\ CountsFromZero
  BY DEF Init, NoLockLeft, CountsFromZero
<1>2. IInv /\ NoLockLeft /\ CountsFromZero /\ [Next]_vars => NoLockLeft' /\ CountsFromZero'
  BY LocksStep
<1> QED
  BY <1>1, <1>2, Invariance, PTL DEF Spec

\* With no more runs than the startup pass lists, the server does not open
\* before every pause and resume a crash has interrupted is closed, and every
\* recovery, but for one whose transaction failed (startup-reconcile.ts 14-31,
\* reconcile-service.ts 44-158).
THEOREM StartupClosesWhatCrashesLeave ==
  ASSUME IsFiniteSet(Runs), Cardinality(Runs) <= ReconcileLimit
  PROVE  Spec => []StartupClosesInterruptions
<1>1. StartupInv => StartupClosesInterruptions
  BY DEF StartupInv, StartupClosesInterruptions, WillRecover
<1> QED
  BY <1>1, StartupInvariance, PTL

-----------------------------------------------------------------------------
(* Requests are taken up.                                                  *)

\* A loop that is about to settle its run does so, unless it gives up or fails.
LEMMA SettlerGoesOn ==
  ASSUME IInv, CountsFromZero, ~MayGiveUp, NEW r \in Runs, NEW v \in Workers, WillSettle(v, r),
         row[r].lifecycle \in Settling, row'[r].lifecycle \in Settling,
         NEW w \in Workers, Drive(w)
  PROVE  WillSettle(v, r)'
<1>1. /\ pc \in [Workers -> WorkerStates] /\ snap \in [Workers -> Rows]
      /\ iteration \in [Workers -> 0..MaxIterations] /\ MaxIterations \in Nat \ {0}
      /\ job[v] = r
  BY BoundAssumption DEF IInv, TypeOK, WillSettle
<1>2. CASE v # w
  <2>1. pc'[v] = pc[v] /\ job'[v] = job[v] /\ snap'[v] = snap[v] /\ iteration'[v] = iteration[v]
    <3>1. CASE EndsStep(w)
      BY <1>1, <1>2, <3>1, EndsByLoop DEF Leave, Continue, IInv, TypeOK
    <3>2. CASE BeginStep(w) \/ PassSafePoint(w) \/ StartOperation(w)
      BY <1>1, <1>2, <3>2 DEF BeginStep, PassSafePoint, StartOperation, IInv, TypeOK
    <3>3. CASE AcquireLock(w) \/ GiveUp(w) \/ Release(w)
      BY <1>1, <1>2, <3>3 DEF AcquireLock, GiveUp, Release, IInv, TypeOK
    <3> QED
      BY <3>1, <3>2, <3>3 DEF Drive, EndsStep
  <2> QED
    BY <2>1 DEF WillSettle
<1>3. CASE v = w /\ pc[w] = "waiting"
  <2>1. AcquireLock(w)
    BY <1>3 DEF Drive, GiveUp, BeginStep, ExhaustLoop, Release, SettleStep, QuietStep, PassSafePoint,
                StartOperation, Interrupt, SwallowInterruption, Complete, Fail, NoProgress,
                Transition, CanFinish
  <2> QED
    BY <1>1, <1>3, <2>1 DEF AcquireLock, CountsFromZero, WillSettle
<1>4. CASE v = w /\ pc[w] = "ready"
  <2>1. BeginStep(w)
    BY <1>1, <1>4
       DEF WillSettle, Drive, AcquireLock, GiveUp, ExhaustLoop, Release, SettleStep, QuietStep,
           PassSafePoint, StartOperation, Interrupt, SwallowInterruption, Complete, Fail,
           NoProgress, Transition, CanFinish
  <2> QED
    BY <1>1, <1>4, <2>1 DEF BeginStep, WillSettle
<1>5. CASE v = w /\ pc[w] = "step" /\ snap[w].lifecycle \in Settling
  <2>1. SettleStep(w)
    BY <1>5
       DEF Drive, AcquireLock, GiveUp, BeginStep, ExhaustLoop, Release, QuietStep, PassSafePoint,
           StartOperation, Interrupt, SwallowInterruption, Complete, Fail, NoProgress, Transition,
           CanFinish, InHandler, TerminalLifecycles, Settling
  <2>2. Wrote(w)
    BY <2>1, WriterWrote
  <2> QED
    BY <1>1, <1>5, <2>2, WroteIsSettled
<1> QED
  BY <1>2, <1>3, <1>4, <1>5 DEF WillSettle

\* A request is made by a worker that was idle, and drives it from then on.
LEMMA RequestTakesUp ==
  ASSUME IInv, NEW w \in Workers, NEW s \in Runs, NEW r \in Runs,
         \/ StartRun(w, s) \/ Reconcile(w, s) \/ RequestPause(w, s)
         \/ RequestResume(w, s) \/ RequestCancel(w, s)
  PROVE  /\ s = r => row'[r].lifecycle = "running" \/ WillSettle(w, r)'
         /\ s # r => row'[r] = row[r]
         /\ \A v \in Workers : WillSettle(v, r) => WillSettle(v, r)'
         /\ toRecover \subseteq toRecover' \cup {s}
         /\ used'.aborts = used.aborts /\ used'.crashes = used.crashes
<1>1. /\ pc \in [Workers -> WorkerStates] /\ job \in [Workers -> Runs \cup {NoRun}]
      /\ row \in [Runs -> Rows]
  BY DEF IInv, TypeOK
<1>2. pc[w] = "idle" /\ Dispatch(w, s)
  BY DEF StartRun, RequestPause, RequestResume, RequestCancel, Request, Reconcile, Serving
<1>3. /\ s # r => row'[r] = row[r]
      /\ toRecover \subseteq toRecover' \cup {s}
      /\ used'.aborts = used.aborts /\ used'.crashes = used.crashes
  <2>1. CASE StartRun(w, s)
    BY <1>1, <2>1 DEF StartRun, SetRow, bootVars
  <2>2. CASE Reconcile(w, s)
    BY <1>1, <2>2 DEF Reconcile
  <2>3. CASE RequestPause(w, s) \/ RequestResume(w, s) \/ RequestCancel(w, s)
    BY <1>1, <2>3 DEF RequestPause, RequestResume, RequestCancel, Request, bootVars, IInv, TypeOK
  <2> QED
    BY <2>1, <2>2, <2>3
<1>4. s = r => WillSettle(w, r)'
  BY <1>1, <1>2 DEF Dispatch, WillSettle
<1>5. \A v \in Workers : WillSettle(v, r) => WillSettle(v, r)'
  BY <1>1, <1>2 DEF Dispatch, WillSettle
<1> QED
  BY <1>2, <1>3, <1>4, <1>5

LEMMA TakenUpStep ==
  ASSUME IInv, CountsFromZero, StartupInv', StartsAfterCrash, RequestsAreTakenUp, [Next]_vars
  PROVE  RequestsAreTakenUp'
<1> SUFFICES ASSUME ~MayGiveUp, used'.aborts = 0, NEW r \in Runs, row'[r].lifecycle \in Settling
             PROVE  \/ \E w \in Workers : WillSettle(w, r)'
                    \/ r \in toRecover'
                    \/ row'[r].lifecycle = "cancelling" /\ used'.crashes > 0
  BY DEF RequestsAreTakenUp, WillSettle
<1>1. used \in [controls : 0..MaxControls, aborts : 0..MaxAborts, crashes : 0..MaxCrashes]
  BY DEF IInv, TypeOK
<1>2. ASSUME NEW w \in Workers, Requests(w)
      PROVE  \/ \E v \in Workers : WillSettle(v, r)'
             \/ r \in toRecover'
             \/ row'[r].lifecycle = "cancelling" /\ used'.crashes > 0
  <2>1. PICK s \in Runs : \/ StartRun(w, s) \/ Reconcile(w, s) \/ RequestPause(w, s)
                          \/ RequestResume(w, s) \/ RequestCancel(w, s)
    BY <1>2 DEF Requests
  <2>2. /\ s = r => row'[r].lifecycle = "running" \/ WillSettle(w, r)'
        /\ s # r => row'[r] = row[r]
        /\ \A v \in Workers : WillSettle(v, r) => WillSettle(v, r)'
        /\ toRecover \subseteq toRecover' \cup {s}
        /\ used'.aborts = used.aborts /\ used'.crashes = used.crashes
    BY <2>1, RequestTakesUp
  <2>3. CASE s = r
    BY <2>2, <2>3 DEF Settling
  <2>4. CASE s # r
    BY <2>2, <2>4 DEF RequestsAreTakenUp
  <2> QED
    BY <2>3, <2>4
<1>3. ASSUME NEW w \in Workers, Drive(w)
      PROVE  \/ \E v \in Workers : WillSettle(v, r)'
             \/ r \in toRecover'
             \/ row'[r].lifecycle = "cancelling" /\ used'.crashes > 0
  <2>1. Untouched(r)
    BY <1>3, DriveOfRun, WroteIsSettled
  <2>2. used' = used /\ toRecover' = toRecover
    <3>1. ~AbortStep(w)
      BY <1>1 DEF AbortStep
    <3> QED
      BY <1>3, <3>1, LoopKeepsStartup
  <2>3. row'[r] = row[r]
    BY <2>1 DEF Untouched
  <2>4. \A v \in Workers : WillSettle(v, r) => WillSettle(v, r)'
    BY <1>3, <2>3, SettlerGoesOn
  <2> QED
    BY <2>2, <2>3, <2>4 DEF RequestsAreTakenUp
<1>4. ASSUME NEW w \in Workers, AbortStep(w) PROVE FALSE
  BY <1>1, <1>4 DEF AbortStep
<1>5. ASSUME NEW s \in Runs, SkipAtStartup(s)
      PROVE  \/ \E v \in Workers : WillSettle(v, r)'
             \/ r \in toRecover'
             \/ row'[r].lifecycle = "cancelling" /\ used'.crashes > 0
  <2>1. UNCHANGED <<row, pc, job, snap, iteration, used>> /\ toRecover' = toRecover \ {s}
    BY <1>5 DEF SkipAtStartup
  <2>2. s = r => row[r].lifecycle = "cancelling"
    BY <1>5, <2>1 DEF SkipAtStartup, ShouldRecover, Recoverable, Settling
  <2>3. used.crashes > 0
    BY <1>5 DEF SkipAtStartup, StartsAfterCrash
  <2> QED
    BY <2>1, <2>2, <2>3 DEF RequestsAreTakenUp, WillSettle
<1>6. CASE FinishStartup \/ UNCHANGED vars
  <2>1. UNCHANGED <<row, pc, job, snap, iteration, used, toRecover>>
    BY <1>6 DEF FinishStartup, vars, bootVars
  <2> QED
    BY <2>1 DEF RequestsAreTakenUp, WillSettle
<1>7. CASE Crash
  <2>1. /\ phase' = "starting" /\ used'.crashes > 0 /\ \A w \in Workers : pc'[w] = "idle"
    BY <1>1, <1>7 DEF Crash
  <2>2. \A w \in Workers : ~WillRecover(w, r)'
    BY <2>1 DEF WillRecover
  <2> QED
    BY <2>1, <2>2 DEF StartupInv, Settling
<1> QED
  BY <1>2, <1>3, <1>4, <1>5, <1>6, <1>7 DEF Next

LEMMA StartsAfterCrashStep ==
  ASSUME IInv, StartsAfterCrash, [Next]_vars
  PROVE  StartsAfterCrash'
<1>1. used \in [controls : 0..MaxControls, aborts : 0..MaxAborts, crashes : 0..MaxCrashes]
  BY DEF IInv, TypeOK
<1>2. ASSUME NEW w \in Workers, NEW s \in Runs,
             \/ StartRun(w, s) \/ Reconcile(w, s) \/ RequestPause(w, s)
             \/ RequestResume(w, s) \/ RequestCancel(w, s)
      PROVE  phase' = phase /\ used'.crashes = used.crashes
  <2>1. phase' = phase
    BY <1>2 DEF StartRun, Reconcile, RequestPause, RequestResume, RequestCancel, Request, bootVars
  <2> QED
    BY <1>2, <2>1, RequestTakesUp
<1>3. ASSUME NEW w \in Workers, Drive(w) \/ AbortStep(w)
      PROVE  phase' = phase /\ used'.crashes = used.crashes
  <2>1. AbortStep(w) => used'.crashes = used.crashes
    BY <1>1 DEF AbortStep
  <2> QED
    BY <1>3, <2>1, LoopKeepsStartup
<1>4. CASE Crash
  BY <1>1, <1>4 DEF Crash, StartsAfterCrash
<1>5. CASE FinishStartup \/ (\E s \in Runs : SkipAtStartup(s)) \/ UNCHANGED vars
  BY <1>5 DEF FinishStartup, SkipAtStartup, vars, bootVars, StartsAfterCrash
<1> QED
  BY <1>2, <1>3, <1>4, <1>5 DEF Next, Requests, StartsAfterCrash

\* While no resumeRun call gives up or fails, an open request has a call that
\* will finalize it, or is on the startup pass's list; only a cancellation can be
\* left by a crash (control-routes.ts 118-270, orchestrator.ts 110-169,
\* reconcile-service.ts 44-49).
THEOREM NoRequestIsForgotten ==
  ASSUME IsFiniteSet(Runs), Cardinality(Runs) <= ReconcileLimit
  PROVE  Spec => []RequestsAreTakenUp
<1>1. Init => CountsFromZero /\ NoLockLeft /\ StartsAfterCrash /\ RequestsAreTakenUp
  BY DEF Init, CountsFromZero, NoLockLeft, StartsAfterCrash, RequestsAreTakenUp, NoSnap,
         NotStarted, Settling
<1>2. IInv /\ NoLockLeft /\ CountsFromZero /\ [Next]_vars => NoLockLeft' /\ CountsFromZero'
  BY LocksStep
<1>3. IInv /\ StartsAfterCrash /\ [Next]_vars => StartsAfterCrash'
  BY StartsAfterCrashStep
<1>4. IInv /\ CountsFromZero /\ StartupInv' /\ StartsAfterCrash /\ RequestsAreTakenUp /\ [Next]_vars
        => RequestsAreTakenUp'
  BY TakenUpStep
<1> QED
  BY <1>1, <1>2, <1>3, <1>4, StartupInvariance, Invariance, PTL DEF Spec

-----------------------------------------------------------------------------
(* One step at a time.                                                     *)

StepsOf(r) == {w \in Workers : pc[w] \in InStep /\ job[w] = r}

\* By the run lock a run has one step at most, and reading is what it has read.
ReadingFacts ==
  /\ reading \in [Runs -> Rows]
  /\ \A r \in Runs : StepsOf(r) = {} => reading[r] = NoSnap
  /\ \A r \in Runs, w \in Workers : w \in StepsOf(r) => reading[r] = snap[w]

LEMMA ReadingIs == IInv => ReadingFacts
<1> SUFFICES ASSUME IInv PROVE ReadingFacts
  OBVIOUS
<1>1. reading = [r \in Runs |-> IF StepsOf(r) = {} THEN NoSnap
                               ELSE snap[CHOOSE w \in StepsOf(r) : TRUE]]
  BY DEF reading, StepsOf
<1>2. snap \in [Workers -> Rows] /\ NoSnap \in Rows
  BY NoSnapType DEF IInv, TypeOK
<1>3. \A r \in Runs, v, w \in Workers : v \in StepsOf(r) /\ w \in StepsOf(r) => v = w
  BY DEF StepsOf, IInv, OwnsLock, InStep, HoldsLock
<1>4. \A r \in Runs : StepsOf(r) \subseteq Workers
  BY DEF StepsOf
<1>5. ASSUME NEW r \in Runs, StepsOf(r) # {}
      PROVE  /\ reading[r] \in Rows
             /\ \A w \in Workers : w \in StepsOf(r) => reading[r] = snap[w]
  <2> DEFINE chosen == CHOOSE w \in StepsOf(r) : TRUE
  <2>1. chosen \in StepsOf(r) /\ chosen \in Workers
    BY <1>4, <1>5
  <2>2. reading[r] = snap[chosen]
    BY <1>1, <1>5
  <2> QED
    BY <1>2, <1>3, <2>1, <2>2
<1>6. \A r \in Runs : StepsOf(r) = {} => reading[r] = NoSnap
  BY <1>1
<1>7. \A r \in Runs : reading[r] \in Rows
  BY <1>2, <1>5, <1>6
<1>8. reading \in [Runs -> Rows]
  BY <1>1, <1>7
<1> QED
  BY <1>5, <1>6, <1>8 DEF ReadingFacts

\* Where no step begins or ends, reading stays.
LEMMA SameReading ==
  ASSUME ReadingFacts, ReadingFacts',
         \A w \in Workers : /\ pc[w] \in InStep <=> pc'[w] \in InStep
                            /\ pc[w] \in InStep => job'[w] = job[w] /\ snap'[w] = snap[w]
  PROVE  reading' = reading
<1>1. ASSUME NEW r \in Runs PROVE reading'[r] = reading[r]
  <2>1. StepsOf(r)' = StepsOf(r)
    <3>1. \A w \in Workers : (pc'[w] \in InStep /\ job'[w] = r) <=> (pc[w] \in InStep /\ job[w] = r)
      OBVIOUS
    <3> QED
      BY <3>1 DEF StepsOf
  <2>2. CASE StepsOf(r) = {}
    BY <2>1, <2>2 DEF ReadingFacts
  <2>3. CASE StepsOf(r) # {}
    <3>1. PICK w \in Workers : w \in StepsOf(r)
      BY <2>3 DEF StepsOf
    <3> QED
      BY <2>1, <3>1 DEF ReadingFacts, StepsOf
  <2> QED
    BY <2>2, <2>3
<1> QED
  BY <1>1 DEF ReadingFacts

\* A worker that ends a step leaves its run without one.
LEMMA ReadingEnds ==
  ASSUME IInv, ReadingFacts, ReadingFacts', NEW w \in Workers,
         pc[w] \in HoldsLock, Leave(w) \/ Continue(w)
  PROVE  reading' = [reading EXCEPT ![job[w]] = NoSnap]
<1>1. /\ pc \in [Workers -> WorkerStates] /\ snap \in [Workers -> Rows]
      /\ job[w] \in Runs
  BY DEF IInv, TypeOK, HoldsLock
<1>2. /\ pc'[w] \notin InStep /\ job' = job
      /\ \A v \in Workers \ {w} : pc'[v] = pc[v] /\ snap'[v] = snap[v]
  BY <1>1 DEF Leave, Continue, InStep
<1>3. \A v \in Workers \ {w} : ~(pc[v] \in InStep /\ job[v] = job[w])
  BY DEF IInv, OwnsLock, HoldsLock, InStep
<1>4. StepsOf(job[w])' = {}
  BY <1>2, <1>3 DEF StepsOf
<1>5. ASSUME NEW r \in Runs \ {job[w]} PROVE reading'[r] = reading[r]
  <2>1. StepsOf(r)' = StepsOf(r) /\ w \notin StepsOf(r)
    BY <1>2 DEF StepsOf
  <2>2. CASE StepsOf(r) = {}
    BY <2>1, <2>2 DEF ReadingFacts
  <2>3. CASE StepsOf(r) # {}
    <3>1. PICK v \in Workers \ {w} : v \in StepsOf(r)
      BY <2>1, <2>3 DEF StepsOf
    <3> QED
      BY <1>2, <2>1, <3>1 DEF ReadingFacts, StepsOf
  <2> QED
    BY <2>2, <2>3
<1>6. reading'[job[w]] = NoSnap
  BY <1>1, <1>2, <1>4 DEF ReadingFacts
<1>7. reading \in [Runs -> Rows] /\ reading' \in [Runs -> Rows]
  BY DEF ReadingFacts
<1> QED
  BY <1>5, <1>6, <1>7

\* The abstract row speaks of the same lifecycles.
LEMMA SameLifecycles ==
  /\ SteppedRow!NotStarted = NotStarted /\ SteppedRow!NotRead = NoSnap
  /\ SteppedRow!Settling = Settling /\ SteppedRow!TerminalLifecycles = TerminalLifecycles
  /\ \A lifecycle \in Settling :
       SteppedRow!SettledLifecycle(lifecycle) = SettledLifecycle(lifecycle)
  BY DEF NotStarted, SteppedRow!NotStarted, NoSnap, SteppedRow!NotRead, Settling,
         SteppedRow!Settling, TerminalLifecycles, SteppedRow!TerminalLifecycles,
         SettledLifecycle, SteppedRow!SettledLifecycle

\* A step has read the row of a run that has one.
LEMMA StepHasRead ==
  ASSUME IInv, ReadingFacts, NEW w \in Workers, pc[w] \in InStep
  PROVE  job[w] \in Runs /\ reading[job[w]] = snap[w] /\ snap[w] # NoSnap
<1>1. job[w] \in Runs
  BY DEF IInv, TypeOK, InStep
<1>2. row[job[w]].lifecycle # NotStarted
  BY DEF IInv, WorksOnStarted, InStep
<1>3. snap[w].lifecycle # NotStarted
  BY <1>2 DEF IInv, SnapshotDrift, MayDrift, NotStarted
<1> QED
  BY <1>1, <1>3 DEF ReadingFacts, StepsOf, NoSnap

\* A step that ends with a write ends the abstract one.
LEMMA WritesRow ==
  ASSUME IInv, ReadingFacts, ReadingFacts', NEW w \in Workers, pc[w] \in InStep,
         row[job[w]].lifecycle \notin TerminalLifecycles, Leave(w) \/ Continue(w),
         NEW lifecycle, NEW state, SetRow(job[w], lifecycle, state)
  PROVE  SteppedRow!Write(job[w], lifecycle, state)
<1>1. reading' = [reading EXCEPT ![job[w]] = NoSnap]
  BY ReadingEnds DEF InStep, HoldsLock
<1>2. reading[job[w]] # NoSnap
  BY StepHasRead
<1> QED
  BY <1>1, <1>2, SameLifecycles DEF SteppedRow!Write, SetRow

LEMMA WritingStepIsOne ==
  ASSUME IInv, ReadingFacts, ReadingFacts', NEW w \in Workers,
         \/ SettleStep(w) \/ Interrupt(w) \/ SwallowInterruption(w)
         \/ Complete(w) \/ Fail(w) \/ \E to \in States : Transition(w, to)
  PROVE  SteppedRow!StepOf(job[w])
<1> DEFINE r == job[w]
<1>1. pc[w] \in InStep
  BY DEF SettleStep, Interrupt, SwallowInterruption, Complete, Fail, Transition, CanFinish,
         InHandler, InStep
<1>2. row[r].lifecycle \notin TerminalLifecycles
  BY WritersWriteTheirRun
<1>3. reading[r] = snap[w]
  BY <1>1, StepHasRead
<1>4. CASE SettleStep(w) \/ Interrupt(w)
  <2>1. PICK base \in {snap[w], row[r]} :
          SettleRow(w, base) /\ (base = snap[w] \/ snap[w].lifecycle = "running")
    BY <1>4 DEF SettleStep, Interrupt, InHandler
  <2>2. SteppedRow!Write(r, SettledLifecycle(base.lifecycle), base.state)
    BY <1>1, <1>2, <2>1, WritesRow DEF SettleRow
  <2>3. base.lifecycle \in Settling
    BY <2>1 DEF SettleRow
  <2>4. SteppedRow!Finalize(r, base)
    BY <1>3, <2>1, <2>2, <2>3, SameLifecycles DEF SteppedRow!Finalize
  <2> QED
    BY <1>3, <2>1, <2>4 DEF SteppedRow!StepOf
<1>5. CASE SwallowInterruption(w) \/ Fail(w)
  <2>1. SteppedRow!Write(r, "failed", snap[w].state)
    BY <1>1, <1>2, <1>5, WritesRow DEF SwallowInterruption, Fail
  <2>2. snap[w].lifecycle = "running"
    BY <1>5 DEF SwallowInterruption, Fail, CanFinish, InHandler
  <2> QED
    BY <1>3, <2>1, <2>2 DEF SteppedRow!End, SteppedRow!StepOf
<1>6. CASE Complete(w)
  <2>1. SteppedRow!Write(r, "completed", snap[w].state)
    BY <1>1, <1>2, <1>6, WritesRow DEF Complete
  <2>2. snap[w].lifecycle = "running"
    BY <1>6 DEF Complete, CanFinish, InHandler
  <2> QED
    BY <1>3, <2>1, <2>2 DEF SteppedRow!End, SteppedRow!StepOf
<1>7. ASSUME NEW to \in States, Transition(w, to) PROVE SteppedRow!StepOf(r)
  <2>1. snap[w].lifecycle = "running" /\ <<snap[w].state, to>> \in Allowed
    BY <1>7 DEF Transition, CanFinish, InHandler
  <2>2. SteppedRow!Write(r, "running", to)
    BY <1>1, <1>2, <1>7, <2>1, WritesRow DEF Transition
  <2> QED
    BY <1>3, <2>1, <2>2 DEF SteppedRow!Move, SteppedRow!StepOf
<1> QED
  BY <1>4, <1>5, <1>6, <1>7

\* A step that ends without a write gives up the abstract one.
LEMMA QuietEndGivesUp ==
  ASSUME IInv, ReadingFacts, ReadingFacts', NEW w \in Workers, pc[w] \in HoldsLock,
         Leave(w), UNCHANGED row
  PROVE  \E runs \in SUBSET Runs : SteppedRow!GiveUpSteps(runs)
<1>1. job[w] \in Runs /\ reading \in [Runs -> Rows]
  BY DEF IInv, TypeOK, HoldsLock, ReadingFacts
<1>2. reading' = [reading EXCEPT ![job[w]] = NoSnap]
  BY ReadingEnds
<1>3. reading' = [r \in Runs |-> IF r \in {job[w]} THEN NoSnap ELSE reading[r]]
  BY <1>1, <1>2
<1>4. {job[w]} \in SUBSET Runs
  BY <1>1
<1> QED
  BY <1>3, <1>4, SameLifecycles DEF SteppedRow!GiveUpSteps

\* A worker begins a step on a run that has none: it holds the run's lock.
LEMMA BeginIsOne ==
  ASSUME IInv, ReadingFacts, ReadingFacts', NEW w \in Workers, BeginStep(w)
  PROVE  SteppedRow!BeginStep(job[w])
<1> DEFINE r == job[w]
<1>1. /\ pc \in [Workers -> WorkerStates] /\ snap \in [Workers -> Rows] /\ r \in Runs
      /\ pc[w] = "ready"
  BY DEF IInv, TypeOK, BeginStep
<1>2. /\ pc'[w] \in InStep /\ snap'[w] = row[r] /\ job' = job /\ row' = row
      /\ \A v \in Workers \ {w} : pc'[v] = pc[v] /\ snap'[v] = snap[v]
  BY <1>1 DEF BeginStep, InStep
<1>3. \A v \in Workers : ~(pc[v] \in InStep /\ job[v] = r)
  BY <1>1 DEF IInv, OwnsLock, HoldsLock, InStep
<1>4. reading[r] = NoSnap
  BY <1>1, <1>3 DEF ReadingFacts, StepsOf
<1>5. row[r].lifecycle # NotStarted
  BY <1>1 DEF IInv, WorksOnStarted
<1>6. reading'[r] = row[r]
  BY <1>1, <1>2 DEF ReadingFacts, StepsOf
<1>7. ASSUME NEW s \in Runs \ {r} PROVE reading'[s] = reading[s]
  <2>1. StepsOf(s)' = StepsOf(s) /\ w \notin StepsOf(s)
    BY <1>2 DEF StepsOf
  <2>2. CASE StepsOf(s) = {}
    BY <2>1, <2>2 DEF ReadingFacts
  <2>3. CASE StepsOf(s) # {}
    <3>1. PICK v \in Workers \ {w} : v \in StepsOf(s)
      BY <2>1, <2>3 DEF StepsOf
    <3> QED
      BY <1>2, <2>1, <3>1 DEF ReadingFacts, StepsOf
  <2> QED
    BY <2>2, <2>3
<1>8. reading \in [Runs -> Rows] /\ reading' \in [Runs -> Rows]
  BY DEF ReadingFacts
<1>9. reading' = [reading EXCEPT ![r] = row[r]]
  BY <1>6, <1>7, <1>8
<1> QED
  BY <1>2, <1>4, <1>5, <1>9, SameLifecycles DEF SteppedRow!BeginStep

\* A request asks, and a start starts; neither begins or ends a step.
LEMMA RequestIsOne ==
  ASSUME IInv, ReadingFacts, ReadingFacts', NEW w \in Workers, Requests(w)
  PROVE  \E r \in Runs : SteppedRow!Start(r) \/ \E target \in Settling : SteppedRow!Ask(r, target)
<1>1. pc \in [Workers -> WorkerStates]
  BY DEF IInv, TypeOK
<1>2. PICK r \in Runs : \/ StartRun(w, r) \/ Reconcile(w, r) \/ RequestPause(w, r)
                        \/ RequestResume(w, r) \/ RequestCancel(w, r)
  BY DEF Requests
<1>3. pc[w] = "idle" /\ Dispatch(w, r)
  BY <1>2 DEF StartRun, Reconcile, RequestPause, RequestResume, RequestCancel, Request, Serving
<1>4. reading' = reading
  <2>1. \A v \in Workers : /\ pc[v] \in InStep <=> pc'[v] \in InStep
                           /\ pc[v] \in InStep => job'[v] = job[v] /\ snap'[v] = snap[v]
    <3>1. job \in [Workers -> Runs \cup {NoRun}]
      BY DEF IInv, TypeOK
    <3> QED
      BY <1>1, <1>3, <3>1 DEF Dispatch, InStep
  <2> QED
    BY <2>1, SameReading
<1>5. CASE StartRun(w, r)
  <2>1. SteppedRow!Start(r)
    BY <1>4, <1>5, SameLifecycles DEF StartRun, SetRow, SteppedRow!Start
  <2> QED
    BY <2>1
<1>6. CASE RequestPause(w, r)
  <2>1. SteppedRow!Ask(r, "pausing")
    BY <1>4, <1>6 DEF RequestPause, Request, CanPause, SteppedRow!Ask, SteppedRow!MayAsk,
                      SteppedRow!CanPause
  <2> QED
    BY <2>1 DEF Settling
<1>7. CASE RequestResume(w, r)
  <2>1. SteppedRow!Ask(r, "resuming")
    BY <1>4, <1>7 DEF RequestResume, Request, CanResume, SteppedRow!Ask, SteppedRow!MayAsk,
                      SteppedRow!CanResume
  <2> QED
    BY <2>1 DEF Settling
<1>8. CASE RequestCancel(w, r)
  <2>1. SteppedRow!Ask(r, "cancelling")
    BY <1>4, <1>8 DEF RequestCancel, Request, CanCancel, SteppedRow!Ask, SteppedRow!MayAsk,
                      SteppedRow!CanCancel
  <2> QED
    BY <2>1 DEF Settling
<1>9. CASE Reconcile(w, r)
  <2>1. SteppedRow!Ask(r, "recovering")
    BY <1>4, <1>9 DEF Reconcile, ShouldRecover, Recoverable, SteppedRow!Ask, SteppedRow!MayAsk,
                      SteppedRow!Recoverable
  <2> QED
    BY <2>1 DEF Settling
<1> QED
  BY <1>2, <1>5, <1>6, <1>7, <1>8, <1>9

\* What the loop does between its steps, and inside one, does not show.
LEMMA HiddenStep ==
  ASSUME IInv, ReadingFacts, ReadingFacts', NEW w \in Workers,
         \/ AcquireLock(w) \/ GiveUp(w) \/ Release(w) \/ PassSafePoint(w) \/ StartOperation(w)
  PROVE  UNCHANGED <<row, reading>>
<1>1. pc \in [Workers -> WorkerStates] /\ job \in [Workers -> Runs \cup {NoRun}]
  BY DEF IInv, TypeOK
<1>2. \A v \in Workers : /\ pc[v] \in InStep <=> pc'[v] \in InStep
                         /\ pc[v] \in InStep => job'[v] = job[v] /\ snap'[v] = snap[v]
  BY <1>1 DEF AcquireLock, GiveUp, Release, PassSafePoint, StartOperation, InStep
<1>3. row' = row
  BY DEF AcquireLock, GiveUp, Release, PassSafePoint, StartOperation
<1> QED
  BY <1>2, <1>3, SameReading

LEMMA RowStep ==
  ASSUME IInv, ReadingFacts, ReadingFacts', [Next]_vars
  PROVE  [SteppedRow!Next]_(SteppedRow!vars)
<1>1. ASSUME NEW w \in Workers, Requests(w) PROVE SteppedRow!Next
  BY <1>1, RequestIsOne, SameLifecycles DEF SteppedRow!Next
<1>2. ASSUME NEW w \in Workers,
             \/ SettleStep(w) \/ Interrupt(w) \/ SwallowInterruption(w)
             \/ Complete(w) \/ Fail(w) \/ \E to \in States : Transition(w, to)
      PROVE  SteppedRow!Next
  <2>1. pc[w] \in InStep
    BY <1>2 DEF SettleStep, Interrupt, SwallowInterruption, Complete, Fail, Transition, CanFinish,
                InHandler, InStep
  <2> QED
    BY <1>2, <2>1, StepHasRead, WritingStepIsOne DEF SteppedRow!Next
<1>3. ASSUME NEW w \in Workers,
             QuietStep(w) \/ NoProgress(w) \/ ExhaustLoop(w) \/ AbortStep(w)
      PROVE  SteppedRow!Next
  <2>1. pc[w] \in HoldsLock /\ Leave(w) /\ UNCHANGED row
    BY <1>3 DEF QuietStep, NoProgress, ExhaustLoop, AbortStep, InHandler, InStep, HoldsLock
  <2> QED
    BY <2>1, QuietEndGivesUp DEF SteppedRow!Next
<1>4. ASSUME NEW w \in Workers, BeginStep(w) PROVE SteppedRow!Next
  <2>1. job[w] \in Runs
    BY <1>4 DEF BeginStep, IInv, TypeOK
  <2> QED
    BY <1>4, <2>1, BeginIsOne DEF SteppedRow!Next, SteppedRow!StepOf
<1>5. ASSUME NEW w \in Workers,
             \/ AcquireLock(w) \/ GiveUp(w) \/ Release(w) \/ PassSafePoint(w)
             \/ StartOperation(w)
      PROVE  UNCHANGED SteppedRow!vars
  BY <1>5, HiddenStep DEF SteppedRow!vars
<1>6. CASE Crash
  <2>1. \A r \in Runs : StepsOf(r)' = {}
    BY <1>6 DEF Crash, StepsOf, InStep
  <2>2. reading' = [r \in Runs |-> NoSnap]
    BY <2>1 DEF ReadingFacts
  <2>3. reading' = [r \in Runs |-> IF r \in Runs THEN NoSnap ELSE reading[r]] /\ row' = row
    BY <1>6, <2>2 DEF Crash
  <2>4. SteppedRow!GiveUpSteps(Runs)
    BY <2>3, SameLifecycles DEF SteppedRow!GiveUpSteps
  <2> QED
    BY <2>4 DEF SteppedRow!Next
<1>7. CASE FinishStartup \/ (\E r \in Runs : SkipAtStartup(r)) \/ UNCHANGED vars
  <2>1. UNCHANGED <<row, pc, job, snap>>
    BY <1>7 DEF FinishStartup, SkipAtStartup, vars
  <2>2. reading' = reading
    BY <2>1, SameReading
  <2> QED
    BY <2>1, <2>2 DEF SteppedRow!vars
<1> QED
  BY <1>1, <1>2, <1>3, <1>4, <1>5, <1>6, <1>7 DEF Next, Drive

\* Whatever loops, requests, aborts and crashes interleave, each run's row is
\* read and written by one step at a time, and the step's write is of what it
\* has read, a request apart (transition-runner.ts 1066-1139, orchestrator.ts
\* 110-169).
THEOREM RowsAreSteppedOneAtATime == Spec => OneStepAtATime
<1>1. Init => SteppedRow!Init
  <2> SUFFICES ASSUME Init PROVE SteppedRow!Init
    OBVIOUS
  <2>1. ReadingFacts
    BY InitKeeps, ReadingIs
  <2>2. \A r \in Runs : StepsOf(r) = {}
    BY DEF Init, StepsOf, InStep
  <2>3. reading = [r \in Runs |-> NoSnap]
    BY <2>1, <2>2 DEF ReadingFacts
  <2> QED
    BY <2>3, SameLifecycles DEF Init, SteppedRow!Init
<1>2. IInv /\ ReadingFacts /\ ReadingFacts' /\ [Next]_vars => [SteppedRow!Next]_(SteppedRow!vars)
  BY RowStep
<1>3. IInv => ReadingFacts
  BY ReadingIs
<1> QED
  BY <1>1, <1>2, <1>3, Invariance, PTL DEF Spec, OneStepAtATime, SteppedRow!Spec

-----------------------------------------------------------------------------
(* The declared map.                                                       *)

\* What a step has read is as old as the requests that came since.
LEMMA ReadingDrifts ==
  ASSUME IInv, ReadingFacts, NEW r \in Runs, reading[r] # NoSnap
  PROVE  MayDrift(reading[r].lifecycle, row[r].lifecycle)
<1>1. PICK w \in Workers : w \in StepsOf(r)
  BY DEF ReadingFacts, StepsOf
<1> QED
  BY <1>1 DEF ReadingFacts, StepsOf, IInv, SnapshotDrift

\* A step that writes leaves the map only over a request it has not read.
LEMMA WriteMoves ==
  ASSUME IInv, ReadingFacts, NEW r \in Runs, SteppedRow!StepOf(r)
  PROVE  \A s \in Runs : MapMove(s)
<1>1. row \in [Runs -> Rows] /\ reading \in [Runs -> Rows]
  BY DEF IInv, TypeOK, ReadingFacts
<1>2. CASE SteppedRow!BeginStep(r)
  BY <1>2 DEF SteppedRow!BeginStep, MapMove
<1>3. ASSUME NEW lifecycle, NEW state, SteppedRow!Write(r, lifecycle, state),
             \/ CanTransition(row[r].lifecycle, lifecycle)
             \/ lifecycle = row[r].lifecycle
             \/ /\ row[r].lifecycle \in {"pausing", "recovering", "cancelling"}
                /\ reading[r].lifecycle \notin {row[r].lifecycle, NotStarted}
      PROVE  \A s \in Runs : MapMove(s)
  <2>1. row'[r].lifecycle = lifecycle /\ \A s \in Runs \ {r} : row'[s] = row[s]
    BY <1>1, <1>3 DEF SteppedRow!Write
  <2> QED
    BY <1>3, <2>1 DEF MapMove
<1>4. CASE SteppedRow!Finalize(r, reading[r]) \/ SteppedRow!Finalize(r, row[r])
  <2>1. PICK base \in {reading[r], row[r]} : SteppedRow!Finalize(r, base)
    BY <1>4
  <2>2. /\ base.lifecycle \in Settling
        /\ SteppedRow!Write(r, SettledLifecycle(base.lifecycle), base.state)
        /\ reading[r] # NoSnap
    BY <2>1, SameLifecycles DEF SteppedRow!Finalize, SteppedRow!Write
  <2>3. MayDrift(reading[r].lifecycle, row[r].lifecycle)
    BY <2>2, ReadingDrifts
  <2>4. \/ base.lifecycle = row[r].lifecycle
        \/ /\ base = reading[r]
           /\ row[r].lifecycle \in {"pausing", "recovering", "cancelling"}
           /\ reading[r].lifecycle \notin {row[r].lifecycle, NotStarted}
    BY <2>1, <2>2, <2>3 DEF MayDrift, Settling, NotStarted
  <2>5. base.lifecycle = row[r].lifecycle =>
          CanTransition(row[r].lifecycle, SettledLifecycle(base.lifecycle))
    BY <2>2 DEF Settling, SettledLifecycle, CanTransition, LifecycleTransitions
  <2> QED
    BY <1>3, <2>2, <2>4, <2>5
<1>5. ASSUME NEW lifecycle \in {"running", "completed", "failed"}, NEW state,
             reading[r].lifecycle = "running", SteppedRow!Write(r, lifecycle, state)
      PROVE  \A s \in Runs : MapMove(s)
  <2>1. MayDrift("running", row[r].lifecycle)
    BY <1>5, SameLifecycles, ReadingDrifts DEF SteppedRow!Write
  <2>2. \/ row[r].lifecycle = "running"
        \/ /\ row[r].lifecycle \in {"pausing", "recovering", "cancelling"}
           /\ reading[r].lifecycle \notin {row[r].lifecycle, NotStarted}
    BY <1>5, <2>1 DEF MayDrift, NotStarted
  <2>3. row[r].lifecycle = "running" =>
          CanTransition(row[r].lifecycle, lifecycle) \/ lifecycle = row[r].lifecycle
    BY <1>5 DEF CanTransition, LifecycleTransitions
  <2> QED
    BY <1>3, <1>5, <2>2, <2>3
<1>6. CASE \/ SteppedRow!End(r, "completed") \/ SteppedRow!End(r, "failed")
           \/ \E to \in States : SteppedRow!Move(r, to)
  BY <1>5, <1>6 DEF SteppedRow!End, SteppedRow!Move
<1> QED
  BY <1>2, <1>4, <1>6 DEF SteppedRow!StepOf

LEMMA RowMoves ==
  ASSUME IInv, ReadingFacts, [SteppedRow!Next]_(SteppedRow!vars)
  PROVE  \A r \in Runs : MapMove(r)
<1>1. row \in [Runs -> Rows]
  BY DEF IInv, TypeOK
<1>2. ASSUME NEW s \in Runs, SteppedRow!Start(s) PROVE \A r \in Runs : MapMove(r)
  BY <1>1, <1>2, SameLifecycles DEF SteppedRow!Start, MapMove
<1>3. ASSUME NEW s \in Runs, NEW target \in Settling, SteppedRow!Ask(s, target)
      PROVE  \A r \in Runs : MapMove(r)
  <2>1. row'[s].lifecycle = target /\ \A r \in Runs \ {s} : row'[r] = row[r]
    BY <1>1, <1>3 DEF SteppedRow!Ask, Rows
  <2>2. target = row[s].lifecycle \/ CanTransition(row[s].lifecycle, target)
    BY <1>3 DEF SteppedRow!Ask, SteppedRow!MayAsk, SteppedRow!CanPause, SteppedRow!CanResume,
                SteppedRow!CanCancel, SteppedRow!Recoverable, CanTransition,
                LifecycleTransitions
  <2> QED
    BY <2>1, <2>2 DEF MapMove
<1>4. CASE UNCHANGED row
  BY <1>4 DEF MapMove
<1> QED
  BY <1>2, <1>3, <1>4, WriteMoves, SameLifecycles
     DEF SteppedRow!Next, SteppedRow!GiveUpSteps, SteppedRow!vars

\* A row leaves the declared map of lifecycles only by the write of a step that
\* read it before the latest request (lifecycle-machine.ts 16-34,
\* transition-runner.ts 1129-1132).
THEOREM MapIsLeftByStaleStepsOnly == Spec => OffTheMapByStaleSteps
<1>1. IInv /\ ReadingFacts /\ ReadingFacts' /\ [Next]_vars => [\A r \in Runs : MapMove(r)]_vars
  BY RowStep, RowMoves
<1>2. IInv => ReadingFacts
  BY ReadingIs
<1> QED
  BY <1>1, <1>2, Invariance, PTL DEF Spec, OffTheMapByStaleSteps

-----------------------------------------------------------------------------
(* One ending.                                                             *)

EndsLast(r) ==
  \A i \in 1..Len(log[r]) : log[r][i] \in TerminalEvents =>
    \/ i = Len(log[r])
    \/ /\ HandlerMaySwallow
       /\ i + 1 = Len(log[r])
       /\ log[r][i] = "workflow.cancelled"
       /\ log[r][i + 1] = "workflow.failed"

\* Nothing is appended behind an ending, the failure of a swallowing handler
\* apart: a step writes a row that has not ended, whose log has no ending.
LEMMA EndStaysLast ==
  ASSUME IInv, LogInv, [Next]_vars, NEW r \in Runs, EndsLast(r)
  PROVE  EndsLast(r)'
<1>1. log[r] \in Seq(EventTypes)
  BY RunOf
<1>2. CASE Untouched(r)
  BY <1>2 DEF Untouched, EndsLast
<1>3. ASSUME NEW event, row[r].lifecycle \notin TerminalLifecycles, log'[r] = Append(log[r], event)
      PROVE  EndsLast(r)'
  <2>1. \A i \in 1..Len(log[r]) : log[r][i] \notin TerminalEvents
    BY <1>3 DEF LogInv, TerminalSealed
  <2>2. /\ Len(log[r]) \in Nat /\ Len(log'[r]) = Len(log[r]) + 1
        /\ \A i \in 1..Len(log[r]) : log'[r][i] = log[r][i]
    BY <1>1, <1>3, AppendedLog
  <2> QED
    BY <2>1, <2>2 DEF EndsLast
<1>4. CASE Started(r) \/ \E target \in Settling : Requested(r, target)
  BY <1>3, <1>4 DEF Started, Requested, NotStarted, TerminalLifecycles
<1>5. ASSUME NEW w \in Workers, job[w] = r, Wrote(w) PROVE EndsLast(r)'
  <2>1. row[r].lifecycle \notin TerminalLifecycles
    BY <1>5 DEF Wrote
  <2>2. ASSUME NEW lifecycle \in Settling, HandlerMaySwallow,
               log'[r] = Append(Append(log[r], SettledEvent(lifecycle)), "workflow.failed")
        PROVE  EndsLast(r)'
    <3> DEFINE first == Append(log[r], SettledEvent(lifecycle))
    <3>1. \A i \in 1..Len(log[r]) : log[r][i] \notin TerminalEvents
      BY <2>1 DEF LogInv, TerminalSealed
    <3>2. /\ Len(log[r]) \in Nat /\ Len(first) = Len(log[r]) + 1
          /\ first[Len(log[r]) + 1] = SettledEvent(lifecycle)
          /\ \A i \in 1..Len(log[r]) : first[i] = log[r][i]
      BY <1>1, AppendedLog
    <3>3. first \in Seq(EventTypes) /\ log'[r] = Append(first, "workflow.failed")
      BY <1>1, <2>2, SettledTypes
    <3> HIDE DEF first
    <3>4. /\ Len(log'[r]) = Len(first) + 1
          /\ log'[r][Len(first) + 1] = "workflow.failed"
          /\ \A i \in 1..Len(first) : log'[r][i] = first[i]
      BY <3>3, AppendedLog
    <3>5. SettledEvent(lifecycle) \in TerminalEvents => SettledEvent(lifecycle) = "workflow.cancelled"
      BY EventsApart DEF SettledEvent
    <3> QED
      BY <2>2, <3>1, <3>2, <3>4, <3>5 DEF EndsLast
  <2>3. ASSUME NEW lifecycle \in Settling, Finalized(w, lifecycle) PROVE EndsLast(r)'
    BY <1>3, <1>5, <2>1, <2>2, <2>3 DEF Finalized
  <2>4. ASSUME NEW lifecycle \in Lifecycles, NEW event \in EventTypes,
               Resulted(w, lifecycle, event)
        PROVE  EndsLast(r)'
    BY <1>3, <1>5, <2>1, <2>4 DEF Resulted
  <2> QED
    BY <1>5, <2>3, <2>4 DEF Wrote
<1> QED
  BY <1>2, <1>4, <1>5, StepOfRun

\* A history has its run's ending as its last event, and no other ending but a
\* cancellation that a handler has turned into a failure (transition-runner.ts
\* 404-433, 935-1064).
THEOREM EndingsComeLast == Spec => []EndingIsLast
<1>1. Init => EndingIsLast
  BY DEF Init, EndingIsLast
<1>2. IInv /\ LogInv /\ EndingIsLast /\ [Next]_vars => EndingIsLast'
  <2> SUFFICES ASSUME IInv, LogInv, EndingIsLast, [Next]_vars, NEW r \in Runs PROVE EndsLast(r)'
    BY DEF EndingIsLast, EndsLast
  <2>1. EndsLast(r)
    BY DEF EndingIsLast, EndsLast
  <2> QED
    BY <2>1, EndStaysLast
<1> QED
  BY <1>1, <1>2, Invariance, LogInvariance, PTL DEF Spec

\* With handlers that let a safe point's interruption through, no run ends twice
\* (transition-runner.ts 404-433, 1011-1047).
THEOREM RunsEndOnce == Spec => EndsOnceUnlessSwallowed
<1>1. ASSUME ~HandlerMaySwallow PROVE EndingIsLast => OneTerminalEvent
  <2> SUFFICES ASSUME EndingIsLast, NEW r \in Runs
               PROVE  Cardinality({i \in 1..Len(log[r]) : log[r][i] \in TerminalEvents}) <= 1
    BY DEF OneTerminalEvent
  <2> DEFINE Endings == {i \in 1..Len(log[r]) : log[r][i] \in TerminalEvents}
  <2>1. Endings \subseteq {Len(log[r])}
    BY <1>1 DEF EndingIsLast
  <2>2. IsFiniteSet({Len(log[r])}) /\ Cardinality({Len(log[r])}) = 1
    BY FS_Singleton
  <2> HIDE DEF Endings
  <2>3. Cardinality(Endings) <= 1
    BY <2>1, <2>2, FS_Subset
  <2> QED
    BY <2>3 DEF Endings
<1>2. CASE HandlerMaySwallow
  BY <1>2, PTL DEF EndsOnceUnlessSwallowed
<1>3. CASE ~HandlerMaySwallow
  <2>1. EndingIsLast => OneTerminalEvent
    BY <1>1, <1>3
  <2>2. Spec => []OneTerminalEvent
    BY <2>1, EndingsComeLast, PTL
  <2> QED
    BY <2>2, PTL DEF EndsOnceUnlessSwallowed
<1> QED
  BY <1>2, <1>3

=============================================================================
