------------------------- MODULE RunExecutionProofs -------------------------
(***************************************************************************)
(* Proofs about RunExecution, for every number of runs and workers, every  *)
(* workflow definition and every bound.                                    *)
(***************************************************************************)
EXTENDS RunExecution, TLAPS

-----------------------------------------------------------------------------
(* Facts about the operators of the model.                                 *)

\* Whatever a safe point writes is a lifecycle a row can have, and the event
\* it appends is an event type.
LEMMA SettledTypes ==
  ASSUME NEW lifecycle \in Settling
  PROVE  /\ SettledLifecycle(lifecycle) \in Lifecycles
         /\ SettledEvent(lifecycle) \in EventTypes
  BY DEF Settling, SettledLifecycle, SettledEvent, Lifecycles, EventTypes

LEMMA NoSnapType == NoSnap \in Rows
  BY DefinitionAssumption DEF NoSnap, Rows

LEMMA Bounds ==
  /\ MaxIterations \in Nat /\ MaxIterations > 0
  /\ MaxControls \in Nat /\ MaxAborts \in Nat /\ MaxCrashes \in Nat
  BY BoundAssumption

\* Extending a chain of transitions by one that leaves its end gives a chain
\* that ends where the new transition goes.
LEMMA AppendChain ==
  ASSUME NEW transitions \in Seq(States \X States), NEW to \in States,
         Chain(transitions)
  PROVE  LET longer == Append(transitions, <<EndOf(transitions), to>>)
         IN Chain(longer) /\ EndOf(longer) = to
<1> DEFINE longer == Append(transitions, <<EndOf(transitions), to>>)
<1> DEFINE n == Len(transitions)
<1>1. EndOf(transitions) \in States
  BY DefinitionAssumption DEF EndOf
<1>2. /\ longer \in Seq(States \X States)
      /\ Len(longer) = n + 1
      /\ longer[n + 1] = <<EndOf(transitions), to>>
      /\ \A i \in 1..n : longer[i] = transitions[i]
      /\ n \in Nat
  BY <1>1
<1>3. EndOf(longer) = to
  BY <1>2 DEF EndOf
<1>4. Chain(longer)
  <2> SUFFICES ASSUME NEW i \in 1..(n + 1)
               PROVE  longer[i][1] = IF i = 1 THEN InitialState ELSE longer[i - 1][2]
    BY <1>2 DEF Chain
  <2>1. CASE i \in 1..n
    BY <1>2, <2>1 DEF Chain
  <2>2. CASE i = n + 1
    <3>1. CASE n = 0
      <4>1. transitions = <<>>
        BY <3>1
      <4> QED
        BY <1>2, <2>2, <3>1, <4>1 DEF EndOf
    <3>2. CASE n # 0
      <4>1. transitions # <<>> /\ n \in 1..n
        BY <1>2, <3>2
      <4> QED
        BY <1>2, <2>2, <3>2, <4>1 DEF EndOf
    <3> QED
      BY <3>1, <3>2
  <2> QED
    BY <1>2, <2>1, <2>2
<1> QED
  BY <1>3, <1>4

LEMMA EmitType ==
  ASSUME log \in [Runs -> Seq(EventTypes)], NEW r \in Runs, NEW event \in EventTypes,
         Emit(r, event)
  PROVE  log' \in [Runs -> Seq(EventTypes)]
<1>1. Append(log[r], event) \in Seq(EventTypes)
  OBVIOUS
<1> QED
  BY <1>1 DEF Emit

-----------------------------------------------------------------------------
(* What the actions have in common.                                        *)

\* TransitionsChain is untouched by whatever leaves the executed transitions
\* and the current states alone.
LEMMA KeepChain ==
  ASSUME TransitionsChain, trail' = trail,
         \A r \in Runs : row'[r].state = row[r].state
  PROVE  TransitionsChain'
  BY DEF TransitionsChain, Chain, EndOf

\* A worker that ends a step, or that leaves the loop before one, keeps every
\* part of the invariant but the chain, whatever it writes to the row of its
\* own run: by OwnsLock no other step works on that run.
LEMMA StepEnd ==
  ASSUME IInv, NEW w \in Workers,
         pc[w] \in HoldsLock,
         Leave(w) \/ (Continue(w) /\ pc[w] \in InStep),
         row' \in [Runs -> Rows],
         \A r \in Runs \ {job[w]} : row'[r] = row[r],
         row'[job[w]].lifecycle # NotStarted,
         log' \in [Runs -> Seq(EventTypes)],
         trail' \in [Runs -> Seq(States \X States)],
         used' \in [controls : 0..MaxControls, aborts : 0..MaxAborts,
                    crashes : 0..MaxCrashes]
  PROVE  /\ TypeOK' /\ OwnsLock' /\ WorksOnStarted' /\ StepsWithinBound'
         /\ HandlersReadRunning' /\ UnstartedAtInitial' /\ SnapshotDrift'
<1> USE DEF IInv
<1>1. /\ pc' \in [Workers -> WorkerStates]
      /\ pc'[w] \in {"ready", "releasing"}
      /\ \A v \in Workers \ {w} : pc'[v] = pc[v]
      /\ UNCHANGED <<job, lock, reconciling, phase, toRecover>>
  BY DEF TypeOK, Leave, Continue, bootVars, WorkerStates
<1>2. /\ snap' \in [Workers -> Rows]
      /\ \A v \in Workers \ {w} : snap'[v] = snap[v]
  BY NoSnapType DEF TypeOK, Leave, Continue
<1>3. /\ iteration' \in [Workers -> 0..MaxIterations]
      /\ \A v \in Workers \ {w} : iteration'[v] = iteration[v]
  <2>1. CASE Leave(w)
    BY <2>1, Bounds DEF TypeOK, Leave
  <2>2. CASE Continue(w) /\ pc[w] \in InStep
    <3>1. iteration \in [Workers -> 0..MaxIterations] /\ iteration[w] < MaxIterations
      BY <2>2 DEF TypeOK, StepsWithinBound
    <3>2. iteration[w] + 1 \in 0..MaxIterations
      BY <3>1, Bounds
    <3> QED
      BY <2>2, <3>1, <3>2 DEF Continue
  <2> QED
    BY <2>1, <2>2
<1>4. job[w] \in Runs
  BY DEF TypeOK, HoldsLock
<1>5. TypeOK'
  BY <1>1, <1>2, <1>3, <1>4 DEF TypeOK, HoldsLock
<1>6. OwnsLock'
  BY <1>1 DEF OwnsLock
<1>7. WorksOnStarted' /\ UnstartedAtInitial'
  BY <1>1, <1>4 DEF WorksOnStarted, UnstartedAtInitial, TypeOK
<1>8. StepsWithinBound' /\ HandlersReadRunning'
  BY <1>1, <1>2, <1>3 DEF StepsWithinBound, HandlersReadRunning, InStep
<1>9. SnapshotDrift'
  <2> SUFFICES ASSUME NEW v \in Workers, pc'[v] \in InStep
               PROVE  /\ row'[job'[v]].state = snap'[v].state
                      /\ MayDrift(snap'[v].lifecycle, row'[job'[v]].lifecycle)
    BY DEF SnapshotDrift, MayDrift
  <2>1. v # w
    BY <1>1 DEF InStep
  <2>2. pc[v] \in InStep /\ snap'[v] = snap[v] /\ job'[v] = job[v]
    BY <1>1, <1>2, <2>1
  <2>3. job[v] \in Runs \ {job[w]}
    BY <2>1, <2>2 DEF OwnsLock, HoldsLock, InStep, TypeOK
  <2>4. row'[job'[v]] = row[job[v]]
    BY <2>2, <2>3
  <2> QED
    BY <2>2, <2>4 DEF SnapshotDrift
<1> QED
  BY <1>5, <1>6, <1>7, <1>8, <1>9

\* An idle worker that writes the lifecycle of a run and calls resumeRun keeps
\* the invariant, if the steps in progress on that run may see the lifecycle it
\* writes.
LEMMA DispatchKeeps ==
  ASSUME IInv, NEW w \in Workers, NEW r \in Runs,
         pc[w] = "idle",
         Dispatch(w, r),
         row' \in [Runs -> Rows],
         \A s \in Runs \ {r} : row'[s] = row[s],
         row'[r].lifecycle # NotStarted,
         row'[r].state = row[r].state,
         \/ row[r].lifecycle = NotStarted
         \/ \A seen \in Lifecycles :
              MayDrift(seen, row[r].lifecycle) => MayDrift(seen, row'[r].lifecycle),
         log' \in [Runs -> Seq(EventTypes)],
         trail' = trail,
         reconciling' \subseteq Workers,
         phase' = phase,
         toRecover' \subseteq Runs,
         used' \in [controls : 0..MaxControls, aborts : 0..MaxAborts,
                    crashes : 0..MaxCrashes]
  PROVE  IInv'
<1> USE DEF IInv
<1>1. /\ pc' \in [Workers -> WorkerStates]
      /\ pc'[w] = "waiting"
      /\ \A v \in Workers \ {w} : pc'[v] = pc[v]
      /\ job' \in [Workers -> Runs \cup {NoRun}]
      /\ job'[w] = r
      /\ \A v \in Workers \ {w} : job'[v] = job[v]
      /\ UNCHANGED <<lock, snap, iteration>>
  BY DEF TypeOK, Dispatch, WorkerStates
<1>2. TypeOK'
  BY <1>1 DEF TypeOK
<1>3. OwnsLock'
  BY <1>1 DEF OwnsLock, HoldsLock
<1>4. WorksOnStarted' /\ UnstartedAtInitial'
  <2>1. WorksOnStarted'
    <3> SUFFICES ASSUME NEW v \in Workers, pc'[v] # "idle"
                 PROVE  row'[job'[v]].lifecycle # NotStarted
      BY DEF WorksOnStarted
    <3>1. CASE v = w
      BY <1>1, <3>1
    <3>2. CASE v # w
      BY <1>1, <3>2 DEF WorksOnStarted, TypeOK
    <3> QED
      BY <3>1, <3>2
  <2>2. UnstartedAtInitial'
    BY DEF UnstartedAtInitial
  <2> QED
    BY <2>1, <2>2
<1>5. StepsWithinBound' /\ HandlersReadRunning'
  BY <1>1 DEF StepsWithinBound, HandlersReadRunning, InStep
<1>6. SnapshotDrift'
  <2> SUFFICES ASSUME NEW v \in Workers, pc'[v] \in InStep
               PROVE  /\ row'[job'[v]].state = snap'[v].state
                      /\ MayDrift(snap'[v].lifecycle, row'[job'[v]].lifecycle)
    BY DEF SnapshotDrift, MayDrift
  <2>1. v # w
    BY <1>1 DEF InStep
  <2>2. pc[v] \in InStep /\ snap'[v] = snap[v] /\ job'[v] = job[v] /\ job[v] \in Runs
    BY <1>1, <2>1 DEF TypeOK, InStep
  <2>3. /\ row[job[v]].state = snap[v].state
        /\ MayDrift(snap[v].lifecycle, row[job[v]].lifecycle)
        /\ row[job[v]].lifecycle # NotStarted
    BY <2>2 DEF SnapshotDrift, WorksOnStarted, InStep
  <2>4. snap[v].lifecycle \in Lifecycles
    BY <2>3 DEF TypeOK, Rows, MayDrift, NotStarted, Lifecycles
  <2>5. CASE job[v] = r
    BY <2>2, <2>3, <2>4, <2>5
  <2>6. CASE job[v] # r
    BY <2>2, <2>3, <2>6
  <2> QED
    BY <2>5, <2>6
<1>7. TransitionsChain'
  BY KeepChain
<1> QED
  BY <1>2, <1>3, <1>4, <1>5, <1>6, <1>7

-----------------------------------------------------------------------------
(* Every action keeps the invariant.                                       *)

LEMMA InitKeeps == Init => IInv
<1> SUFFICES ASSUME Init PROVE IInv
  OBVIOUS
<1> USE DEF Init
<1>1. TypeOK
  BY NoSnapType, Bounds DEF TypeOK, WorkerStates
<1>2. OwnsLock /\ WorksOnStarted /\ StepsWithinBound /\ HandlersReadRunning
  BY DEF OwnsLock, WorksOnStarted, StepsWithinBound, HandlersReadRunning, HoldsLock, InStep
<1>3. UnstartedAtInitial /\ SnapshotDrift
  BY DEF UnstartedAtInitial, SnapshotDrift, NoSnap, InStep
<1>4. TransitionsChain
  BY DEF TransitionsChain, Chain, EndOf, NoSnap
<1> QED
  BY <1>1, <1>2, <1>3, <1>4 DEF IInv

LEMMA StutterKeeps == IInv /\ UNCHANGED vars => IInv'
  BY DEF IInv, vars, bootVars, TypeOK, OwnsLock, WorksOnStarted, StepsWithinBound,
         HandlersReadRunning, UnstartedAtInitial, SnapshotDrift, MayDrift,
         TransitionsChain, Chain, EndOf

LEMMA StartRunKeeps ==
  ASSUME IInv, NEW w \in Workers, NEW r \in Runs, StartRun(w, r)
  PROVE  IInv'
<1> USE DEF StartRun, Serving, bootVars
<1>1. /\ row \in [Runs -> Rows]
      /\ row[r].lifecycle = NotStarted
      /\ row[r].state = InitialState
      /\ row' = [row EXCEPT ![r] = [lifecycle |-> "running", state |-> InitialState]]
  BY DEF IInv, TypeOK, UnstartedAtInitial, SetRow
<1>2. [lifecycle |-> "running", state |-> InitialState] \in Rows
  BY DefinitionAssumption DEF Rows, Lifecycles
<1>3. /\ row' \in [Runs -> Rows]
      /\ \A s \in Runs \ {r} : row'[s] = row[s]
      /\ row'[r].lifecycle # NotStarted
      /\ row'[r].state = row[r].state
  BY <1>1, <1>2 DEF NotStarted
<1>4. log' \in [Runs -> Seq(EventTypes)]
  <2>1. "workflow.started" \in EventTypes /\ log \in [Runs -> Seq(EventTypes)]
    BY DEF EventTypes, IInv, TypeOK
  <2> QED
    BY <2>1, EmitType
<1> QED
  BY <1>1, <1>3, <1>4, DispatchKeeps DEF IInv, TypeOK

LEMMA RequestKeeps ==
  ASSUME IInv, NEW w \in Workers, NEW r \in Runs,
         NEW target \in {"pausing", "resuming", "cancelling"},
         Request(w, r, target),
         row[r].lifecycle \in Lifecycles,
         \A seen \in Lifecycles : MayDrift(seen, row[r].lifecycle) => MayDrift(seen, target)
  PROVE  IInv'
<1> USE DEF Request, Serving, bootVars
<1>1. /\ row \in [Runs -> Rows]
      /\ row' = [row EXCEPT ![r].lifecycle = target]
  BY DEF IInv, TypeOK
<1>2. /\ row' \in [Runs -> Rows]
      /\ \A s \in Runs \ {r} : row'[s] = row[s]
      /\ row'[r].lifecycle = target
      /\ row'[r].state = row[r].state
  BY <1>1 DEF Rows, Lifecycles
<1>3. target # NotStarted
  BY DEF NotStarted
<1>4. log' \in [Runs -> Seq(EventTypes)]
  BY DEF IInv, TypeOK, Emit, OpeningEvent, EventTypes
<1>5. used' \in [controls : 0..MaxControls, aborts : 0..MaxAborts, crashes : 0..MaxCrashes]
  <2>1. /\ used \in [controls : 0..MaxControls, aborts : 0..MaxAborts, crashes : 0..MaxCrashes]
        /\ used.controls < MaxControls
        /\ used' = [used EXCEPT !.controls = @ + 1]
    BY DEF IInv, TypeOK
  <2>2. used.controls + 1 \in 0..MaxControls
    BY <2>1, Bounds
  <2> QED
    BY <2>1, <2>2
<1>6. /\ pc[w] = "idle" /\ Dispatch(w, r)
      /\ trail' = trail /\ phase' = phase
      /\ reconciling' \subseteq Workers /\ toRecover' \subseteq Runs
  BY DEF IInv, TypeOK
<1>7. \A seen \in Lifecycles :
        MayDrift(seen, row[r].lifecycle) => MayDrift(seen, row'[r].lifecycle)
  BY <1>2
<1> HIDE DEF Request, Serving, bootVars
<1> QED
  BY <1>2, <1>3, <1>4, <1>5, <1>6, <1>7, DispatchKeeps

LEMMA ReconcileKeeps ==
  ASSUME IInv, NEW w \in Workers, NEW r \in Runs, Reconcile(w, r)
  PROVE  IInv'
<1> USE DEF Reconcile, ShouldRecover
<1>1. /\ row \in [Runs -> Rows]
      /\ row' = [row EXCEPT ![r].lifecycle = "recovering"]
  BY DEF IInv, TypeOK
<1>2. /\ row' \in [Runs -> Rows]
      /\ \A s \in Runs \ {r} : row'[s] = row[s]
      /\ row'[r].lifecycle = "recovering"
      /\ row'[r].lifecycle # NotStarted
      /\ row'[r].state = row[r].state
  BY <1>1 DEF Rows, Lifecycles, NotStarted
<1>3. \A seen \in Lifecycles :
        MayDrift(seen, row[r].lifecycle) => MayDrift(seen, row'[r].lifecycle)
  BY <1>2 DEF MayDrift, Recoverable, Lifecycles
<1>4. log' \in [Runs -> Seq(EventTypes)]
  BY DEF IInv, TypeOK, EventTypes
<1>5. reconciling' \subseteq Workers /\ toRecover' \subseteq Runs
  BY DEF IInv, TypeOK
<1> QED
  BY <1>2, <1>3, <1>4, <1>5, DispatchKeeps DEF IInv, TypeOK

\* The actions that touch neither rows nor events: the loop's bookkeeping.
LEMMA LoopKeeps ==
  ASSUME IInv, NEW w \in Workers,
         \/ AcquireLock(w) \/ GiveUp(w) \/ BeginStep(w) \/ Release(w)
         \/ PassSafePoint(w) \/ StartOperation(w)
  PROVE  IInv'
<1> USE DEF IInv
<1>1. TransitionsChain'
  <2>1. row' = row /\ trail' = trail
    BY DEF AcquireLock, GiveUp, BeginStep, Release, PassSafePoint, StartOperation
  <2>2. TransitionsChain
    OBVIOUS
  <2> QED
    BY <2>1, <2>2, KeepChain
<1>2. CASE AcquireLock(w)
  <2> USE <1>2 DEF AcquireLock, bootVars
  <2>1. TypeOK'
    <3>1. /\ pc' \in [Workers -> WorkerStates]
          /\ lock' \in [Runs -> Workers \cup {NoWorker}]
          /\ \A v \in Workers : pc'[v] # "idle" => job[v] \in Runs
      BY DEF TypeOK, WorkerStates
    <3> QED
      BY <3>1 DEF TypeOK
  <2>2. OwnsLock'
    BY NullAssumption DEF OwnsLock, TypeOK, HoldsLock
  <2>3. WorksOnStarted' /\ StepsWithinBound' /\ HandlersReadRunning'
    BY DEF WorksOnStarted, StepsWithinBound, HandlersReadRunning, InStep, TypeOK
  <2>4. UnstartedAtInitial' /\ SnapshotDrift'
    BY DEF UnstartedAtInitial, SnapshotDrift, InStep, TypeOK
  <2> QED
    BY <1>1, <2>1, <2>2, <2>3, <2>4
<1>3. CASE GiveUp(w)
  BY <1>1, <1>3
     DEF GiveUp, bootVars, TypeOK, WorkerStates, InStep, HoldsLock, OwnsLock, WorksOnStarted,
         StepsWithinBound, HandlersReadRunning, UnstartedAtInitial, SnapshotDrift
<1>4. CASE BeginStep(w)
  BY <1>1, <1>4
     DEF BeginStep, bootVars, TypeOK, WorkerStates, InStep, HoldsLock, OwnsLock, WorksOnStarted,
         StepsWithinBound, HandlersReadRunning, UnstartedAtInitial, SnapshotDrift, MayDrift
<1>5. CASE Release(w)
  BY <1>1, <1>5
     DEF Release, bootVars, TypeOK, WorkerStates, InStep, HoldsLock, OwnsLock, WorksOnStarted,
         StepsWithinBound, HandlersReadRunning, UnstartedAtInitial, SnapshotDrift
<1>6. CASE PassSafePoint(w)
  BY <1>1, <1>6
     DEF PassSafePoint, InHandler, bootVars, TypeOK, WorkerStates, InStep, HoldsLock, OwnsLock,
         WorksOnStarted, StepsWithinBound, HandlersReadRunning, UnstartedAtInitial, SnapshotDrift
<1>7. CASE StartOperation(w)
  BY <1>1, <1>7
     DEF StartOperation, bootVars, TypeOK, WorkerStates, InStep, HoldsLock, OwnsLock,
         WorksOnStarted, StepsWithinBound, HandlersReadRunning, UnstartedAtInitial, SnapshotDrift
<1> QED
  BY <1>2, <1>3, <1>4, <1>5, <1>6, <1>7

\* The ways a worker leaves the loop or goes round without writing.
LEMMA QuietKeeps ==
  ASSUME IInv, NEW w \in Workers,
         ExhaustLoop(w) \/ QuietStep(w) \/ NoProgress(w) \/ AbortStep(w)
  PROVE  IInv'
<1> USE DEF ExhaustLoop, QuietStep, NoProgress, AbortStep
<1>1. /\ Leave(w)
      /\ pc[w] \in HoldsLock
      /\ UNCHANGED <<row, log, trail>>
  BY DEF HoldsLock, InStep, InHandler
<1>2. row[job[w]].lifecycle # NotStarted
  BY <1>1 DEF IInv, WorksOnStarted, HoldsLock
<1>3. used' \in [controls : 0..MaxControls, aborts : 0..MaxAborts, crashes : 0..MaxCrashes]
  <2>1. used \in [controls : 0..MaxControls, aborts : 0..MaxAborts, crashes : 0..MaxCrashes]
    BY DEF IInv, TypeOK
  <2>2. CASE AbortStep(w)
    <3>1. used.aborts + 1 \in 0..MaxAborts
      BY <2>1, <2>2, Bounds
    <3> QED
      BY <2>1, <2>2, <3>1
  <2>3. CASE ~AbortStep(w)
    BY <2>1, <2>3
  <2> QED
    BY <2>2, <2>3
<1>4. TransitionsChain'
  BY <1>1, KeepChain DEF IInv
<1>5. /\ row' \in [Runs -> Rows]
      /\ \A r \in Runs \ {job[w]} : row'[r] = row[r]
      /\ row'[job[w]].lifecycle # NotStarted
      /\ log' \in [Runs -> Seq(EventTypes)]
      /\ trail' \in [Runs -> Seq(States \X States)]
  BY <1>1, <1>2 DEF IInv, TypeOK
<1> QED
  BY <1>1, <1>3, <1>4, <1>5, StepEnd DEF IInv

\* A step that writes the row of its run and events of its log keeps the
\* invariant if it leaves the chain of transitions intact.
LEMMA WritingStepKeeps ==
  ASSUME IInv, NEW w \in Workers,
         pc[w] \in InStep,
         Leave(w) \/ Continue(w),
         NEW lifecycle \in Lifecycles, NEW state \in States,
         SetRow(job[w], lifecycle, state),
         log' \in [Runs -> Seq(EventTypes)],
         trail' \in [Runs -> Seq(States \X States)],
         used' = used,
         TransitionsChain'
  PROVE  IInv'
<1>1. [lifecycle |-> lifecycle, state |-> state] \in Rows
  BY DEF Rows
<1>2. job[w] \in Runs /\ pc[w] \in HoldsLock
  BY DEF IInv, TypeOK, InStep, HoldsLock
<1>3. /\ row' \in [Runs -> Rows]
      /\ \A r \in Runs \ {job[w]} : row'[r] = row[r]
      /\ row'[job[w]].lifecycle # NotStarted
  BY <1>1, <1>2 DEF IInv, TypeOK, SetRow, NotStarted, Lifecycles
<1>4. used' \in [controls : 0..MaxControls, aborts : 0..MaxAborts, crashes : 0..MaxCrashes]
  BY DEF IInv, TypeOK
<1> QED
  BY <1>2, <1>3, <1>4, StepEnd DEF IInv

\* A step that writes back the state its run is in.
LEMMA SameStateKeeps ==
  ASSUME IInv, NEW w \in Workers,
         pc[w] \in InStep,
         Leave(w) \/ Continue(w),
         NEW lifecycle \in Lifecycles,
         SetRow(job[w], lifecycle, row[job[w]].state),
         log' \in [Runs -> Seq(EventTypes)],
         UNCHANGED <<trail, used>>
  PROVE  IInv'
<1>1. job[w] \in Runs /\ row \in [Runs -> Rows]
  BY DEF IInv, TypeOK, InStep
<1>2. row[job[w]].state \in States
  BY <1>1 DEF Rows
<1>3. \A r \in Runs : row'[r].state = row[r].state
  BY <1>1 DEF SetRow
<1>4. TransitionsChain'
  BY <1>3, KeepChain DEF IInv
<1>5. trail' \in [Runs -> Seq(States \X States)]
  BY DEF IInv, TypeOK
<1> QED
  BY <1>2, <1>4, <1>5, WritingStepKeeps

LEMMA SettleKeeps ==
  ASSUME IInv, NEW w \in Workers, SettleStep(w) \/ Interrupt(w)
  PROVE  IInv'
<1>1. /\ pc[w] \in InStep
      /\ SettleRow(w, snap[w]) \/ SettleRow(w, row[job[w]])
  BY DEF SettleStep, Interrupt, InHandler, InStep
<1>2. snap[w].state = row[job[w]].state
  BY <1>1 DEF IInv, SnapshotDrift
<1>3. PICK lifecycle \in Settling :
        /\ SetRow(job[w], SettledLifecycle(lifecycle), row[job[w]].state)
        /\ Emit(job[w], SettledEvent(lifecycle))
        /\ Leave(w) \/ Continue(w)
        /\ UNCHANGED <<trail, used>>
  BY <1>1, <1>2 DEF SettleRow
<1>4. log' \in [Runs -> Seq(EventTypes)]
  <2>1. job[w] \in Runs /\ log \in [Runs -> Seq(EventTypes)]
    BY <1>1 DEF IInv, TypeOK, InStep
  <2> QED
    BY <2>1, <1>3, SettledTypes, EmitType
<1> QED
  BY <1>1, <1>3, <1>4, SettledTypes, SameStateKeeps

LEMMA FinishKeeps ==
  ASSUME IInv, NEW w \in Workers,
         SwallowInterruption(w) \/ Complete(w) \/ Fail(w)
  PROVE  IInv'
<1> USE DEF SwallowInterruption, Complete, Fail, CanFinish
<1>1. pc[w] \in InStep
  BY DEF InHandler
<1>2. snap[w].state = row[job[w]].state
  BY <1>1 DEF IInv, SnapshotDrift
<1>3. PICK lifecycle \in {"completed", "failed"} :
        /\ SetRow(job[w], lifecycle, row[job[w]].state)
        /\ Leave(w)
        /\ UNCHANGED <<trail, used>>
  BY <1>2
<1>4. log' \in [Runs -> Seq(EventTypes)]
  <2>1. job[w] \in Runs /\ log \in [Runs -> Seq(EventTypes)]
    BY <1>1 DEF IInv, TypeOK, InStep
  <2>2. CASE SwallowInterruption(w)
    <3>1. /\ SettledEvent(row[job[w]].lifecycle) \in EventTypes
          /\ "workflow.failed" \in EventTypes
      BY <2>2, SettledTypes DEF EventTypes
    <3>2. log' = [log EXCEPT ![job[w]] =
                    Append(Append(@, SettledEvent(row[job[w]].lifecycle)), "workflow.failed")]
      BY <2>2
    <3>3. Append(Append(log[job[w]], SettledEvent(row[job[w]].lifecycle)), "workflow.failed")
            \in Seq(EventTypes)
      BY <2>1, <3>1
    <3> HIDE DEF SwallowInterruption, Complete, Fail, CanFinish
    <3> QED
      BY <2>1, <3>2, <3>3
  <2>3. CASE Complete(w) \/ Fail(w)
    <3>1. PICK event \in {"workflow.completed", "workflow.failed"} : Emit(job[w], event)
      BY <2>3
    <3>2. event \in EventTypes
      BY DEF EventTypes
    <3> QED
      BY <2>1, <3>1, <3>2, EmitType
  <2> QED
    BY <2>2, <2>3
<1>5. {"completed", "failed"} \subseteq Lifecycles
  BY DEF Lifecycles
<1> QED
  BY <1>1, <1>3, <1>4, <1>5, SameStateKeeps

\* A transition starts from the state the row is in, because the step's
\* snapshot is stale in the lifecycle at most, and so extends the chain.
LEMMA TransitionKeeps ==
  ASSUME IInv, NEW w \in Workers, NEW to \in States, Transition(w, to)
  PROVE  IInv'
<1> DEFINE r == job[w]
<1>1. /\ pc[w] \in InStep
      /\ snap[w].lifecycle = "running"
      /\ Continue(w)
      /\ SetRow(r, snap[w].lifecycle, to)
      /\ Emit(r, "transition.completed")
      /\ trail' = [trail EXCEPT ![r] = Append(@, <<snap[w].state, to>>)]
      /\ used' = used
  BY DEF Transition, CanFinish, InHandler
<1>2. /\ r \in Runs
      /\ row \in [Runs -> Rows]
      /\ trail \in [Runs -> Seq(States \X States)]
  BY <1>1 DEF IInv, TypeOK, InStep
<1>3. /\ Chain(trail[r])
      /\ snap[w].state = EndOf(trail[r])
      /\ snap[w].state \in States
  BY <1>1, <1>2 DEF IInv, SnapshotDrift, TransitionsChain, Rows
<1>4. trail' \in [Runs -> Seq(States \X States)]
  BY <1>1, <1>2, <1>3
<1>5. TransitionsChain'
  <2>1. Chain(trail'[r]) /\ EndOf(trail'[r]) = to
    BY <1>1, <1>2, <1>3, AppendChain
  <2>2. row'[r].state = to
    BY <1>1, <1>2 DEF SetRow
  <2>3. \A s \in Runs \ {r} : row'[s] = row[s] /\ trail'[s] = trail[s]
    BY <1>1, <1>2 DEF SetRow
  <2>4. \A s \in Runs : Chain(trail[s]) /\ row[s].state = EndOf(trail[s])
    BY DEF IInv, TransitionsChain
  <2>5. \A s \in Runs : Chain(trail'[s]) /\ row'[s].state = EndOf(trail'[s])
    BY <2>1, <2>2, <2>3, <2>4
  <2> QED
    BY <2>5 DEF TransitionsChain, Chain, EndOf
<1>6. log' \in [Runs -> Seq(EventTypes)]
  <2>1. "transition.completed" \in EventTypes /\ log \in [Runs -> Seq(EventTypes)]
    BY DEF EventTypes, IInv, TypeOK
  <2> QED
    BY <1>1, <1>2, <2>1, EmitType
<1>7. snap[w].lifecycle \in Lifecycles
  BY <1>1 DEF Lifecycles
<1> QED
  BY <1>1, <1>4, <1>5, <1>6, <1>7, WritingStepKeeps

LEMMA StartupKeeps ==
  ASSUME IInv, FinishStartup \/ \E r \in Runs : SkipAtStartup(r)
  PROVE  IInv'
<1>1. /\ UNCHANGED <<row, log, trail, lock, pc, job, snap, iteration, reconciling, used>>
      /\ phase' \in {"starting", "serving"}
      /\ toRecover' \subseteq Runs
  BY DEF FinishStartup, SkipAtStartup, IInv, TypeOK
<1> QED
  BY <1>1
     DEF IInv, TypeOK, OwnsLock, WorksOnStarted, StepsWithinBound, HandlersReadRunning,
         UnstartedAtInitial, SnapshotDrift, MayDrift, TransitionsChain, Chain, EndOf

LEMMA CrashKeeps ==
  ASSUME IInv, Crash
  PROVE  IInv'
<1> USE DEF Crash
<1>1. used' \in [controls : 0..MaxControls, aborts : 0..MaxAborts, crashes : 0..MaxCrashes]
  <2>1. used \in [controls : 0..MaxControls, aborts : 0..MaxAborts, crashes : 0..MaxCrashes]
    BY DEF IInv, TypeOK
  <2>2. used.crashes + 1 \in 0..MaxCrashes
    BY <2>1, Bounds
  <2> QED
    BY <2>1, <2>2
<1>2. toRecover' \subseteq Runs
  OBVIOUS
<1>3. TypeOK'
  BY <1>1, <1>2, NoSnapType, Bounds DEF IInv, TypeOK, WorkerStates
<1>4. /\ OwnsLock' /\ WorksOnStarted' /\ StepsWithinBound'
      /\ HandlersReadRunning' /\ SnapshotDrift'
  BY DEF OwnsLock, WorksOnStarted, StepsWithinBound, HandlersReadRunning, SnapshotDrift,
         HoldsLock, InStep
<1>5. UnstartedAtInitial'
  BY DEF IInv, UnstartedAtInitial
<1>6. TransitionsChain'
  BY KeepChain DEF IInv
<1> QED
  BY <1>3, <1>4, <1>5, <1>6 DEF IInv

LEMMA NextKeeps == IInv /\ [Next]_vars => IInv'
<1> SUFFICES ASSUME IInv, [Next]_vars PROVE IInv'
  OBVIOUS
<1>1. ASSUME NEW w \in Workers, Requests(w) PROVE IInv'
  <2>1. PICK r \in Runs : \/ StartRun(w, r) \/ Reconcile(w, r) \/ RequestPause(w, r)
                          \/ RequestResume(w, r) \/ RequestCancel(w, r)
    BY <1>1 DEF Requests
  <2>2. CASE StartRun(w, r)
    BY <2>2, StartRunKeeps
  <2>3. CASE Reconcile(w, r)
    BY <2>3, ReconcileKeeps
  <2>4. CASE RequestPause(w, r)
    <3>1. row[r].lifecycle = "running" /\ Request(w, r, "pausing")
      BY <2>4 DEF RequestPause, CanPause
    <3>2. \A seen \in Lifecycles : MayDrift(seen, "running") => MayDrift(seen, "pausing")
      BY DEF MayDrift
    <3> QED
      BY <3>1, <3>2, RequestKeeps DEF Lifecycles
  <2>5. CASE RequestResume(w, r)
    <3>1. row[r].lifecycle = "paused" /\ Request(w, r, "resuming")
      BY <2>5 DEF RequestResume, CanResume
    <3>2. \A seen \in Lifecycles : MayDrift(seen, "paused") => MayDrift(seen, "resuming")
      BY DEF MayDrift
    <3> QED
      BY <3>1, <3>2, RequestKeeps DEF Lifecycles
  <2>6. CASE RequestCancel(w, r)
    <3>1. /\ row[r].lifecycle \in {"running", "pausing", "paused", "resuming"}
          /\ Request(w, r, "cancelling")
      BY <2>6 DEF RequestCancel, CanCancel
    <3>2. \A seen \in Lifecycles :
            MayDrift(seen, row[r].lifecycle) => MayDrift(seen, "cancelling")
      BY <3>1 DEF MayDrift
    <3> QED
      BY <3>1, <3>2, RequestKeeps DEF Lifecycles
  <2> QED
    BY <2>1, <2>2, <2>3, <2>4, <2>5, <2>6
<1>2. ASSUME NEW w \in Workers, Drive(w) PROVE IInv'
  BY <1>2, LoopKeeps, QuietKeeps, SettleKeeps, FinishKeeps, TransitionKeeps DEF Drive
<1>3. ASSUME NEW w \in Workers, AbortStep(w) PROVE IInv'
  BY <1>3, QuietKeeps
<1>4. CASE FinishStartup \/ \E r \in Runs : SkipAtStartup(r)
  BY <1>4, StartupKeeps
<1>5. CASE Crash
  BY <1>5, CrashKeeps
<1>6. CASE UNCHANGED vars
  BY <1>6, StutterKeeps
<1> QED
  BY <1>1, <1>2, <1>3, <1>4, <1>5, <1>6 DEF Next

-----------------------------------------------------------------------------
(* The theorems.                                                           *)

LEMMA Invariance == Spec => []IInv
<1>1. Init => IInv
  BY InitKeeps
<1>2. IInv /\ [Next]_vars => IInv'
  BY NextKeeps
<1> QED
  BY <1>1, <1>2, PTL DEF Spec

\* The variables keep their types: in particular no step writes a lifecycle
\* the database does not know, and no loop goes round more than MaxIterations.
THEOREM TypeCorrect == Spec => []TypeOK
<1>1. IInv => TypeOK
  BY DEF IInv
<1> QED
  BY <1>1, Invariance, PTL

\* At most one resumeRun loop is past lockProvider.acquire for a run, with any
\* number of requests, reconciliations and crashes (orchestrator.ts 110-169).
THEOREM OneRunner == Spec => []ExclusiveRunner
<1>1. IInv => ExclusiveRunner
  BY DEF IInv, OwnsLock, ExclusiveRunner
<1> QED
  BY <1>1, Invariance, PTL

\* Although a step reads its run's row without a row lock, what it read stays
\* right but for the lifecycle a request has set (transition-runner.ts 851-912).
THEOREM SnapshotsAgeByRequestsOnly == Spec => []SnapshotDrift
<1>1. IInv => SnapshotDrift
  BY DEF IInv
<1> QED
  BY <1>1, Invariance, PTL

\* The executed transitions are one path through the workflow from its initial
\* state to the current one (transition-runner.ts 1065-1138).
THEOREM TransitionsFormAPath == Spec => []TransitionsChain
<1>1. IInv => TransitionsChain
  BY DEF IInv
<1> QED
  BY <1>1, Invariance, PTL

-----------------------------------------------------------------------------
(* Ended runs.                                                             *)

\* A step that has read a lifecycle it acts on does not find the run ended:
\* only a step ends a run, and this is the run's only step.
LEMMA StepRunAlive ==
  ASSUME IInv, NEW w \in Workers, pc[w] \in InStep,
         snap[w].lifecycle \in Settling \cup {"running"}
  PROVE  row[job[w]].lifecycle \notin TerminalLifecycles
  BY DEF IInv, SnapshotDrift, MayDrift, Settling, TerminalLifecycles

\* What the steps that write have in common: they write to the run they work
\* on, which has not ended.
LEMMA WritersWriteTheirRun ==
  ASSUME IInv, NEW w \in Workers,
         \/ SettleStep(w) \/ Interrupt(w) \/ SwallowInterruption(w)
         \/ Complete(w) \/ Fail(w) \/ \E to \in States : Transition(w, to)
  PROVE  /\ row[job[w]].lifecycle \notin TerminalLifecycles
         /\ \A r \in Runs \ {job[w]} : row'[r] = row[r] /\ log'[r] = log[r]
<1>1. /\ pc[w] \in InStep
      /\ snap[w].lifecycle \in Settling \cup {"running"}
  BY DEF SettleStep, SettleRow, Interrupt, SwallowInterruption, Complete, Fail, Transition,
         CanFinish, InHandler, InStep
<1>2. row \in [Runs -> Rows] /\ log \in [Runs -> Seq(EventTypes)]
  BY DEF IInv, TypeOK
<1>3. \A r \in Runs \ {job[w]} : row'[r] = row[r] /\ log'[r] = log[r]
  <2>1. CASE SettleStep(w) \/ Interrupt(w)
    BY <1>2, <2>1 DEF SettleStep, Interrupt, SettleRow, SetRow, Emit
  <2>2. CASE SwallowInterruption(w)
    BY <1>2, <2>2 DEF SwallowInterruption, SetRow
  <2>3. CASE Complete(w) \/ Fail(w)
    BY <1>2, <2>3 DEF Complete, Fail, SetRow, Emit
  <2>4. CASE \E to \in States : Transition(w, to)
    BY <1>2, <2>4 DEF Transition, SetRow, Emit
  <2> QED
    BY <2>1, <2>2, <2>3, <2>4
<1> QED
  BY <1>1, <1>3, StepRunAlive

LEMMA EndedRunUntouched ==
  ASSUME IInv, [Next]_vars, NEW r \in Runs, row[r].lifecycle \in TerminalLifecycles
  PROVE  row'[r] = row[r] /\ log'[r] = log[r]
<1>1. row \in [Runs -> Rows] /\ log \in [Runs -> Seq(EventTypes)]
  BY DEF IInv, TypeOK
<1>2. ASSUME NEW w \in Workers, Requests(w)
      PROVE  row'[r] = row[r] /\ log'[r] = log[r]
  <2>1. PICK s \in Runs : \/ StartRun(w, s) \/ Reconcile(w, s) \/ RequestPause(w, s)
                          \/ RequestResume(w, s) \/ RequestCancel(w, s)
    BY <1>2 DEF Requests
  <2>2. s # r
    BY <2>1 DEF StartRun, Reconcile, ShouldRecover, Recoverable, RequestPause, CanPause,
                RequestResume, CanResume, RequestCancel, CanCancel, NotStarted,
                TerminalLifecycles
  <2>3. CASE StartRun(w, s)
    BY <1>1, <2>2, <2>3 DEF StartRun, SetRow, Emit
  <2>4. CASE Reconcile(w, s)
    BY <1>1, <2>2, <2>4 DEF Reconcile
  <2>5. CASE RequestPause(w, s) \/ RequestResume(w, s) \/ RequestCancel(w, s)
    BY <1>1, <2>2, <2>5 DEF RequestPause, RequestResume, RequestCancel, Request, Emit
  <2> QED
    BY <2>1, <2>3, <2>4, <2>5
<1>3. ASSUME NEW w \in Workers, Drive(w)
      PROVE  row'[r] = row[r] /\ log'[r] = log[r]
  <2>1. CASE \/ SettleStep(w) \/ Interrupt(w) \/ SwallowInterruption(w)
             \/ Complete(w) \/ Fail(w) \/ \E to \in States : Transition(w, to)
    BY <2>1, WritersWriteTheirRun
  <2>2. CASE \/ AcquireLock(w) \/ GiveUp(w) \/ BeginStep(w) \/ ExhaustLoop(w) \/ Release(w)
             \/ QuietStep(w) \/ PassSafePoint(w) \/ StartOperation(w) \/ NoProgress(w)
    BY <2>2 DEF AcquireLock, GiveUp, BeginStep, ExhaustLoop, Release, QuietStep, PassSafePoint,
                StartOperation, NoProgress
  <2> QED
    BY <1>3, <2>1, <2>2 DEF Drive
<1>4. CASE \/ \E w \in Workers : AbortStep(w)
           \/ \E s \in Runs : SkipAtStartup(s)
           \/ FinishStartup \/ Crash \/ UNCHANGED vars
  BY <1>4 DEF AbortStep, SkipAtStartup, FinishStartup, Crash, vars
<1> QED
  BY <1>2, <1>3, <1>4 DEF Next

\* Nothing changes the row or the events of a run that has ended: neither a
\* request, nor a step that began before the run ended, nor reconciliation
\* (control-routes.ts 118-270, reconcile-service.ts 44-158).
THEOREM EndedRunsStayEnded == Spec => TerminalIsFinal
<1>1. IInv /\ [Next]_vars =>
        [\A r \in Runs : row[r].lifecycle \in TerminalLifecycles =>
           row'[r] = row[r] /\ log'[r] = log[r]]_vars
  BY EndedRunUntouched
<1> QED
  BY <1>1, Invariance, PTL DEF Spec, TerminalIsFinal

-----------------------------------------------------------------------------
(* The run lock.                                                           *)

LEMMA LockStep ==
  ASSUME IInv, [Next]_vars
  PROVE  [LockService!Next]_lock
<1>1. lock \in [Runs -> Workers \cup {NoWorker}]
  BY DEF IInv, TypeOK
<1>2. ASSUME NEW w \in Workers, AcquireLock(w) PROVE LockService!Next
  <2>1. job[w] \in Runs
    BY <1>2 DEF IInv, TypeOK, AcquireLock
  <2>2. LockService!Grant(job[w], w)
    BY <1>2 DEF AcquireLock, LockService!Grant
  <2> QED
    BY <2>1, <2>2 DEF LockService!Next
<1>3. ASSUME NEW w \in Workers, Release(w) PROVE LockService!Next
  <2>1. lock' = [r \in Runs |-> IF r \in {job[w]} THEN NoWorker ELSE lock[r]]
    BY <1>1, <1>3 DEF Release
  <2>2. {job[w]} \in SUBSET Runs
    BY <1>3 DEF IInv, TypeOK, Release
  <2> QED
    BY <2>1, <2>2 DEF LockService!Next, LockService!GiveBack
<1>4. ASSUME Crash PROVE LockService!Next
  <2>1. lock' = [r \in Runs |-> IF r \in Runs THEN NoWorker ELSE lock[r]]
    BY <1>4 DEF Crash
  <2> QED
    BY <2>1 DEF LockService!Next, LockService!GiveBack
<1>5. ASSUME NEW w \in Workers, Requests(w) PROVE lock' = lock
  BY <1>5 DEF Requests, StartRun, RequestPause, RequestResume, RequestCancel, Request, Reconcile,
              Dispatch
<1>6. ASSUME NEW w \in Workers, Drive(w), ~AcquireLock(w), ~Release(w) PROVE lock' = lock
  BY <1>6 DEF Drive, GiveUp, BeginStep, ExhaustLoop, SettleStep, SettleRow, QuietStep,
              PassSafePoint, StartOperation, Interrupt, SwallowInterruption, Complete, Fail,
              NoProgress, Transition, Leave, Continue
<1>7. ASSUME NEW w \in Workers, AbortStep(w) PROVE lock' = lock
  BY <1>7 DEF AbortStep, Leave
<1>8. CASE FinishStartup \/ (\E r \in Runs : SkipAtStartup(r)) \/ UNCHANGED vars
  BY <1>8 DEF FinishStartup, SkipAtStartup, vars
<1> QED
  BY <1>2, <1>3, <1>4, <1>5, <1>6, <1>7, <1>8 DEF Next

\* The orchestrator's use of lockProvider.acquire and release, crashes
\* included, is a use of the abstract run lock (orchestrator.ts 110-169).
THEOREM OrchestratorUsesRunLock == Spec => UsesRunLock
<1>1. Init => LockService!Init
  BY DEF Init, LockService!Init
<1>2. IInv /\ [Next]_vars => [LockService!Next]_lock
  BY LockStep
<1> QED
  BY <1>1, <1>2, Invariance, PTL DEF Spec, UsesRunLock, LockService!Spec

=============================================================================
