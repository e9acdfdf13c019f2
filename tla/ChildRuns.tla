------------------------------ MODULE ChildRuns ------------------------------
(***************************************************************************)
(* A chain of runs: each launches the next one as its child and completes  *)
(* or fails with it; the last one is a server.human-feedback.v1 run that   *)
(* ends when a human responds.  resumeRun(d) steps run d under d's run     *)
(* lock, and the children of d inside the same transaction, without their  *)
(* locks.  Control requests on any run, responses, and resumeRun calls on  *)
(* different runs of the chain interleave at every read, at every wait for *)
(* a row lock and at every commit.                                         *)
(*                                                                         *)
(* A transaction reads committed rows and its own writes, and keeps the    *)
(* lock of every row it has written or appended events to until it ends.   *)
(* A workflow has one state here, whose handler launches the child under a *)
(* key of its own; RunExecution has the transitions and their events.      *)
(***************************************************************************)
EXTENDS Naturals, Lifecycle

CONSTANTS
  Depth,         \* runs of the chain; the last one is the feedback run
  Starters,      \* clients that start the root run, with one idempotency key
  MaxControls    \* bound: control requests

ASSUME ChainAssumption == Depth \in Nat /\ Depth >= 2 /\ MaxControls \in Nat

Runs == 1..Depth
Feedback == Depth

VARIABLES
  row,        \* committed lifecycle of each run
  request,    \* status of the human-feedback projection
  accepted,   \* history: responses accepted
  driver,     \* the resumeRun call inside each run's lock
  wanted,     \* runs with a resumeRun call that waits for the lock
  at,         \* the run whose step a driver is executing, 0 if none
  phase,      \* how far that step is
  snap,       \* what a driver's step has read, or been returned, of each run
  writes,     \* its uncommitted lifecycles, NotStarted if none
  held,       \* the row locks of its transaction
  cancel,     \* a cancel request's transaction: its run and what it read
  start,      \* start requests of the root
  key,        \* their idempotency record
  controls,   \* control requests so far
  lost        \* history: a resumeRun call has ended without driving its run

stepVars == <<at, phase, snap, writes, held>>
startVars == <<start, key>>
vars == <<row, request, accepted, driver, wanted, stepVars, cancel, startVars, controls, lost>>

Values == Lifecycles \cup {NotStarted}
Nothing == [r \in Runs |-> NotStarted]
NoCancel == [run |-> 0, seen |-> Nothing]

TypeOK ==
  /\ row \in [Runs -> Values]
  /\ request \in {"none", "awaiting_response", "responded", "cancelled"}
  /\ accepted \in Nat
  /\ driver \in [Runs -> {"idle", "ready", "step"}]
  /\ wanted \subseteq Runs
  /\ at \in [Runs -> 0..Depth]
  /\ \A d \in Runs : driver[d] = "step" <=> at[d] >= d
  /\ phase \in [Runs -> {"entered", "checked", "parking", "ended"}]
  /\ snap \in [Runs -> [Runs -> Values]]
  /\ writes \in [Runs -> [Runs -> Values]]
  /\ held \in [Runs -> SUBSET Runs]
  /\ cancel \in [run : 0..Depth, seen : [Runs -> Values]]
  /\ start \in [Starters -> {"idle", "reserved", "created", "existing", "unknown", "failed"}]
  /\ key \in {"free", "reserved", "committed"}
  /\ controls \in 0..MaxControls
  /\ lost \in BOOLEAN

Init ==
  /\ row = Nothing
  /\ request = "none"
  /\ accepted = 0
  /\ driver = [d \in Runs |-> "idle"]
  /\ wanted = {}
  /\ at = [d \in Runs |-> 0]
  /\ phase = [d \in Runs |-> "entered"]
  /\ snap = [d \in Runs |-> Nothing]
  /\ writes = [d \in Runs |-> Nothing]
  /\ held = [d \in Runs |-> {}]
  /\ cancel = NoCancel
  /\ start = [s \in Starters |-> "idle"]
  /\ key = "free"
  /\ controls = 0
  /\ lost = FALSE

-----------------------------------------------------------------------------
(* startRun, with an idempotency key.                                      *)

ReserveKeyAtOnce(s) ==
  /\ start[s] = "idle"
  /\ key = "free"
  /\ start' = [start EXCEPT ![s] = "reserved"]
  /\ key' = "committed"
  /\ UNCHANGED <<row, request, accepted, driver, wanted, stepVars, cancel, controls, lost>>

\* INSERT ... ON CONFLICT DO NOTHING: another insert of the key waits for this
\* transaction to end.
ReserveKey(s) ==
  /\ start[s] = "idle"
  /\ key = "free"
  /\ start' = [start EXCEPT ![s] = "reserved"]
  /\ key' = "reserved"
  /\ UNCHANGED <<row, request, accepted, driver, wanted, stepVars, cancel, controls, lost>>

\* The run is created and committed with its key; resumeRun is dispatched.
CreateRun(s) ==
  /\ start[s] = "reserved"
  /\ start' = [start EXCEPT ![s] = "created"]
  /\ key' = "committed"
  /\ row' = [row EXCEPT ![1] = "running"]
  /\ wanted' = wanted \cup {1}
  /\ UNCHANGED <<request, accepted, driver, stepVars, cancel, controls, lost>>

\* The transaction fails and rolls back with the key.
StartFails(s) ==
  /\ start[s] = "reserved"
  /\ start' = [start EXCEPT ![s] = "failed"]
  /\ key' = "free"
  /\ UNCHANGED <<row, request, accepted, driver, wanted, stepVars, cancel, controls, lost>>

\* The key is taken: the run it names is returned, or is unknown.
FindExisting(s) ==
  /\ start[s] = "idle"
  /\ key = "committed"
  /\ start' = [start EXCEPT ![s] = IF row[1] = NotStarted THEN "unknown" ELSE "existing"]
  /\ UNCHANGED <<row, request, accepted, driver, wanted, stepVars, cancel, key, controls, lost>>

-----------------------------------------------------------------------------
(* Row locks, and what a transaction sees.                                 *)

\* No transaction but d's has the row lock of r; 0 stands for a request's own.
RowFree(d, r) ==
  /\ \A e \in Runs \ {d} : r \notin held[e]
  /\ cancel.run # r

View(d, r) == IF writes[d][r] # NotStarted THEN writes[d][r] ELSE row[r]

Wrote(d, r, lifecycle) == [writes[d] EXCEPT ![r] = lifecycle]

\* The request's row in the projection, when a step commits: launching the
\* feedback run records it, cancelling the run cancels it while it is awaiting.
RequestAfter(written) ==
  IF written[Feedback] = "cancelled" /\ request \in {"none", "awaiting_response"}
  THEN "cancelled"
  ELSE IF written[Feedback] # NotStarted /\ request = "none" THEN "awaiting_response"
  ELSE request

-----------------------------------------------------------------------------
(* The resumeRun loop.                                                     *)

Acquire(d) ==
  /\ d \in wanted
  /\ driver[d] = "idle"
  /\ driver' = [driver EXCEPT ![d] = "ready"]
  /\ wanted' = wanted \ {d}
  /\ UNCHANGED <<row, request, accepted, stepVars, cancel, startVars, controls, lost>>

GiveUp(d) ==
  /\ d \in wanted
  /\ driver[d] # "idle"
  /\ wanted' = wanted \ {d}
  /\ lost' = TRUE
  /\ UNCHANGED <<row, request, accepted, driver, stepVars, cancel, startVars, controls>>

BeginStep(d) ==
  /\ driver[d] = "ready"
  /\ driver' = [driver EXCEPT ![d] = "step"]
  /\ at' = [at EXCEPT ![d] = d]
  /\ phase' = [phase EXCEPT ![d] = "entered"]
  /\ snap' = [snap EXCEPT ![d][d] = row[d]]
  /\ UNCHANGED <<row, request, accepted, wanted, writes, held, cancel, startVars, controls, lost>>

EndTransactionInPlace(d, next) ==
  /\ driver' = [driver EXCEPT ![d] = next]
  /\ phase' = [phase EXCEPT ![d] = "entered"]
  /\ snap' = [snap EXCEPT ![d] = Nothing]
  /\ writes' = [writes EXCEPT ![d] = Nothing]
  /\ held' = [held EXCEPT ![d] = {}]
  /\ UNCHANGED at

EndTransaction(d, next) ==
  /\ driver' = [driver EXCEPT ![d] = next]
  /\ at' = [at EXCEPT ![d] = 0]
  /\ phase' = [phase EXCEPT ![d] = "entered"]
  /\ snap' = [snap EXCEPT ![d] = Nothing]
  /\ writes' = [writes EXCEPT ![d] = Nothing]
  /\ held' = [held EXCEPT ![d] = {}]

\* A step returns.  That of d itself commits, and the loop goes on or leaves;
\* a child's result goes back to awaitChild, which steps the child again on
\* the summary it was returned, or has the outcome, or tells the parent to park.
Return(d, written, lifecycle, progressed) ==
  LET r == at[d]
      terminal == lifecycle \in TerminalLifecycles
  IN IF r = d
     THEN /\ row' = [q \in Runs |-> IF written[q] # NotStarted THEN written[q] ELSE row[q]]
          /\ request' = RequestAfter(written)
          /\ EndTransaction(d, IF progressed /\ ~terminal THEN "ready" ELSE "idle")
     ELSE /\ writes' = [writes EXCEPT ![d] = written]
          /\ held' = [held EXCEPT ![d] = @ \cup {q \in Runs : written[q] # NotStarted}]
          /\ snap' = [snap EXCEPT ![d][r] = lifecycle]
          /\ at' = [at EXCEPT ![d] = IF progressed /\ ~terminal THEN r ELSE r - 1]
          /\ phase' = [phase EXCEPT ![d] = CASE terminal -> "ended"
                                             [] progressed /\ ~terminal -> "entered"
                                             [] OTHER -> "parking"]
          /\ UNCHANGED <<row, request, driver>>

stepUnchanged == <<accepted, wanted, cancel, startVars, controls, lost>>

Stepping(d, where) == at[d] # 0 /\ phase[d] = where

-----------------------------------------------------------------------------
(* runTransitionStep, launchChild and awaitChild.                          *)

\* A safe point that finds lifecycle: it finalizes a transitional one under
\* the row's lock, and ends the step; a paused or ended run just ends it.
SafePointEnds(d, lifecycle) ==
  \/ /\ lifecycle \in Settling
     /\ RowFree(d, at[d])
     /\ Return(d, Wrote(d, at[d], SettledLifecycle(lifecycle)), SettledLifecycle(lifecycle), TRUE)
  \/ /\ lifecycle \in TerminalLifecycles \cup {"paused"}
     /\ Return(d, writes[d], lifecycle, FALSE)

Read(d) == snap[d][at[d]]

\* The safe point at the start of a step, on the summary it was given.
SettleOnEntry(d) ==
  /\ Stepping(d, "entered")
  /\ SafePointEnds(d, Read(d))
  /\ UNCHANGED stepUnchanged

\* The handler of a feedback run does nothing.
AwaitResponse(d) ==
  /\ Stepping(d, "entered")
  /\ Read(d) = "running"
  /\ at[d] = Feedback
  /\ Return(d, writes[d], "running", FALSE)
  /\ UNCHANGED stepUnchanged

\* ctx.launchChild first passes a safe point, on the row as it is now.
PassSafePoint(d) ==
  /\ Stepping(d, "entered")
  /\ Read(d) = "running"
  /\ at[d] # Feedback
  /\ LET latest == View(d, at[d]) IN
       \/ SafePointEnds(d, latest)
       \/ /\ latest = "running"
          /\ phase' = [phase EXCEPT ![d] = "checked"]
          /\ UNCHANGED <<row, request, driver, at, snap, writes, held>>
  /\ UNCHANGED stepUnchanged

\* The launch request is malformed or names an unknown workflow type and is refused
\* before anything is written for it (the README has the one refusal that comes
\* later): the handler that called launchChild fails.
RejectLaunch(d) ==
  /\ Stepping(d, "checked")
  /\ View(d, at[d] + 1) = NotStarted
  /\ RowFree(d, at[d])
  /\ Return(d, Wrote(d, at[d], "failed"), "failed", TRUE)
  /\ UNCHANGED stepUnchanged

\* The child is new: its row, its key and child.started on the parent.
LaunchChild(d) ==
  LET r == at[d]
      child == r + 1
  IN /\ Stepping(d, "checked")
     /\ View(d, child) = NotStarted
     /\ \A e \in Runs : writes[e][child] = NotStarted
     /\ RowFree(d, r)
     /\ writes' = [writes EXCEPT ![d][child] = "running"]
     /\ held' = [held EXCEPT ![d] = @ \cup {r, child}]
     /\ at' = [at EXCEPT ![d] = child]
     /\ phase' = [phase EXCEPT ![d] = "entered"]
     /\ snap' = [snap EXCEPT ![d][child] = "running"]
     /\ UNCHANGED <<row, request, driver>>
     /\ UNCHANGED stepUnchanged

\* The key names a child already: awaitChild reads it as it is now.
ReenterChild(d) ==
  LET r == at[d]
      child == r + 1
      found == View(d, child)
      ended == found \in TerminalLifecycles
  IN /\ Stepping(d, "checked")
     /\ found # NotStarted
     /\ at' = [at EXCEPT ![d] = IF ended THEN r ELSE child]
     /\ phase' = [phase EXCEPT ![d] = IF ended THEN "ended" ELSE "entered"]
     /\ snap' = [snap EXCEPT ![d][child] = found]
     /\ UNCHANGED <<row, request, driver, writes, held>>
     /\ UNCHANGED stepUnchanged

OutcomeAnyEnd(child) == IF child \in TerminalLifecycles THEN "completed" ELSE "failed"

\* What a handler makes of the end of its child: it completes with its output,
\* and launchChild throws when the child failed or was cancelled.
Outcome(child) == IF child = "completed" THEN "completed" ELSE "failed"

\* child.completed or child.failed on the parent, the safe point of the finally
\* block, and the handler's own end.
FinishWithChild(d) ==
  LET r == at[d]
      latest == View(d, r)
      end == Outcome(snap[d][r + 1])
  IN /\ Stepping(d, "ended")
     /\ RowFree(d, r)
     /\ \/ SafePointEnds(d, latest)
        \/ latest = "running" /\ Return(d, Wrote(d, r, end), end, TRUE)
     /\ UNCHANGED stepUnchanged

\* The child waits for a response: the parent parks, unless the safe point of
\* the finally block finds something to finalize.
Park(d) ==
  LET latest == View(d, at[d]) IN
  /\ Stepping(d, "parking")
  /\ \/ SafePointEnds(d, latest)
     \/ latest = "running" /\ Return(d, writes[d], "running", FALSE)
  /\ UNCHANGED stepUnchanged

\* A transaction that waits for a row lock may be the victim of a deadlock.
AbortStep(d) ==
  /\ at[d] # 0
  /\ ~RowFree(d, at[d])
  /\ EndTransaction(d, "idle")
  /\ lost' = TRUE
  /\ UNCHANGED <<row, request, accepted, wanted, cancel, startVars, controls>>

-----------------------------------------------------------------------------
(* Control requests and responses.                                         *)

ControlUnchanged == <<request, accepted, driver, stepVars, startVars, lost>>

Request(r, lifecycle) ==
  /\ controls < MaxControls
  /\ RowFree(0, r)
  /\ row' = [row EXCEPT ![r] = lifecycle]
  /\ wanted' = wanted \cup {r}
  /\ controls' = controls + 1
  /\ UNCHANGED cancel
  /\ UNCHANGED ControlUnchanged

RequestPause(r)  == CanPause(row[r])  /\ Request(r, "pausing")
RequestResume(r) == CanResume(row[r]) /\ Request(r, "resuming")

\* The run is locked, and its descendants are read without a lock.
BeginCancel(r) ==
  /\ controls < MaxControls
  /\ cancel.run = 0
  /\ CanCancel(row[r])
  /\ RowFree(0, r)
  /\ cancel' = [run |-> r, seen |-> [q \in Runs |-> IF q > r THEN row[q] ELSE NotStarted]]
  /\ controls' = controls + 1
  /\ UNCHANGED <<row, wanted>>
  /\ UNCHANGED ControlUnchanged

MarkedEvenEnded == {q \in Runs : cancel.seen[q] # NotStarted}

\* The descendants that were active, ACTIVE_FOR_CANCEL, when they were read.
Marked == {q \in Runs : cancel.seen[q] \in {"running", "pausing", "paused", "resuming"}}

\* Every marked descendant is updated, whatever it has become, once its row is
\* free; after the commit resumeRun is called for the root of the request.
CommitCancel ==
  /\ cancel.run # 0
  /\ \A q \in Marked : RowFree(0, q)
  /\ row' = [q \in Runs |-> IF q \in Marked \cup {cancel.run} THEN "cancelling" ELSE row[q]]
  /\ wanted' = wanted \cup {cancel.run}
  /\ cancel' = NoCancel
  /\ UNCHANGED controls
  /\ UNCHANGED ControlUnchanged

\* Deadlock victim.
AbortCancel ==
  /\ cancel.run # 0
  /\ \E q \in Marked : ~RowFree(0, q)
  /\ cancel' = NoCancel
  /\ UNCHANGED <<row, wanted, controls>>
  /\ UNCHANGED ControlUnchanged

RespondWakingItself ==
  /\ request = "awaiting_response"
  /\ row[Feedback] = "running"
  /\ RowFree(0, Feedback)
  /\ row' = [row EXCEPT ![Feedback] = "completed"]
  /\ request' = "responded"
  /\ accepted' = accepted + 1
  /\ wanted' = wanted \cup {Feedback}
  /\ UNCHANGED <<driver, stepVars, cancel, startVars, controls, lost>>

\* An acceptable response: projection and row are locked and checked, the run
\* completes, and after the commit resumeRun is called for its parent.
Respond ==
  /\ request = "awaiting_response"
  /\ row[Feedback] = "running"
  /\ RowFree(0, Feedback)
  /\ row' = [row EXCEPT ![Feedback] = "completed"]
  /\ request' = "responded"
  /\ accepted' = accepted + 1
  /\ wanted' = wanted \cup {Feedback - 1}
  /\ UNCHANGED <<driver, stepVars, cancel, startVars, controls, lost>>

Step(d) ==
  \/ SettleOnEntry(d) \/ AwaitResponse(d) \/ PassSafePoint(d) \/ RejectLaunch(d)
  \/ LaunchChild(d) \/ ReenterChild(d) \/ FinishWithChild(d) \/ Park(d) \/ AbortStep(d)

Start(s) == ReserveKey(s) \/ CreateRun(s) \/ StartFails(s) \/ FindExisting(s)

Drive(d) == Acquire(d) \/ BeginStep(d) \/ Step(d)

Next ==
  \/ \E s \in Starters : Start(s)
  \/ \E d \in Runs : Drive(d) \/ GiveUp(d) \/ RequestPause(d) \/ RequestResume(d) \/ BeginCancel(d)
  \/ CommitCancel \/ AbortCancel \/ Respond

Spec == Init /\ [][Next]_vars

Driving == (\E d \in Runs : Drive(d)) \/ CommitCancel \/ AbortCancel

\* The server does not stand still while a resumeRun call or the transaction of
\* a request can go on; nobody is bound to start, respond, pause, resume or cancel.
FairSpec == Spec /\ WF_vars(Driving)

-----------------------------------------------------------------------------
\* A request is answered at most once, and never once it has been cancelled;
\* and no run of the chain completes without that answer.
AnsweredOnce ==
  /\ accepted = IF request = "responded" THEN 1 ELSE 0
  /\ (\E r \in Runs : row[r] = "completed") => accepted = 1

\* Starts with one key end with one run: one of them creates it, and none is
\* pointed to a run that does not exist.
StartsAgree ==
  \A s \in Starters :
    /\ start[s] # "unknown"
    /\ start[s] = "existing" => \E t \in Starters \ {s} : start[t] = "created"
    /\ start[s] = "created" => \A t \in Starters \ {s} : start[t] # "created"

\* What a client was told, and whether the run it asked for is there.
answers == [s \in Starters |-> IF start[s] \in {"idle", "reserved"} THEN "none" ELSE start[s]]

KeyedStart ==
  INSTANCE StartOnce WITH Clients <- Starters, exists <- row[1] # NotStarted, answer <- answers

\* The transactions of startRun and their unique index make each request look
\* like one instant: a run is there from its first answer on.
StartsAtOnce == KeyedStart!Spec

\* The human-feedback projection and the chain agree: there is a request for
\* each feedback run, no request awaits an answer to a run that has ended, and
\* no run is there without the one that launched it.
ProjectionAgrees ==
  /\ request = "none" <=> row[Feedback] = NotStarted
  /\ request = "awaiting_response" => row[Feedback] \notin TerminalLifecycles
  /\ \A r \in Runs \ {1} : row[r] # NotStarted => row[r - 1] # NotStarted

\* An ended run changes only by a transaction that had read it, or had been
\* returned it, before it ended: a cancel request that marks it as a descendant,
\* or a step that has written it already, or writes its own run as it commits.
\* And a step writes no run that it has seen ended, but for its own writes.
EndedUnlessStale ==
  [][\A r \in Runs :
       /\ row[r] \in TerminalLifecycles /\ row'[r] # row[r] =>
            \/ CommitCancel /\ cancel.seen[r] \notin TerminalLifecycles
            \/ \E d \in Runs : /\ at[d] = d /\ at'[d] = 0
                               /\ \/ writes[d][r] # NotStarted
                                  \/ r = d /\ snap[d][d] \notin TerminalLifecycles
       /\ \A d \in Runs :
            writes[d][r] = NotStarted /\ writes'[d][r] # NotStarted =>
              snap[d][r] \notin TerminalLifecycles]_vars

\* The run that asked for the answer.
Parent == Feedback - 1

\* The row of the parent that asked says that it is paused or has ended, while a
\* step of a run above it has already written, on an older read, that it runs.
ParentOvertaken ==
  /\ accepted = 1
  /\ row[Parent] \in TerminalLifecycles \cup {"paused"}
  /\ \E d \in Runs : d < Parent /\ writes[d][Parent] = "running"

\* Once the human has answered, the parent that asked does not stay running: it
\* is driven to its end, unless it is paused or cancelled, a resumeRun call of
\* it was lost, the answered run was revived by a stale write, or the parent
\* was: its own call, woken by the answer, has then left a row that a step of a
\* run above it sets running afterwards.
AnswerWakesParent ==
  []~ParentOvertaken =>
    (accepted = 1 ~> row[Parent] # "running" \/ row[Feedback] # "completed" \/ lost)

-----------------------------------------------------------------------------
(* What makes the safety properties inductive.                             *)

\* Until the start of the root commits there is nothing to drive or to control.
NothingBeforeStart ==
  key # "committed" =>
    /\ row = Nothing
    /\ wanted = {}
    /\ driver = [d \in Runs |-> "idle"]
    /\ cancel = NoCancel

\* The key tells how far the one start that holds it is.
KeyTells ==
  /\ key = "free" => \A s \in Starters : start[s] \in {"idle", "failed"}
  /\ key = "reserved" =>
       \E s \in Starters :
         /\ start[s] = "reserved"
         /\ \A t \in Starters \ {s} : start[t] \in {"idle", "failed"}
  /\ key = "committed" =>
       /\ row[1] # NotStarted
       /\ \E s \in Starters :
            /\ start[s] = "created"
            /\ \A t \in Starters \ {s} : start[t] \in {"idle", "failed", "existing"}

\* A completion, committed or not, read or written, goes back to the answer.
CompletedIsAnswered ==
  /\ accepted = IF request = "responded" THEN 1 ELSE 0
  /\ \A d \in Runs, q \in Runs :
       "completed" \in {row[q], snap[d][q], writes[d][q]} => accepted = 1

\* A transaction writes only rows it has locked, and nobody else's: the run of
\* an open cancel request stays as the request found it.
LocksHold ==
  /\ \A d \in Runs, q \in Runs : writes[d][q] # NotStarted => q \in held[d]
  /\ cancel.run # 0 =>
       /\ CanCancel(row[cancel.run])
       /\ \A d \in Runs : cancel.run \notin held[d]

\* A step has read running of every run above the one it executes, and of that
\* one as well once it is past its safe point.
ReadsHold ==
  \A d \in Runs :
    /\ at[d] # 0 => d <= at[d]
    /\ \A q \in Runs : snap[d][q] # NotStarted => View(d, q) # NotStarted
    /\ \A q \in Runs : d <= q /\ q < at[d] => snap[d][q] = "running"
    /\ at[d] # 0 /\ phase[d] # "entered" => at[d] # Feedback /\ Read(d) = "running"

IInv ==
  /\ TypeOK
  /\ NothingBeforeStart
  /\ KeyTells
  /\ CompletedIsAnswered
  /\ LocksHold
  /\ ReadsHold

\* What an open step has written fits the projection as well: no end of the
\* feedback run but a cancelled one, and no run without its parent; and an open
\* cancel request has seen only runs that are there.
WritesProject ==
  /\ \A d \in Runs :
       /\ writes[d][Feedback] \notin {"completed", "failed"}
       /\ \A r \in Runs \ {1} : writes[d][r] # NotStarted => View(d, r - 1) # NotStarted
  /\ cancel.run # 0 => \A r \in Runs : cancel.seen[r] # NotStarted => row[r] # NotStarted

-----------------------------------------------------------------------------
(* After the answer.                                                       *)

\* No resumeRun call was lost, and nobody has overwritten the answered run or
\* is about to.
AnswerStands ==
  /\ accepted = 1
  /\ ~lost
  /\ row[Feedback] = "completed"
  /\ \A d \in Runs : writes[d][Feedback] = NotStarted

\* Then an answered parent that runs has a call that drives it, or will: the
\* only other way to leave it is to overtake its own call.
AnswerIsTakenUp ==
  []~ParentOvertaken =>
    [](AnswerStands /\ row[Parent] = "running" =>
         Parent \in wanted \/ driver[Parent] # "idle")

\* A step of the parent that began, or will read its child, after the answer.
FindsAnswer(d) ==
  /\ at[d] = Parent
  /\ \/ phase[d] = "entered" /\ Read(d) \notin TerminalLifecycles \cup {"paused"}
     \/ phase[d] = "checked"
     \/ phase[d] = "ended" /\ snap[d][Feedback] = "completed"

\* The parent may be left to itself: whoever sets it running will find the answer.
ParentRests ==
  /\ row[Parent] \in TerminalLifecycles \cup {"paused", "cancelling"}
  /\ \A d \in Runs : writes[d][Parent] = "running" => FindsAnswer(d)

HasACall ==
  \/ Parent \in wanted
  \/ driver[Parent] = "ready"
  \/ FindsAnswer(Parent)
  \/ ParentRests

AnswerHasACall == AnswerStands => HasACall

\* A step's uncommitted writes are of runs below its own, and none is left to a
\* safe point.
WritesBelow ==
  \A d \in Runs, q \in Runs :
    writes[d][q] # NotStarted => d < q /\ writes[d][q] \notin Settling

=============================================================================
