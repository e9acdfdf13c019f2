---------------------------- MODULE AdvisoryLock ----------------------------
(***************************************************************************)
(* PostgresAdvisoryLockProvider under the calls resumeRun makes, and the   *)
(* connection pool both of them draw from.                                 *)
(*                                                                         *)
(* The provider keeps two records of a held lock: its own leases map, and  *)
(* the session-level advisory lock in the database, which belongs to the   *)
(* client the caller checked out.  Code between two awaits is one action;  *)
(* a query is a step of its own in the database, and its answer reaches    *)
(* the caller later.                                                       *)
(*                                                                         *)
(* A call of resumeRun takes one client for the lock and keeps it, and one *)
(* more for each step's transaction.                                       *)
(***************************************************************************)
EXTENDS Naturals, Sequences, FiniteSets

CONSTANTS
  Runs,          \* the keys
  Callers,       \* concurrent calls of resumeRun, each with an ownerId
  Clients,       \* the connections of the pool (pg's default maximum is 10)
  NoRun, NoCaller, NoClient,
  MaxAttempts,   \* lockAcquireMaxAttempts (200 in the code)
  MaxCalls       \* bound: resumeRun calls in a behaviour

ASSUME NullAssumption ==
  NoRun \notin Runs /\ NoCaller \notin Callers /\ NoClient \notin Clients

ASSUME BoundAssumption == MaxAttempts \in Nat \ {0} /\ MaxCalls \in Nat

VARIABLES
  pc,        \* where each call stands
  job,       \* the run it was called for
  client,    \* the client that tries or holds the lock for it
  stepper,   \* the client of its current transaction
  attempts,  \* its failed attempts to acquire
  lease,     \* leases: the owner recorded for each run
  session,   \* the client whose session holds each run's advisory lock
  idle,      \* the pool's idle clients
  queue,     \* the callers waiting in pool.connect, in order
  calls      \* how many calls there have been

vars == <<pc, job, client, stepper, attempts, lease, session, idle, queue, calls>>

\* away: no call; asking: about to call acquire; connecting: acquire awaits a
\* client; trying: the lock query is under way; granted, denied: its answer is;
\* queued: holds the lock, awaits a client for a step; stepping: the step's
\* transaction; unlocking: the unlock query is under way; unlocked: its answer is.
CallStates ==
  { "away", "asking", "connecting", "trying", "granted", "denied",
    "queued", "stepping", "unlocking", "unlocked" }

\* acquire has returned true, and release has not been called.
Inside == {"queued", "stepping"}

\* The database has granted the lock to the call, and it has not given it up.
Granted == {"granted", "unlocking"} \cup Inside

TypeOK ==
  /\ pc \in [Callers -> CallStates]
  /\ job \in [Callers -> Runs \cup {NoRun}]
  /\ client \in [Callers -> Clients \cup {NoClient}]
  /\ stepper \in [Callers -> Clients \cup {NoClient}]
  /\ attempts \in [Callers -> 0..MaxAttempts]
  /\ lease \in [Runs -> Callers \cup {NoCaller}]
  /\ session \in [Runs -> Clients \cup {NoClient}]
  /\ idle \subseteq Clients
  /\ queue \in Seq(Callers)
  /\ calls \in 0..MaxCalls

Init ==
  /\ pc = [c \in Callers |-> "away"]
  /\ job = [c \in Callers |-> NoRun]
  /\ client = [c \in Callers |-> NoClient]
  /\ stepper = [c \in Callers |-> NoClient]
  /\ attempts = [c \in Callers |-> 0]
  /\ lease = [r \in Runs |-> NoCaller]
  /\ session = [r \in Runs |-> NoClient]
  /\ idle = Clients
  /\ queue = <<>>
  /\ calls = 0

-----------------------------------------------------------------------------

Goto(c, label) == pc' = [pc EXCEPT ![c] = label]

\* resumeRun returns or rejects.
Return(c) ==
  /\ Goto(c, "away")
  /\ job' = [job EXCEPT ![c] = NoRun]
  /\ client' = [client EXCEPT ![c] = NoClient]
  /\ attempts' = [attempts EXCEPT ![c] = 0]

AttemptFailedForever(c) ==
  /\ Goto(c, "asking")
  /\ client' = [client EXCEPT ![c] = NoClient]
  /\ attempts' = [attempts EXCEPT ![c] = @ + 1]
  /\ UNCHANGED job

\* acquire has returned false: another attempt after 10 ms, or none is left.
AttemptFailed(c) ==
  IF attempts[c] + 1 < MaxAttempts
  THEN /\ Goto(c, "asking")
       /\ client' = [client EXCEPT ![c] = NoClient]
       /\ attempts' = [attempts EXCEPT ![c] = @ + 1]
       /\ UNCHANGED job
  ELSE Return(c)

Call(c, r) ==
  /\ pc[c] = "away"
  /\ calls < MaxCalls
  /\ calls' = calls + 1
  /\ Goto(c, "asking")
  /\ job' = [job EXCEPT ![c] = r]
  /\ UNCHANGED <<client, stepper, attempts, lease, session, idle, queue>>

\* acquire: with a lease of another owner in the map, false at once.
Refused(c) ==
  /\ pc[c] = "asking"
  /\ lease[job[c]] # NoCaller
  /\ AttemptFailed(c)
  /\ UNCHANGED <<stepper, lease, session, idle, queue, calls>>

\* acquire: no lease in the map, so it asks the pool for a client.
AskForClient(c) ==
  /\ pc[c] = "asking"
  /\ lease[job[c]] = NoCaller
  /\ queue' = Append(queue, c)
  /\ Goto(c, "connecting")
  /\ UNCHANGED <<job, client, stepper, attempts, lease, session, idle, calls>>

\* The pool serves its waiting callers in order.
Connect(k) ==
  /\ queue # <<>>
  /\ k \in idle
  /\ LET c == Head(queue) IN
     IF pc[c] = "connecting"
     THEN /\ client' = [client EXCEPT ![c] = k]
          /\ Goto(c, "trying")
          /\ UNCHANGED stepper
     ELSE /\ stepper' = [stepper EXCEPT ![c] = k]
          /\ Goto(c, "stepping")
          /\ UNCHANGED client
  /\ idle' = idle \ {k}
  /\ queue' = Tail(queue)
  /\ UNCHANGED <<job, attempts, lease, session, calls>>

TryLockAlways(c) ==
  /\ pc[c] = "trying"
  /\ session' = [session EXCEPT ![job[c]] = client[c]]
  /\ Goto(c, "granted")
  /\ UNCHANGED <<job, client, stepper, attempts, lease, idle, queue, calls>>

\* pg_try_advisory_lock, in the database.
TryLock(c) ==
  /\ pc[c] = "trying"
  /\ IF session[job[c]] = NoClient
     THEN /\ session' = [session EXCEPT ![job[c]] = client[c]]
          /\ Goto(c, "granted")
     ELSE /\ Goto(c, "denied")
          /\ UNCHANGED session
  /\ UNCHANGED <<job, client, stepper, attempts, lease, idle, queue, calls>>

\* acquire returns true: the lease is recorded over whatever the map holds by
\* now, and the first step asks for its client.
RecordLease(c) ==
  /\ pc[c] = "granted"
  /\ lease' = [lease EXCEPT ![job[c]] = c]
  /\ queue' = Append(queue, c)
  /\ Goto(c, "queued")
  /\ UNCHANGED <<job, client, stepper, attempts, session, idle, calls>>

DeniedKeepingClient(c) ==
  /\ pc[c] = "denied"
  /\ AttemptFailed(c)
  /\ UNCHANGED <<stepper, lease, session, idle, queue, calls>>

\* acquire gives its client back and returns false.
Denied(c) ==
  /\ pc[c] = "denied"
  /\ idle' = idle \cup {client[c]}
  /\ AttemptFailed(c)
  /\ UNCHANGED <<stepper, lease, session, queue, calls>>

\* release, up to its query: only the owner the map names has the client.
\* Without a lease it returns at once, with another's it throws.
EnterRelease(c) ==
  IF lease[job[c]] = c
  THEN Goto(c, "unlocking") /\ UNCHANGED <<job, client, attempts>>
  ELSE Return(c)

EndTransaction(c) ==
  /\ pc[c] = "stepping"
  /\ idle' = idle \cup {stepper[c]}
  /\ stepper' = [stepper EXCEPT ![c] = NoClient]
  /\ UNCHANGED <<lease, session, calls>>

\* The step progressed and renew finds the lease: the loop goes round.
RenewAndContinue(c) ==
  /\ EndTransaction(c)
  /\ lease[job[c]] = c
  /\ queue' = Append(queue, c)
  /\ Goto(c, "queued")
  /\ UNCHANGED <<job, client, attempts>>

\* The loop ends: no progress, an ended run, an error, or a failed renew.
LeaveLoop(c) ==
  /\ EndTransaction(c)
  /\ EnterRelease(c)
  /\ UNCHANGED queue

UnlockAnotherKey(c) ==
  /\ pc[c] = "unlocking"
  /\ Goto(c, "unlocked")
  /\ UNCHANGED <<job, client, stepper, attempts, lease, session, idle, queue, calls>>

\* pg_advisory_unlock, in the database.
Unlock(c) ==
  /\ pc[c] = "unlocking"
  /\ session' = [session EXCEPT ![job[c]] = IF @ = client[c] THEN NoClient ELSE @]
  /\ Goto(c, "unlocked")
  /\ UNCHANGED <<job, client, stepper, attempts, lease, idle, queue, calls>>

DropLeaseNever(c) ==
  /\ pc[c] = "unlocked"
  /\ idle' = idle \cup {client[c]}
  /\ Return(c)
  /\ UNCHANGED <<stepper, lease, session, queue, calls>>

\* The finally block of release: the client goes back to the pool, and the
\* map's entry is deleted, whoever it names by now.
DropLease(c) ==
  /\ pc[c] = "unlocked"
  /\ idle' = idle \cup {client[c]}
  /\ lease' = [lease EXCEPT ![job[c]] = NoCaller]
  /\ Return(c)
  /\ UNCHANGED <<stepper, session, queue, calls>>

-----------------------------------------------------------------------------

\* What a call does by itself once it is made.
Proceed(c) ==
  \/ Refused(c) \/ AskForClient(c)
  \/ TryLock(c) \/ RecordLease(c) \/ Denied(c)
  \/ RenewAndContinue(c) \/ LeaveLoop(c)
  \/ Unlock(c) \/ DropLease(c)

Next ==
  \/ \E c \in Callers : Proceed(c) \/ \E r \in Runs : Call(c, r)
  \/ \E k \in Clients : Connect(k)

Spec == Init /\ [][Next]_vars

\* Queries are answered, the pool hands out clients, and a loop does not go
\* round for ever: a call can leave it after every step (in the code after 256).
FairSpec ==
  /\ Spec
  /\ \A c \in Callers : WF_vars(Proceed(c)) /\ SF_vars(LeaveLoop(c))
  /\ WF_vars(\E k \in Clients : Connect(k))

-----------------------------------------------------------------------------
(* Properties.                                                             *)

\* For a run, one call at most is inside its loop.
OneInside ==
  \A c, d \in Callers :
    pc[c] \in Inside /\ pc[d] \in Inside /\ job[c] = job[d] => c = d

\* A client has one user: the pool, a call's lock or a call's transaction; and
\* the pool never hands out a client whose session still holds a lock.
OneUserPerClient ==
  /\ \A c, d \in Callers :
       /\ client[c] = client[d] /\ client[c] # NoClient => c = d
       /\ stepper[c] = stepper[d] /\ stepper[c] # NoClient => c = d
       /\ client[c] # NoClient => client[c] # stepper[d]
  /\ \A c \in Callers : client[c] \notin idle /\ stepper[c] \notin idle
  /\ \A r \in Runs : session[r] \notin idle

\* The map never names a call that is over: its run could not be locked again.
LeaseHasCaller ==
  \A r \in Runs : lease[r] # NoCaller =>
    job[lease[r]] = r /\ pc[lease[r]] \in Inside \cup {"unlocking", "unlocked"}

\* The calls that hold the lock of r, as the database has granted it.
GrantedOn(r) == {c \in Callers : job[c] = r /\ pc[c] \in Granted}

holder ==
  [r \in Runs |-> IF GrantedOn(r) = {} THEN NoCaller
                  ELSE CHOOSE c \in GrantedOn(r) : TRUE]

\* The provider implements the lock the orchestrator relies on.
ProvidedLock == INSTANCE RunLock WITH Keys <- Runs, Owners <- Callers, Nobody <- NoCaller

ImplementsRunLock == ProvidedLock!Spec

LockedRuns == {r \in Runs : session[r] # NoClient}

\* Whoever waits for a client finds one at once while the pool has a client for
\* each call and one more for each locked run, its lock lost or not.
ClientForWaiter ==
  /\ queue # <<>>
  /\ Cardinality(Callers) + Cardinality(LockedRuns) <= Cardinality(Clients)
  => idle # {}

\* Every call of resumeRun returns.
CallsReturn == \A c \in Callers : pc[c] # "away" ~> pc[c] = "away"

-----------------------------------------------------------------------------
(* What makes the safety properties inductive.                             *)

\* What a call has at each point: a run, a client for the lock, one for a step.
CallHas ==
  \A c \in Callers :
    /\ pc[c] # "away" => job[c] \in Runs
    /\ client[c] # NoClient <=> pc[c] \notin {"away", "asking", "connecting"}
    /\ stepper[c] # NoClient <=> pc[c] = "stepping"

\* The callers in the queue wait for a client, and each is there once.
QueueOnce ==
  /\ \A i \in 1..Len(queue) : pc[queue[i]] \in {"connecting", "queued"}
  /\ \A i, j \in 1..Len(queue) : queue[i] = queue[j] => i = j

\* A call that was granted the lock uses the client whose session has it, and
\* a client in use has no other lock.
SessionOfCall ==
  /\ \A c \in Callers : pc[c] \in Granted => session[job[c]] = client[c]
  /\ \A r \in Runs, c \in Callers :
       /\ session[r] = client[c] /\ client[c] # NoClient => pc[c] \in Granted /\ job[c] = r
       /\ session[r] = stepper[c] => session[r] = NoClient

\* A client outside the pool is at work for a call, or its session holds a lock
\* that no call will give back.
ClientsAccounted ==
  \A k \in Clients \ idle :
    \/ \E c \in Callers : k \in {client[c], stepper[c]}
    \/ \E r \in Runs : session[r] = k

IInv ==
  /\ TypeOK
  /\ CallHas
  /\ QueueOnce
  /\ SessionOfCall
  /\ OneUserPerClient
  /\ LeaseHasCaller

-----------------------------------------------------------------------------
(* Statements of the documentation that the code does not keep.            *)

\* After a call has returned, the advisory lock it took has been given back.
ReleasedAfterReturn ==
  \A r \in Runs : session[r] # NoClient =>
    \E c \in Callers : pc[c] \in Granted /\ job[c] = r /\ client[c] = session[r]

-----------------------------------------------------------------------------
(* When it does keep it.                                                   *)

\* No loop runs on a run while an earlier call is between its unlock query and
\* the deletion of the run's lease.
ReleaseFinishesFirst ==
  \A c, d \in Callers : pc[c] \in Inside /\ pc[d] = "unlocked" => job[c] # job[d]

\* That overlap is all it takes away: without it every lock is given back.
LeaksByOverlapOnly == []ReleaseFinishesFirst => []ReleasedAfterReturn

\* Inside its loop a call's lease is in the map, and its lock is given back.
LocksKept ==
  /\ \A c \in Callers : pc[c] \in Inside => lease[job[c]] = c
  /\ ReleasedAfterReturn

\* And with two clients for each call nobody ever waits for another call.
NobodyWaits ==
  []ReleaseFinishesFirst /\ 2 * Cardinality(Callers) <= Cardinality(Clients) =>
    [](queue # <<>> => idle # {})

=============================================================================
