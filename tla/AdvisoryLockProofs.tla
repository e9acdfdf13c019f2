------------------------- MODULE AdvisoryLockProofs -------------------------
(***************************************************************************)
(* Proofs about AdvisoryLock, for every number of runs, callers and        *)
(* clients, and every bound.                                               *)
(*                                                                         *)
(* The argument is about the database sessions, not about the leases map:  *)
(* a call that was granted a lock keeps the client whose session has it,   *)
(* and no two users ever share a client.  Each Keeps lemma takes one       *)
(* action and shows the conjuncts of IInv one by one.                      *)
(***************************************************************************)
EXTENDS AdvisoryLock, FiniteSetTheorems, TLAPS

-----------------------------------------------------------------------------
(* Facts the actions have in common.                                       *)

\* What a failed attempt does to its call: it keeps its run to ask again, or
\* is over; either way it has no client.
LEMMA AttemptEnds ==
  ASSUME TypeOK, NEW c \in Callers, AttemptFailed(c)
  PROVE  \E label \in {"asking", "away"}, run \in {job[c], NoRun}, n \in 0..MaxAttempts :
           /\ label = "asking" => run = job[c]
           /\ pc' = [pc EXCEPT ![c] = label]
           /\ job' = [job EXCEPT ![c] = run]
           /\ client' = [client EXCEPT ![c] = NoClient]
           /\ attempts' = [attempts EXCEPT ![c] = n]
<1>1. MaxAttempts \in Nat /\ attempts[c] \in 0..MaxAttempts
  BY BoundAssumption DEF TypeOK
<1>2. CASE attempts[c] + 1 < MaxAttempts
  <2>1. attempts[c] + 1 \in 0..MaxAttempts
    BY <1>1, <1>2
  <2>2. job' = [job EXCEPT ![c] = job[c]]
    BY <1>2 DEF AttemptFailed, TypeOK
  <2> QED
    BY <1>2, <2>1, <2>2 DEF AttemptFailed, Goto
<1>3. CASE ~(attempts[c] + 1 < MaxAttempts)
  BY <1>1, <1>3 DEF AttemptFailed, Return, Goto
<1> QED
  BY <1>2, <1>3

\* A caller that was not waiting for a client joins the end of the queue.
LEMMA JoinQueue ==
  ASSUME TypeOK, QueueOnce, NEW c \in Callers,
         NEW label \in {"connecting", "queued"},
         pc[c] \notin {"connecting", "queued"},
         pc' = [pc EXCEPT ![c] = label],
         queue' = Append(queue, c)
  PROVE  queue' \in Seq(Callers) /\ QueueOnce'
<1>1. /\ queue \in Seq(Callers) /\ Len(queue) \in Nat
      /\ queue' \in Seq(Callers)
      /\ Len(queue') = Len(queue) + 1
      /\ queue'[Len(queue) + 1] = c
      /\ \A i \in 1..Len(queue) : queue'[i] = queue[i] /\ queue[i] \in Callers
  BY DEF TypeOK
<1>2. \A i \in 1..Len(queue) : queue[i] # c /\ pc[queue[i]] \in {"connecting", "queued"}
  BY DEF QueueOnce
<1>3. pc'[c] = label /\ \A d \in Callers \ {c} : pc'[d] = pc[d]
  BY DEF TypeOK
<1>4. \A i \in 1..Len(queue') : pc'[queue'[i]] \in {"connecting", "queued"}
  <2> SUFFICES ASSUME NEW i \in 1..Len(queue')
               PROVE  pc'[queue'[i]] \in {"connecting", "queued"}
    OBVIOUS
  <2>1. CASE i \in 1..Len(queue)
    BY <1>1, <1>2, <1>3, <2>1
  <2>2. CASE i = Len(queue) + 1
    BY <1>1, <1>3, <2>2
  <2> QED
    BY <1>1, <2>1, <2>2
<1>5. \A i, j \in 1..Len(queue') : queue'[i] = queue'[j] => i = j
  <2> SUFFICES ASSUME NEW i \in 1..Len(queue'), NEW j \in 1..Len(queue'),
                      queue'[i] = queue'[j]
               PROVE  i = j
    OBVIOUS
  <2>1. CASE i \in 1..Len(queue) /\ j \in 1..Len(queue)
    BY <1>1, <2>1 DEF QueueOnce
  <2>2. CASE i = Len(queue) + 1 \/ j = Len(queue) + 1
    BY <1>1, <1>2, <2>2
  <2> QED
    BY <1>1, <2>1, <2>2
<1> QED
  BY <1>1, <1>4, <1>5 DEF QueueOnce

\* A caller outside the queue does not disturb it by what it does alone.
LEMMA KeepQueue ==
  ASSUME TypeOK, QueueOnce, NEW c \in Callers, NEW label \in CallStates,
         pc[c] \notin {"connecting", "queued"},
         pc' = [pc EXCEPT ![c] = label],
         UNCHANGED queue
  PROVE  QueueOnce'
  BY DEF TypeOK, QueueOnce

\* The first of the queue is a caller that waits for a client.
LEMMA HeadWaits ==
  ASSUME TypeOK, QueueOnce, queue # <<>>
  PROVE  Head(queue) \in Callers /\ pc[Head(queue)] \in {"connecting", "queued"}
<1>1. Len(queue) \in Nat /\ 1 \in 1..Len(queue) /\ Head(queue) = queue[1]
  BY DEF TypeOK
<1> QED
  BY <1>1 DEF QueueOnce, TypeOK

-----------------------------------------------------------------------------
(* The initial states and stuttering.                                      *)

LEMMA InitKeeps == Init => IInv
<1> SUFFICES ASSUME Init PROVE IInv
  OBVIOUS
<1> USE NullAssumption, BoundAssumption
<1>1. TypeOK
  BY DEF Init, TypeOK, CallStates
<1>2. CallHas /\ QueueOnce
  BY DEF Init, CallHas, QueueOnce
<1>3. SessionOfCall /\ OneUserPerClient /\ LeaseHasCaller
  BY DEF Init, SessionOfCall, OneUserPerClient, LeaseHasCaller, Granted, Inside
<1> QED
  BY <1>1, <1>2, <1>3 DEF IInv

LEMMA StutterKeeps == IInv /\ UNCHANGED vars => IInv'
  BY DEF IInv, vars, TypeOK, CallHas, QueueOnce, SessionOfCall, OneUserPerClient,
         LeaseHasCaller

-----------------------------------------------------------------------------
(* Asking for the lock.                                                    *)

LEMMA CallKeeps ==
  ASSUME IInv, NEW c \in Callers, NEW r \in Runs, Call(c, r)
  PROVE  IInv'
<1> USE NullAssumption, BoundAssumption DEF IInv, Call, Goto
<1>1. TypeOK'
  BY DEF TypeOK, CallStates
<1>2. CallHas'
  BY DEF TypeOK, CallHas
<1>3. QueueOnce'
  BY KeepQueue DEF CallStates
<1>4. SessionOfCall'
  BY DEF TypeOK, SessionOfCall, CallHas, Granted, Inside
<1>5. OneUserPerClient'
  BY DEF OneUserPerClient
<1>6. LeaseHasCaller'
  BY DEF TypeOK, LeaseHasCaller, Inside
<1> QED
  BY <1>1, <1>2, <1>3, <1>4, <1>5, <1>6

\* A call whose attempt failed: it had no lock, and has no client any more.
LEMMA ForgetKeeps ==
  ASSUME IInv, NEW c \in Callers, NEW label \in {"asking", "away"},
         NEW run \in {job[c], NoRun}, NEW n \in 0..MaxAttempts,
         label = "asking" => run = job[c],
         pc[c] \in {"asking", "denied"},
         pc' = [pc EXCEPT ![c] = label],
         job' = [job EXCEPT ![c] = run],
         client' = [client EXCEPT ![c] = NoClient],
         attempts' = [attempts EXCEPT ![c] = n],
         idle' = idle \cup ({client[c]} \ {NoClient}),
         UNCHANGED <<stepper, lease, session, queue, calls>>
  PROVE  IInv'
<1> USE NullAssumption DEF IInv
<1>1. TypeOK'
  BY DEF TypeOK, CallStates
<1>2. CallHas'
  BY DEF TypeOK, CallHas
<1>3. QueueOnce'
  BY KeepQueue DEF CallStates
<1>4. /\ \A d \in Callers \ {c} : pc'[d] = pc[d] /\ job'[d] = job[d] /\ client'[d] = client[d]
      /\ pc'[c] = label /\ client'[c] = NoClient
  BY DEF TypeOK
<1>5. SessionOfCall'
  <2>1. \A d \in Callers : pc'[d] \in Granted => session'[job'[d]] = client'[d]
    BY <1>4 DEF SessionOfCall, Granted, Inside
  <2>2. ASSUME NEW r \in Runs, NEW d \in Callers, session'[r] = client'[d], client'[d] # NoClient
        PROVE  pc'[d] \in Granted /\ job'[d] = r
    BY <1>4, <2>2 DEF SessionOfCall
  <2>3. ASSUME NEW r \in Runs, NEW d \in Callers, session'[r] = stepper'[d]
        PROVE  session'[r] = NoClient
    BY <2>3 DEF SessionOfCall
  <2> QED
    BY <2>1, <2>2, <2>3 DEF SessionOfCall
<1>6. OneUserPerClient'
  <2>1. \A r \in Runs : client[c] # NoClient => session[r] # client[c]
    BY DEF SessionOfCall, Granted, Inside
  <2>2. \A r \in Runs : session'[r] \notin idle'
    BY <2>1 DEF OneUserPerClient
  <2>3. \A d \in Callers : client'[d] \notin idle' /\ stepper'[d] \notin idle'
    BY <1>4 DEF TypeOK, OneUserPerClient
  <2>4. \A d, e \in Callers :
          /\ client'[d] = client'[e] /\ client'[d] # NoClient => d = e
          /\ stepper'[d] = stepper'[e] /\ stepper'[d] # NoClient => d = e
          /\ client'[d] # NoClient => client'[d] # stepper'[e]
    BY <1>4 DEF OneUserPerClient
  <2> QED
    BY <2>2, <2>3, <2>4 DEF OneUserPerClient
<1>7. LeaseHasCaller'
  BY <1>4 DEF TypeOK, LeaseHasCaller, Inside
<1> QED
  BY <1>1, <1>2, <1>3, <1>5, <1>6, <1>7

LEMMA RefusedKeeps ==
  ASSUME IInv, NEW c \in Callers, Refused(c)
  PROVE  IInv'
<1>1. TypeOK /\ AttemptFailed(c) /\ pc[c] = "asking"
  BY DEF IInv, Refused
<1>2. client[c] = NoClient /\ idle' = idle \cup ({client[c]} \ {NoClient})
  BY <1>1 DEF IInv, CallHas, Refused
<1> QED
  BY <1>1, <1>2, AttemptEnds, ForgetKeeps DEF Refused

LEMMA DeniedKeeps ==
  ASSUME IInv, NEW c \in Callers, Denied(c)
  PROVE  IInv'
<1>1. TypeOK /\ AttemptFailed(c) /\ pc[c] = "denied"
  BY DEF IInv, Denied
<1>2. client[c] # NoClient /\ idle' = idle \cup ({client[c]} \ {NoClient})
  BY <1>1 DEF IInv, CallHas, Denied
<1> QED
  BY <1>1, <1>2, AttemptEnds, ForgetKeeps DEF Denied

LEMMA AskForClientKeeps ==
  ASSUME IInv, NEW c \in Callers, AskForClient(c)
  PROVE  IInv'
<1> USE NullAssumption DEF IInv, AskForClient, Goto
<1>1. queue' \in Seq(Callers) /\ QueueOnce'
  BY JoinQueue
<1>2. TypeOK'
  BY <1>1 DEF TypeOK, CallStates
<1>3. CallHas'
  BY DEF TypeOK, CallHas
<1>4. SessionOfCall'
  BY DEF TypeOK, SessionOfCall, CallHas, Granted, Inside
<1>5. OneUserPerClient'
  BY DEF OneUserPerClient
<1>6. LeaseHasCaller'
  BY DEF TypeOK, LeaseHasCaller, Inside
<1> QED
  BY <1>1, <1>2, <1>3, <1>4, <1>5, <1>6

-----------------------------------------------------------------------------
(* The pool serves the head of the queue.                                  *)

LEMMA ConnectKeeps ==
  ASSUME IInv, NEW k \in Clients, Connect(k)
  PROVE  IInv'
<1> DEFINE c == Head(queue)
<1> USE NullAssumption DEF IInv
<1>1. /\ c \in Callers /\ queue' \in Seq(Callers)
      /\ Len(queue) \in Nat /\ Len(queue') = Len(queue) - 1 /\ Len(queue) >= 1
      /\ c = queue[1]
      /\ \A i \in 1..Len(queue') : queue'[i] = queue[i + 1]
  BY DEF TypeOK, Connect
<1>2. pc[c] \in {"connecting", "queued"} /\ \A i \in 1..Len(queue') : queue'[i] # c
  <2>1. 1 \in 1..Len(queue) /\ pc[queue[1]] \in {"connecting", "queued"}
    BY <1>1 DEF QueueOnce
  <2>2. \A i \in 1..Len(queue') : i + 1 \in 1..Len(queue) /\ i + 1 # 1
    BY <1>1
  <2> QED
    BY <1>1, <2>1, <2>2 DEF QueueOnce
<1>3. k \in idle /\ idle' = idle \ {k} /\ k # NoClient
  BY DEF Connect, TypeOK
<1>4. QueueOnce'
  <2>1. \A d \in Callers \ {c} : pc'[d] = pc[d]
    BY <1>1 DEF Connect, Goto, TypeOK
  <2>2. \A i \in 1..Len(queue') : i + 1 \in 1..Len(queue) /\ queue'[i] \in Callers \ {c}
    BY <1>1, <1>2
  <2>3. \A i \in 1..Len(queue') : pc'[queue'[i]] \in {"connecting", "queued"}
    BY <1>1, <2>1, <2>2 DEF QueueOnce
  <2>4. \A i, j \in 1..Len(queue') : queue'[i] = queue'[j] => i = j
    BY <1>1, <2>2 DEF QueueOnce
  <2> QED
    BY <2>3, <2>4 DEF QueueOnce
<1>5. CASE pc[c] = "connecting"
  <2>1. /\ client' = [client EXCEPT ![c] = k]
        /\ pc' = [pc EXCEPT ![c] = "trying"]
        /\ UNCHANGED <<stepper, job, attempts, lease, session, calls>>
    BY <1>5 DEF Connect, Goto
  <2>2. TypeOK'
    BY <1>1, <1>3, <2>1 DEF TypeOK, CallStates
  <2>3. CallHas'
    BY <1>1, <1>3, <1>5, <2>1 DEF TypeOK, CallHas
  <2>4. SessionOfCall'
    BY <1>1, <1>3, <1>5, <2>1 DEF TypeOK, SessionOfCall, OneUserPerClient, Granted, Inside
  <2>5. OneUserPerClient'
    BY <1>1, <1>3, <2>1 DEF TypeOK, OneUserPerClient
  <2>6. LeaseHasCaller'
    BY <1>1, <1>5, <2>1 DEF TypeOK, LeaseHasCaller, Inside
  <2> QED
    BY <2>2, <2>3, <2>4, <2>5, <2>6, <1>4
<1>6. CASE pc[c] = "queued"
  <2>1. /\ stepper' = [stepper EXCEPT ![c] = k]
        /\ pc' = [pc EXCEPT ![c] = "stepping"]
        /\ UNCHANGED <<client, job, attempts, lease, session, calls>>
    BY <1>6 DEF Connect, Goto
  <2>2. TypeOK'
    BY <1>1, <1>3, <2>1 DEF TypeOK, CallStates
  <2>3. CallHas'
    BY <1>1, <1>3, <1>6, <2>1 DEF TypeOK, CallHas
  <2>4. SessionOfCall'
    BY <1>1, <1>3, <1>6, <2>1 DEF TypeOK, SessionOfCall, OneUserPerClient, Granted, Inside
  <2>5. OneUserPerClient'
    BY <1>1, <1>3, <2>1 DEF TypeOK, OneUserPerClient
  <2>6. LeaseHasCaller'
    BY <1>1, <1>6, <2>1 DEF TypeOK, LeaseHasCaller, Inside
  <2> QED
    BY <2>2, <2>3, <2>4, <2>5, <2>6, <1>4
<1> QED
  BY <1>2, <1>5, <1>6

-----------------------------------------------------------------------------
(* Taking the lock and giving it back.                                     *)

LEMMA TryLockKeeps ==
  ASSUME IInv, NEW c \in Callers, TryLock(c)
  PROVE  IInv'
<1> USE NullAssumption DEF IInv
<1>1. /\ pc[c] = "trying" /\ job[c] \in Runs
      /\ client[c] \in Clients /\ client[c] # NoClient
      /\ UNCHANGED <<job, client, stepper, attempts, lease, idle, queue, calls>>
  BY DEF TryLock, CallHas, TypeOK
<1>2. CASE session[job[c]] = NoClient
  <2>1. /\ session' = [session EXCEPT ![job[c]] = client[c]]
        /\ pc' = [pc EXCEPT ![c] = "granted"]
    BY <1>2 DEF TryLock, Goto
  <2>2. TypeOK'
    BY <1>1, <2>1 DEF TypeOK, CallStates
  <2>3. CallHas'
    BY <1>1, <2>1 DEF TypeOK, CallHas
  <2>4. QueueOnce'
    BY <1>1, <2>1, KeepQueue DEF CallStates
  <2>5. SessionOfCall'
    <3>1. \A d \in Callers : client[d] = client[c] => d = c
      BY <1>1 DEF OneUserPerClient
    <3>2. \A d \in Callers : pc[d] \in Granted => job[d] # job[c]
      BY <1>2 DEF SessionOfCall, CallHas, Granted, Inside
    <3>3. \A r \in Runs : session[r] # client[c]
      BY <1>1 DEF SessionOfCall, Granted, Inside
    <3>4. \A d \in Callers : pc'[d] = (IF d = c THEN "granted" ELSE pc[d])
      BY <2>1 DEF TypeOK
    <3>5. \A r \in Runs : session'[r] = (IF r = job[c] THEN client[c] ELSE session[r])
      BY <2>1 DEF TypeOK
    <3>6. \A d \in Callers : pc'[d] \in Granted => session'[job'[d]] = client'[d]
      BY <1>1, <3>2, <3>4, <3>5 DEF SessionOfCall, CallHas, Granted, Inside
    <3>7. ASSUME NEW r \in Runs, NEW d \in Callers
          PROVE  /\ session'[r] = client'[d] /\ client'[d] # NoClient
                      => pc'[d] \in Granted /\ job'[d] = r
                 /\ session'[r] = stepper'[d] => session'[r] = NoClient
      BY <1>1, <3>1, <3>3, <3>4, <3>5 DEF SessionOfCall, OneUserPerClient, Granted
    <3> QED
      BY <3>6, <3>7 DEF SessionOfCall
  <2>6. OneUserPerClient'
    BY <1>1, <2>1 DEF TypeOK, OneUserPerClient
  <2>7. LeaseHasCaller'
    BY <1>1, <2>1 DEF TypeOK, LeaseHasCaller, Inside
  <2> QED
    BY <2>2, <2>3, <2>4, <2>5, <2>6, <2>7
<1>3. CASE session[job[c]] # NoClient
  <2>1. session' = session /\ pc' = [pc EXCEPT ![c] = "denied"]
    BY <1>3 DEF TryLock, Goto
  <2>2. TypeOK'
    BY <1>1, <2>1 DEF TypeOK, CallStates
  <2>3. CallHas'
    BY <1>1, <2>1 DEF TypeOK, CallHas
  <2>4. QueueOnce'
    BY <1>1, <2>1, KeepQueue DEF CallStates
  <2>5. SessionOfCall'
    BY <1>1, <2>1 DEF TypeOK, SessionOfCall, Granted, Inside
  <2>6. OneUserPerClient'
    BY <1>1, <2>1 DEF OneUserPerClient
  <2>7. LeaseHasCaller'
    BY <1>1, <2>1 DEF TypeOK, LeaseHasCaller, Inside
  <2> QED
    BY <2>2, <2>3, <2>4, <2>5, <2>6, <2>7
<1> QED
  BY <1>2, <1>3

LEMMA RecordLeaseKeeps ==
  ASSUME IInv, NEW c \in Callers, RecordLease(c)
  PROVE  IInv'
<1> USE NullAssumption DEF IInv, RecordLease, Goto
<1>1. queue' \in Seq(Callers) /\ QueueOnce'
  BY JoinQueue
<1>2. TypeOK'
  BY <1>1 DEF TypeOK, CallStates
<1>3. CallHas'
  BY DEF TypeOK, CallHas
<1>4. SessionOfCall'
  BY DEF TypeOK, SessionOfCall, Granted, Inside
<1>5. OneUserPerClient'
  BY DEF OneUserPerClient
<1>6. LeaseHasCaller'
  BY DEF TypeOK, LeaseHasCaller, Inside
<1> QED
  BY <1>1, <1>2, <1>3, <1>4, <1>5, <1>6

\* The transaction's client goes back to the pool, and the call goes on with
\* the lock: to its next step or to the unlock query.
LEMMA EndKeeps ==
  ASSUME IInv, NEW c \in Callers, EndTransaction(c),
         NEW label \in {"queued", "unlocking"},
         pc' = [pc EXCEPT ![c] = label],
         lease[job[c]] = c,
         UNCHANGED <<job, client, attempts>>,
         queue' \in Seq(Callers), QueueOnce'
  PROVE  IInv'
<1> USE NullAssumption DEF IInv, EndTransaction
<1>1. stepper[c] \in Clients /\ stepper[c] # NoClient
  BY DEF TypeOK, CallHas
<1>2. TypeOK'
  BY <1>1 DEF TypeOK, CallStates
<1>3. CallHas'
  BY DEF TypeOK, CallHas
<1>4. SessionOfCall'
  BY DEF TypeOK, SessionOfCall, Granted, Inside
<1>5. OneUserPerClient'
  BY <1>1 DEF TypeOK, OneUserPerClient, SessionOfCall
<1>6. LeaseHasCaller'
  BY DEF TypeOK, LeaseHasCaller, Inside
<1> QED
  BY <1>2, <1>3, <1>4, <1>5, <1>6

LEMMA RenewAndContinueKeeps ==
  ASSUME IInv, NEW c \in Callers, RenewAndContinue(c)
  PROVE  IInv'
<1>1. pc[c] = "stepping" /\ TypeOK /\ QueueOnce
  BY DEF IInv, RenewAndContinue, EndTransaction
<1>2. queue' \in Seq(Callers) /\ QueueOnce'
  BY <1>1, JoinQueue DEF RenewAndContinue, Goto
<1> QED
  BY <1>2, EndKeeps DEF RenewAndContinue, Goto

LEMMA LeaveLoopKeeps ==
  ASSUME IInv, NEW c \in Callers, LeaveLoop(c)
  PROVE  IInv'
<1> USE NullAssumption DEF IInv
<1>1. pc[c] = "stepping" /\ stepper[c] \in Clients /\ stepper[c] # NoClient
  BY DEF LeaveLoop, EndTransaction, TypeOK, CallHas
<1>2. CASE lease[job[c]] = c
  <2>1. /\ pc' = [pc EXCEPT ![c] = "unlocking"]
        /\ UNCHANGED <<job, client, attempts, queue>>
        /\ EndTransaction(c)
    BY <1>2 DEF LeaveLoop, EnterRelease, Goto
  <2>2. queue' \in Seq(Callers) /\ QueueOnce'
    BY <1>1, <2>1, KeepQueue DEF TypeOK, CallStates
  <2> QED
    BY <1>2, <2>1, <2>2, EndKeeps
<1>3. CASE lease[job[c]] # c
  <2>1. /\ pc' = [pc EXCEPT ![c] = "away"]
        /\ job' = [job EXCEPT ![c] = NoRun]
        /\ client' = [client EXCEPT ![c] = NoClient]
        /\ attempts' = [attempts EXCEPT ![c] = 0]
        /\ stepper' = [stepper EXCEPT ![c] = NoClient]
        /\ idle' = idle \cup {stepper[c]}
        /\ UNCHANGED <<queue, lease, session, calls>>
    BY <1>3 DEF LeaveLoop, EndTransaction, EnterRelease, Return, Goto
  <2>2. TypeOK'
    BY <1>1, <2>1, BoundAssumption DEF TypeOK, CallStates
  <2>3. CallHas'
    BY <2>1 DEF TypeOK, CallHas
  <2>4. QueueOnce'
    BY <1>1, <2>1, KeepQueue DEF CallStates
  <2>5. SessionOfCall'
    BY <2>1 DEF TypeOK, SessionOfCall, Granted, Inside
  <2>6. OneUserPerClient'
    BY <1>1, <2>1 DEF TypeOK, OneUserPerClient, SessionOfCall
  <2>7. \A r \in Runs : lease[r] # c
    BY <1>3 DEF TypeOK, LeaseHasCaller
  <2>8. LeaseHasCaller'
    BY <2>1, <2>7 DEF TypeOK, LeaseHasCaller
  <2> QED
    BY <2>2, <2>3, <2>4, <2>5, <2>6, <2>8
<1> QED
  BY <1>2, <1>3

LEMMA UnlockKeeps ==
  ASSUME IInv, NEW c \in Callers, Unlock(c)
  PROVE  IInv'
<1> USE NullAssumption DEF IInv, Unlock, Goto
<1>1. TypeOK'
  BY DEF TypeOK, CallStates
<1>2. CallHas'
  BY DEF TypeOK, CallHas
<1>3. QueueOnce'
  BY KeepQueue DEF CallStates
<1>4. SessionOfCall'
  BY DEF TypeOK, SessionOfCall, CallHas, OneUserPerClient, Granted, Inside
<1>5. OneUserPerClient'
  BY DEF TypeOK, OneUserPerClient
<1>6. LeaseHasCaller'
  BY DEF TypeOK, LeaseHasCaller, Inside
<1> QED
  BY <1>1, <1>2, <1>3, <1>4, <1>5, <1>6

LEMMA DropLeaseKeeps ==
  ASSUME IInv, NEW c \in Callers, DropLease(c)
  PROVE  IInv'
<1> USE NullAssumption DEF IInv
<1>1. /\ pc[c] = "unlocked" /\ client[c] \in Clients /\ client[c] # NoClient
      /\ pc' = [pc EXCEPT ![c] = "away"]
      /\ job' = [job EXCEPT ![c] = NoRun]
      /\ client' = [client EXCEPT ![c] = NoClient]
      /\ attempts' = [attempts EXCEPT ![c] = 0]
      /\ lease' = [lease EXCEPT ![job[c]] = NoCaller]
      /\ idle' = idle \cup {client[c]}
      /\ UNCHANGED <<stepper, session, queue, calls>>
  BY DEF DropLease, Return, Goto, TypeOK, CallHas
<1>2. TypeOK'
  <2>1. 0 \in 0..MaxAttempts
    BY BoundAssumption
  <2> QED
    BY <1>1, <2>1 DEF TypeOK, CallStates
<1>3. CallHas'
  BY <1>1 DEF TypeOK, CallHas
<1>4. QueueOnce'
  BY <1>1, KeepQueue DEF CallStates
<1>5. SessionOfCall'
  BY <1>1 DEF TypeOK, SessionOfCall, Granted, Inside
<1>6. \A r \in Runs : session[r] # client[c]
  BY <1>1 DEF SessionOfCall, Granted, Inside
<1>7. OneUserPerClient'
  BY <1>1, <1>6 DEF TypeOK, OneUserPerClient
<1>8. LeaseHasCaller'
  BY <1>1 DEF TypeOK, LeaseHasCaller, Inside
<1> QED
  BY <1>2, <1>3, <1>4, <1>5, <1>7, <1>8

-----------------------------------------------------------------------------
(* The invariant.                                                          *)

LEMMA NextKeeps == IInv /\ [Next]_vars => IInv'
<1> SUFFICES ASSUME IInv, [Next]_vars PROVE IInv'
  OBVIOUS
<1>1. ASSUME NEW c \in Callers, Proceed(c) PROVE IInv'
  BY <1>1, RefusedKeeps, AskForClientKeeps, TryLockKeeps, RecordLeaseKeeps, DeniedKeeps,
     RenewAndContinueKeeps, LeaveLoopKeeps, UnlockKeeps, DropLeaseKeeps DEF Proceed
<1>2. ASSUME NEW c \in Callers, NEW r \in Runs, Call(c, r) PROVE IInv'
  BY <1>2, CallKeeps
<1>3. ASSUME NEW k \in Clients, Connect(k) PROVE IInv'
  BY <1>3, ConnectKeeps
<1>4. CASE UNCHANGED vars
  BY <1>4, StutterKeeps
<1> QED
  BY <1>1, <1>2, <1>3, <1>4 DEF Next

LEMMA Invariance == Spec => []IInv
<1> QED
  BY InitKeeps, NextKeeps, PTL DEF Spec

\* Every record of the provider, the pool and the calls keeps its type; a call
\* makes at most lockAcquireMaxAttempts attempts (orchestrator.ts 112-127).
THEOREM TypeCorrect == Spec => []TypeOK
<1>1. IInv => TypeOK
  BY DEF IInv
<1> QED
  BY <1>1, Invariance, PTL

\* The pool never hands out a client that is in use or whose session still has
\* an advisory lock, and no two calls share one, although release deletes
\* leases it may not own (postgres-advisory-lock.ts 48-107).
THEOREM ClientsAreNotShared == Spec => []OneUserPerClient
<1>1. IInv => OneUserPerClient
  BY DEF IInv
<1> QED
  BY <1>1, Invariance, PTL

\* The leases map never blocks a run on behalf of a call that is over, so no
\* run is locked out by the map alone (postgres-advisory-lock.ts 49-51, 105).
THEOREM LeasesNameLiveCalls == Spec => []LeaseHasCaller
<1>1. IInv => LeaseHasCaller
  BY DEF IInv
<1> QED
  BY <1>1, Invariance, PTL

-----------------------------------------------------------------------------
(* The provider implements the run lock.                                   *)

\* Two calls that were granted the same run would use the same client.
LEMMA OneGranted ==
  IInv => \A c, d \in Callers :
            pc[c] \in Granted /\ pc[d] \in Granted /\ job[c] = job[d] => c = d
<1> SUFFICES ASSUME IInv, NEW c \in Callers, NEW d \in Callers,
                    pc[c] \in Granted, pc[d] \in Granted, job[c] = job[d]
             PROVE  c = d
  OBVIOUS
<1>1. session[job[c]] = client[c] /\ session[job[d]] = client[d]
  BY DEF IInv, SessionOfCall
<1>2. client[c] # NoClient
  BY DEF IInv, CallHas, Granted, Inside
<1> QED
  BY <1>1, <1>2 DEF IInv, OneUserPerClient

\* For a run, one call at most is inside its loop, although the map can name
\* another call than the one inside (postgres-advisory-lock.ts 48-107).
THEOREM OneCallInside == Spec => []OneInside
<1>1. IInv => OneInside
  BY OneGranted DEF OneInside, Granted
<1> QED
  BY <1>1, Invariance, PTL

\* The holder of a run is the call it was granted to, if there is one.
HolderFacts ==
  /\ holder \in [Runs -> Callers \cup {NoCaller}]
  /\ \A r \in Runs : GrantedOn(r) = {} => holder[r] = NoCaller
  /\ \A r \in Runs, c \in Callers : c \in GrantedOn(r) => holder[r] = c

LEMMA HolderIs == IInv => HolderFacts
<1> SUFFICES ASSUME IInv PROVE HolderFacts
  OBVIOUS
<1>1. \A r \in Runs : GrantedOn(r) \subseteq Callers
  BY DEF GrantedOn
<1>2. \A r \in Runs, c, d \in Callers : c \in GrantedOn(r) /\ d \in GrantedOn(r) => c = d
  BY OneGranted DEF GrantedOn
<1>3. \A r \in Runs : GrantedOn(r) # {} =>
        (CHOOSE c \in GrantedOn(r) : TRUE) \in GrantedOn(r)
  OBVIOUS
<1>4. \A r \in Runs : holder[r] = IF GrantedOn(r) = {} THEN NoCaller
                                  ELSE CHOOSE c \in GrantedOn(r) : TRUE
  BY DEF holder
<1>5. \A r \in Runs : holder[r] \in Callers \cup {NoCaller}
  BY <1>1, <1>3, <1>4
<1>6. \A r \in Runs, c \in Callers : c \in GrantedOn(r) => holder[r] = c
  BY <1>1, <1>2, <1>3, <1>4
<1> QED
  BY <1>4, <1>5, <1>6 DEF holder, HolderFacts

OthersSame(s) == \A r \in Runs \ {s} : GrantedOn(r)' = GrantedOn(r)

Taken(s, c) == GrantedOn(s) = {} /\ GrantedOn(s)' = {c} /\ OthersSame(s)

Freed(s) == GrantedOn(s)' = {} /\ OthersSame(s)

\* Who holds which lock changes only by the two queries, and by a call that
\* leaves without a lease.
LEMMA GrantedChanges ==
  ASSUME IInv, [Next]_vars
  PROVE  \/ \A r \in Runs : GrantedOn(r)' = GrantedOn(r)
         \/ \E c \in Callers, s \in Runs : Taken(s, c) \/ Freed(s)
<1> DEFINE Same == \A r \in Runs : GrantedOn(r)' = GrantedOn(r)
<1> USE DEF IInv
<1>1. ASSUME NEW c \in Callers,
             \A d \in Callers \ {c} : pc'[d] = pc[d] /\ job'[d] = job[d],
             \/ pc[c] \notin Granted /\ pc'[c] \notin Granted
             \/ pc[c] \in Granted /\ pc'[c] \in Granted /\ job'[c] = job[c]
      PROVE  Same
  BY <1>1 DEF GrantedOn
<1>2. ASSUME NEW c \in Callers, NEW r \in Runs, Call(c, r) PROVE Same
  <2>1. \A d \in Callers \ {c} : pc'[d] = pc[d] /\ job'[d] = job[d]
    BY <1>2 DEF Call, Goto, TypeOK
  <2>2. pc[c] \notin Granted /\ pc'[c] \notin Granted
    BY <1>2 DEF Call, Goto, TypeOK, Granted, Inside
  <2> QED
    BY <1>1, <2>1, <2>2
<1>3. ASSUME NEW c \in Callers, Refused(c) \/ Denied(c) PROVE Same
  <2>1. AttemptFailed(c) /\ pc[c] \in {"asking", "denied"}
    BY <1>3 DEF Refused, Denied
  <2>2. /\ \A d \in Callers \ {c} : pc'[d] = pc[d] /\ job'[d] = job[d]
        /\ pc'[c] \in {"asking", "away"}
    BY <2>1, AttemptEnds DEF TypeOK
  <2>3. pc[c] \notin Granted /\ pc'[c] \notin Granted
    BY <2>1, <2>2 DEF Granted, Inside
  <2> QED
    BY <1>1, <2>2, <2>3
<1>4. ASSUME NEW c \in Callers, AskForClient(c) PROVE Same
  BY <1>1, <1>4 DEF AskForClient, Goto, TypeOK, Granted, Inside
<1>5. ASSUME NEW c \in Callers, RecordLease(c) \/ RenewAndContinue(c) PROVE Same
  <2>1. /\ pc[c] \in {"granted", "stepping"}
        /\ pc' = [pc EXCEPT ![c] = "queued"]
        /\ job' = job
    BY <1>5 DEF RecordLease, RenewAndContinue, EndTransaction, Goto
  <2> QED
    BY <1>1, <2>1 DEF TypeOK, Granted, Inside
<1>6. ASSUME NEW k \in Clients, Connect(k) PROVE Same
  <2>1. Head(queue) \in Callers /\ pc[Head(queue)] \in {"connecting", "queued"}
    <3>1. Len(queue) \in Nat /\ 1 \in 1..Len(queue) /\ Head(queue) = queue[1]
      BY <1>6 DEF Connect, TypeOK
    <3> QED
      BY <1>6, <3>1 DEF QueueOnce, Connect, TypeOK
  <2>2. CASE pc[Head(queue)] = "connecting"
    <3>1. pc' = [pc EXCEPT ![Head(queue)] = "trying"] /\ job' = job
      BY <1>6, <2>2 DEF Connect, Goto
    <3> QED
      BY <1>1, <2>1, <2>2, <3>1 DEF TypeOK, Granted, Inside
  <2>3. CASE pc[Head(queue)] = "queued"
    <3>1. pc' = [pc EXCEPT ![Head(queue)] = "stepping"] /\ job' = job
      BY <1>6, <2>3 DEF Connect, Goto
    <3> QED
      BY <1>1, <2>1, <2>3, <3>1 DEF TypeOK, Granted, Inside
  <2> QED
    BY <2>1, <2>2, <2>3
<1>7. ASSUME NEW c \in Callers, DropLease(c) PROVE Same
  BY <1>1, <1>7 DEF DropLease, Return, Goto, TypeOK, Granted, Inside
<1>8. ASSUME NEW c \in Callers, pc[c] \in Granted, pc'[c] \notin Granted,
             \A d \in Callers \ {c} : pc'[d] = pc[d] /\ job'[d] = job[d]
      PROVE  \E s \in Runs : Freed(s)
  <2>1. job[c] \in Runs
    BY <1>8 DEF CallHas, Granted, Inside
  <2>2. \A d \in Callers \ {c} : ~(pc[d] \in Granted /\ job[d] = job[c])
    BY <1>8, OneGranted
  <2>3. \A r \in Runs \ {job[c]} : GrantedOn(r)' = GrantedOn(r)
    BY <1>8 DEF GrantedOn
  <2>4. \A s \in Runs : s = job[c] => GrantedOn(s)' = {}
    BY <1>8, <2>2 DEF GrantedOn
  <2> QED
    BY <2>1, <2>3, <2>4 DEF Freed, OthersSame
<1>9. ASSUME NEW c \in Callers, LeaveLoop(c)
      PROVE  Same \/ \E s \in Runs : Freed(s)
  <2>1. pc[c] = "stepping" /\ pc[c] \in Granted
    BY <1>9 DEF LeaveLoop, EndTransaction, Granted, Inside
  <2>2. CASE lease[job[c]] = c
    <3>1. pc' = [pc EXCEPT ![c] = "unlocking"] /\ job' = job
      BY <1>9, <2>2 DEF LeaveLoop, EnterRelease, Goto
    <3> QED
      BY <1>1, <2>1, <3>1 DEF TypeOK, Granted
  <2>3. CASE lease[job[c]] # c
    <3>1. pc' = [pc EXCEPT ![c] = "away"] /\ job' = [job EXCEPT ![c] = NoRun]
      BY <1>9, <2>3 DEF LeaveLoop, EnterRelease, Return, Goto
    <3>2. /\ \A d \in Callers \ {c} : pc'[d] = pc[d] /\ job'[d] = job[d]
          /\ pc'[c] \notin Granted
      BY <3>1 DEF TypeOK, Granted, Inside
    <3> QED
      BY <1>8, <2>1, <3>2
  <2> QED
    BY <2>2, <2>3
<1>10. ASSUME NEW c \in Callers, Unlock(c)
       PROVE  \E s \in Runs : Freed(s)
  <2>1. /\ pc[c] \in Granted /\ pc'[c] \notin Granted
        /\ \A d \in Callers \ {c} : pc'[d] = pc[d] /\ job'[d] = job[d]
    BY <1>10 DEF Unlock, Goto, TypeOK, Granted, Inside
  <2> QED
    BY <1>8, <2>1
<1>11. ASSUME NEW c \in Callers, TryLock(c)
       PROVE  Same \/ \E s \in Runs : Taken(s, c)
  <2>1. pc[c] = "trying" /\ pc[c] \notin Granted /\ job[c] \in Runs /\ job' = job
    BY <1>11 DEF TryLock, CallHas, Granted, Inside
  <2>2. CASE session[job[c]] = NoClient
    <3>1. pc' = [pc EXCEPT ![c] = "granted"]
      BY <1>11, <2>2 DEF TryLock, Goto
    <3>2. \A d \in Callers : ~(pc[d] \in Granted /\ job[d] = job[c])
      BY <2>2 DEF SessionOfCall, CallHas, Granted, Inside
    <3>3. /\ \A d \in Callers \ {c} : pc'[d] = pc[d] /\ job'[d] = job[d]
          /\ pc'[c] \in Granted /\ job'[c] = job[c]
      BY <2>1, <3>1 DEF TypeOK, Granted
    <3>4. \A r \in Runs \ {job[c]} : GrantedOn(r)' = GrantedOn(r)
      BY <2>1, <3>3 DEF GrantedOn
    <3>5. \A s \in Runs : s = job[c] => GrantedOn(s) = {} /\ GrantedOn(s)' = {c}
      BY <3>2, <3>3 DEF GrantedOn
    <3> QED
      BY <2>1, <3>4, <3>5 DEF Taken, OthersSame
  <2>3. CASE session[job[c]] # NoClient
    <3>1. pc' = [pc EXCEPT ![c] = "denied"]
      BY <1>11, <2>3 DEF TryLock, Goto
    <3>2. /\ \A d \in Callers \ {c} : pc'[d] = pc[d] /\ job'[d] = job[d]
          /\ pc'[c] \notin Granted
      BY <2>1, <3>1 DEF TypeOK, Granted, Inside
    <3> QED
      BY <1>1, <2>1, <3>2
  <2> QED
    BY <2>2, <2>3
<1>12. ASSUME UNCHANGED vars PROVE Same
  BY <1>12 DEF vars, GrantedOn
<1> QED
  BY <1>2, <1>3, <1>4, <1>5, <1>6, <1>7, <1>9, <1>10, <1>11, <1>12 DEF Next, Proceed

LEMMA LockStep ==
  ASSUME IInv, IInv', [Next]_vars
  PROVE  [ProvidedLock!Next]_holder
<1>1. HolderFacts
  BY HolderIs
<1>2. HolderFacts'
  BY HolderIs, PTL
<1> USE DEF HolderFacts
<1>3. ASSUME NEW r \in Runs, GrantedOn(r)' = GrantedOn(r) PROVE holder'[r] = holder[r]
  <2>1. GrantedOn(r) \subseteq Callers
    BY DEF GrantedOn
  <2> QED
    BY <1>1, <1>2, <1>3, <2>1
<1>4. CASE \A r \in Runs : GrantedOn(r)' = GrantedOn(r)
  <2>1. \A r \in Runs : holder'[r] = holder[r]
    BY <1>3, <1>4
  <2>2. holder' = holder
    BY <1>1, <1>2, <2>1
  <2> QED
    BY <2>2
<1>5. ASSUME NEW c \in Callers, NEW s \in Runs, Taken(s, c) PROVE ProvidedLock!Next
  <2>1. holder[s] = NoCaller /\ holder'[s] = c
    BY <1>1, <1>2, <1>5 DEF Taken
  <2>2. \A r \in Runs \ {s} : holder'[r] = holder[r]
    BY <1>3, <1>5 DEF Taken, OthersSame
  <2>3. ProvidedLock!Grant(s, c)
    BY <1>1, <1>2, <2>1, <2>2 DEF ProvidedLock!Grant
  <2> QED
    BY <2>3 DEF ProvidedLock!Next
<1>6. ASSUME NEW s \in Runs, Freed(s) PROVE ProvidedLock!Next
  <2>1. holder'[s] = NoCaller
    BY <1>2, <1>6 DEF Freed
  <2>2. \A r \in Runs \ {s} : holder'[r] = holder[r]
    BY <1>3, <1>6 DEF Freed, OthersSame
  <2>3. ProvidedLock!GiveBack({s})
    BY <1>1, <1>2, <2>1, <2>2 DEF ProvidedLock!GiveBack
  <2> QED
    BY <2>3 DEF ProvidedLock!Next
<1> QED
  BY <1>4, <1>5, <1>6, GrantedChanges

\* The advisory-lock provider, driven as resumeRun drives it, implements the
\* run lock that RunExecution relies on: a run is granted only while free, and
\* to one call at a time (postgres-advisory-lock.ts 48-107).
THEOREM ProviderImplementsRunLock == Spec => ImplementsRunLock
<1>1. Init => ProvidedLock!Init
  <2> SUFFICES ASSUME Init PROVE ProvidedLock!Init
    OBVIOUS
  <2>1. IInv
    BY InitKeeps
  <2>2. \A r \in Runs : GrantedOn(r) = {}
    BY DEF Init, GrantedOn, Granted, Inside
  <2> QED
    BY <2>1, <2>2, HolderIs DEF HolderFacts, ProvidedLock!Init
<1>2. IInv /\ IInv' /\ [Next]_vars => [ProvidedLock!Next]_holder
  BY LockStep
<1> QED
  BY <1>1, <1>2, Invariance, PTL DEF Spec, ImplementsRunLock, ProvidedLock!Spec

-----------------------------------------------------------------------------
(* The pool.                                                               *)

LEMMA InitAccounted == Init => ClientsAccounted
  BY DEF Init, ClientsAccounted

\* What a step may do to the users of a client: whoever gives it up leaves it
\* to the pool, or to a session.
LEMMA AccountedKeeps ==
  ASSUME IInv, ClientsAccounted, [Next]_vars
  PROVE  ClientsAccounted'
<1> USE NullAssumption
<1>1. TypeOK /\ CallHas /\ SessionOfCall
  BY DEF IInv
<1> SUFFICES ASSUME NEW k \in Clients, k \notin idle'
             PROVE  \/ \E d \in Callers : k = client'[d] \/ k = stepper'[d]
                    \/ \E r \in Runs : session'[r] = k
  BY DEF ClientsAccounted
<1> DEFINE UsedAfter == \/ \E d \in Callers : k = client'[d] \/ k = stepper'[d]
                       \/ \E r \in Runs : session'[r] = k
<1>2. k \notin idle =>
        \/ \E d \in Callers : k = client[d] \/ k = stepper[d]
        \/ \E r \in Runs : session[r] = k
  BY DEF ClientsAccounted
<1>3. k # NoClient
  OBVIOUS
<1>4. ASSUME NEW c \in Callers, AskForClient(c) \/ RecordLease(c) \/ \E r \in Runs : Call(c, r)
      PROVE  UNCHANGED <<client, stepper, session, idle>>
  BY <1>4 DEF Call, AskForClient, RecordLease
<1>5. ASSUME UNCHANGED <<client, stepper, session, idle>>
      PROVE  UsedAfter
  BY <1>2, <1>5
<1>6. ASSUME NEW c \in Callers, Refused(c) \/ Denied(c) \/ DropLease(c)
      PROVE  UsedAfter
  <2>1. client' = [client EXCEPT ![c] = NoClient] /\ UNCHANGED <<stepper, session>>
    BY <1>1, <1>6, AttemptEnds DEF Refused, Denied, DropLease, Return
  <2>2. idle \subseteq idle' /\ (client[c] = NoClient \/ client[c] \in idle')
    BY <1>1, <1>6 DEF Refused, Denied, DropLease, CallHas
  <2> QED
    BY <1>1, <1>2, <2>1, <2>2 DEF TypeOK
<1>7. ASSUME NEW j \in Clients, Connect(j)
      PROVE  UsedAfter
  <2>1. Head(queue) \in Callers /\ pc[Head(queue)] \in {"connecting", "queued"}
    BY <1>7, HeadWaits DEF IInv, Connect
  <2>2. idle' = idle \ {j} /\ session' = session
    BY <1>7 DEF Connect
  <2>3. CASE pc[Head(queue)] = "connecting"
    <3>1. client' = [client EXCEPT ![Head(queue)] = j] /\ stepper' = stepper
      BY <1>7, <2>3 DEF Connect
    <3>2. client[Head(queue)] = NoClient
      BY <1>1, <2>1, <2>3 DEF CallHas
    <3> QED
      BY <1>1, <1>2, <2>1, <2>2, <3>1, <3>2 DEF TypeOK
  <2>4. CASE pc[Head(queue)] = "queued"
    <3>1. stepper' = [stepper EXCEPT ![Head(queue)] = j] /\ client' = client
      BY <1>7, <2>4 DEF Connect
    <3>2. stepper[Head(queue)] = NoClient
      BY <1>1, <2>1, <2>4 DEF CallHas
    <3> QED
      BY <1>1, <1>2, <2>1, <2>2, <3>1, <3>2 DEF TypeOK
  <2> QED
    BY <2>1, <2>3, <2>4
<1>8. ASSUME NEW c \in Callers, TryLock(c) \/ Unlock(c)
      PROVE  UsedAfter
  <2>1. UNCHANGED <<client, stepper, idle>>
    BY <1>8 DEF TryLock, Unlock
  <2>2. job[c] \in Runs
    BY <1>1, <1>8 DEF TryLock, Unlock, CallHas
  <2>3. \A r \in Runs : session[r] = k => session'[r] = k \/ client[c] = k
    BY <1>1, <1>8, <2>2 DEF TryLock, Unlock, TypeOK
  <2> QED
    BY <1>2, <2>1, <2>3
<1>9. ASSUME NEW c \in Callers, RenewAndContinue(c) \/ LeaveLoop(c)
      PROVE  UsedAfter
  <2>1. /\ pc[c] = "stepping"
        /\ stepper' = [stepper EXCEPT ![c] = NoClient]
        /\ idle' = idle \cup {stepper[c]}
        /\ session' = session
        /\ client' = client \/ client' = [client EXCEPT ![c] = NoClient]
    BY <1>9 DEF RenewAndContinue, LeaveLoop, EndTransaction, EnterRelease, Return
  <2>2. job[c] \in Runs /\ session[job[c]] = client[c]
    BY <1>1, <2>1 DEF CallHas, SessionOfCall, Granted, Inside
  <2> QED
    BY <1>1, <1>2, <2>1, <2>2 DEF TypeOK
<1> QED
  BY <1>4, <1>5, <1>6, <1>7, <1>8, <1>9 DEF Next, Proceed, vars

LEMMA Accounted == Spec => []ClientsAccounted
  BY InitAccounted, AccountedKeeps, Invariance, PTL DEF Spec

\* The clients that are some call's client for the lock.
Held == {k \in Clients : \E c \in Callers : client[c] = k}

\* Any other client in use serves a locked run: in a transaction of the call
\* inside its loop, or as the session of a lock nobody will give back.
Serves(r, k) ==
  \/ session[r] = k
  \/ \E c \in Callers : stepper[c] = k /\ job[c] = r /\ pc[c] = "stepping"

\* A run is served by one client, and that one is locked.
LEMMA OneServes ==
  ASSUME IInv, ClientsAccounted, idle = {}
  PROVE  /\ \A k \in Clients \ Held : \E r \in LockedRuns : Serves(r, k)
         /\ \A r \in Runs, k, l \in Clients \ Held : Serves(r, k) /\ Serves(r, l) => k = l
         /\ \A c \in Callers : pc[c] = "queued" =>
              job[c] \in LockedRuns /\ \A k \in Clients \ Held : ~Serves(job[c], k)
<1> USE NullAssumption
<1>1. /\ TypeOK /\ CallHas
      /\ \A c \in Callers : pc[c] \in Granted => session[job[c]] = client[c]
  BY DEF IInv, SessionOfCall
<1>2. ASSUME NEW c \in Callers, pc[c] \in Inside
      PROVE  job[c] \in LockedRuns /\ session[job[c]] \in Held
  <2>1. job[c] \in Runs /\ client[c] \in Clients /\ session[job[c]] = client[c]
    BY <1>1, <1>2 DEF TypeOK, CallHas, Granted, Inside
  <2> QED
    BY <2>1 DEF LockedRuns, Held
<1>3. ASSUME NEW k \in Clients \ Held
      PROVE  \E r \in LockedRuns : Serves(r, k)
  <2>1. CASE \E c \in Callers : k = stepper[c]
    <3>1. PICK c \in Callers : k = stepper[c]
      BY <2>1
    <3>2. pc[c] = "stepping"
      BY <1>1, <3>1 DEF CallHas
    <3> QED
      BY <1>2, <3>1, <3>2 DEF Serves, Inside
  <2>2. CASE \E r \in Runs : session[r] = k
    BY <2>2 DEF Serves, LockedRuns
  <2> QED
    BY <2>1, <2>2 DEF ClientsAccounted, Held
<1>4. ASSUME NEW r \in Runs, NEW k \in Clients \ Held, NEW l \in Clients \ Held,
             Serves(r, k), Serves(r, l)
      PROVE  k = l
  <2>1. (\E c \in Callers : job[c] = r /\ pc[c] = "stepping") => session[r] \in Held
    BY <1>2 DEF Inside
  <2>2. \A c, d \in Callers :
          pc[c] = "stepping" /\ pc[d] = "stepping" /\ job[c] = job[d] => c = d
    BY OneGranted DEF Granted, Inside
  <2> QED
    BY <1>4, <2>1, <2>2 DEF Serves
<1>5. ASSUME NEW c \in Callers, pc[c] = "queued"
      PROVE  job[c] \in LockedRuns /\ \A k \in Clients \ Held : ~Serves(job[c], k)
  <2>1. job[c] \in LockedRuns /\ session[job[c]] \in Held
    BY <1>2, <1>5 DEF Inside
  <2>2. \A d \in Callers : ~(job[d] = job[c] /\ pc[d] = "stepping")
    BY <1>5, OneGranted DEF Granted, Inside
  <2> QED
    BY <2>1, <2>2 DEF Serves
<1> QED
  BY <1>3, <1>4, <1>5

\* When the pool is empty and a call waits, some call has no client or some
\* locked run no transaction: the calls and the locked runs outnumber the clients.
LEMMA WaitingIsCounted ==
  ASSUME IsFiniteSet(Runs), IsFiniteSet(Callers),
         IInv, ClientsAccounted, queue # <<>>, idle = {}
  PROVE  Cardinality(Clients) < Cardinality(Callers) + Cardinality(LockedRuns)
<1> DEFINE h == Head(queue)
           Rest == Clients \ Held
<1>1. h \in Callers /\ pc[h] \in {"connecting", "queued"}
  BY HeadWaits DEF IInv
<1>2. LockedRuns \subseteq Runs /\ IsFiniteSet(LockedRuns)
  BY FS_Subset DEF LockedRuns
<1>3. /\ Cardinality(Callers) \in Nat /\ Cardinality(LockedRuns) \in Nat
      /\ Cardinality(Callers \ {h}) = Cardinality(Callers) - 1 /\ IsFiniteSet(Callers \ {h})
  BY <1>1, <1>2, FS_CardinalityType, FS_RemoveElement
<1> HIDE DEF h
<1>4. ASSUME NEW T \in SUBSET LockedRuns,
             \A k \in Rest : \E r \in T : Serves(r, k)
      PROVE  IsFiniteSet(Rest) /\ Cardinality(Rest) <= Cardinality(T)
  <2> DEFINE f == [k \in Rest |-> CHOOSE r \in T : Serves(r, k)]
  <2>1. \A k \in Rest : f[k] \in T /\ Serves(f[k], k)
    BY <1>4
  <2>2. \A k, l \in Rest : f[k] = f[l] => k = l
    BY <1>2, <2>1, OneServes
  <2>3. f \in Injection(Rest, T)
    BY <2>1, <2>2 DEF Injection, IsInjective
  <2>4. IsFiniteSet(T)
    BY <1>2, FS_Subset
  <2> HIDE DEF f, Rest
  <2> QED
    BY <2>3, <2>4, FS_Injection
<1>5. ASSUME NEW C \in SUBSET Callers, \A k \in Held : \E c \in C : client[c] = k
      PROVE  IsFiniteSet(Held) /\ Cardinality(Held) <= Cardinality(C)
  <2> DEFINE f == [k \in Held |-> CHOOSE c \in C : client[c] = k]
  <2>1. \A k \in Held : f[k] \in C /\ client[f[k]] = k
    BY <1>5
  <2>2. \A k, l \in Held : f[k] = f[l] => k = l
    BY <2>1
  <2>3. f \in Injection(Held, C)
    BY <2>1, <2>2 DEF Injection, IsInjective
  <2>4. IsFiniteSet(C)
    BY FS_Subset
  <2> HIDE DEF f
  <2> QED
    BY <2>3, <2>4, FS_Injection
<1>6. \A k \in Held : \E c \in Callers : client[c] = k
  BY DEF Held
<1>7. /\ IsFiniteSet(Held) /\ Cardinality(Held) <= Cardinality(Callers)
      /\ IsFiniteSet(Rest) /\ Cardinality(Rest) <= Cardinality(LockedRuns)
  <2>1. \A k \in Rest : \E r \in LockedRuns : Serves(r, k)
    BY OneServes
  <2> HIDE DEF Rest
  <2> QED
    BY <1>4, <1>5, <1>6, <2>1
<1>8. Cardinality(Held) + Cardinality(Rest) = Cardinality(Clients)
  <2>1. Held \cup Rest = Clients /\ Held \cap Rest = {}
    BY DEF Held
  <2>2. Cardinality(Held) \in Nat /\ Cardinality(Rest) \in Nat /\ Cardinality({}) = 0
    BY <1>7, FS_CardinalityType, FS_EmptySet
  <2> HIDE DEF Rest
  <2>3. Cardinality(Held \cup Rest) = Cardinality(Held) + Cardinality(Rest) - Cardinality(Held \cap Rest)
    BY <1>7, FS_Union
  <2>4. /\ Cardinality(Held \cup Rest) = Cardinality(Clients)
        /\ Cardinality(Held \cap Rest) = 0
    BY <2>1, <2>2
  <2> QED
    BY <2>2, <2>3, <2>4
<1>9. Cardinality(Held) \in Nat /\ Cardinality(Rest) \in Nat
  BY <1>7, FS_CardinalityType
<1>10. CASE pc[h] = "connecting"
  <2>1. client[h] = NoClient
    BY <1>1, <1>10 DEF IInv, CallHas
  <2>2. \A k \in Held : \E c \in Callers \ {h} : client[c] = k
    BY <2>1, NullAssumption DEF Held
  <2>3. Cardinality(Held) <= Cardinality(Callers) - 1
    BY <1>3, <1>5, <2>2
  <2> HIDE DEF Rest
  <2> QED
    BY <1>3, <1>7, <1>8, <1>9, <2>3
<1>11. CASE pc[h] = "queued"
  <2>1. job[h] \in LockedRuns /\ \A k \in Rest : \E r \in LockedRuns \ {job[h]} : Serves(r, k)
    <3>1. /\ \A k \in Rest : \E r \in LockedRuns : Serves(r, k)
          /\ job[h] \in LockedRuns /\ \A k \in Rest : ~Serves(job[h], k)
      BY <1>1, <1>11, OneServes
    <3> QED
      BY <3>1
  <2> HIDE DEF Rest
  <2>2. Cardinality(Rest) <= Cardinality(LockedRuns \ {job[h]})
    BY <1>4, <2>1
  <2>3. Cardinality(LockedRuns \ {job[h]}) = Cardinality(LockedRuns) - 1
    BY <1>2, <2>1, FS_RemoveElement
  <2> QED
    BY <1>3, <1>7, <1>8, <1>9, <2>2, <2>3
<1> QED
  BY <1>1, <1>10, <1>11

\* However locks are asked for, lost and given back, a call that waits in
\* pool.connect finds an idle client at once while calls and locked runs together
\* are no more than the pool's clients (postgres-advisory-lock.ts 48-107,
\* orchestrator.ts 110-169).
THEOREM PoolServesWaiters ==
  ASSUME IsFiniteSet(Runs), IsFiniteSet(Callers), IsFiniteSet(Clients)
  PROVE  Spec => []ClientForWaiter
<1>1. IInv /\ ClientsAccounted => ClientForWaiter
  <2> SUFFICES ASSUME IInv, ClientsAccounted, queue # <<>>, idle = {},
                      Cardinality(Callers) + Cardinality(LockedRuns) <= Cardinality(Clients)
               PROVE  FALSE
    BY DEF ClientForWaiter
  <2>1. Cardinality(Clients) < Cardinality(Callers) + Cardinality(LockedRuns)
    BY WaitingIsCounted
  <2>2. Cardinality(Clients) \in Nat /\ Cardinality(Callers) \in Nat
    BY FS_CardinalityType
  <2>3. Cardinality(LockedRuns) \in Nat
    BY FS_Subset, FS_CardinalityType DEF LockedRuns
  <2> QED
    BY <2>1, <2>2, <2>3
<1> QED
  BY <1>1, Invariance, Accounted, PTL

-----------------------------------------------------------------------------
(* Locks without the overlap.                                              *)

\* A lock is lost in one way only: the deletion of the lease hits a call that
\* has recorded its own meanwhile.
LEMMA LocksStayKept ==
  ASSUME IInv, ReleaseFinishesFirst, LocksKept, [Next]_vars
  PROVE  LocksKept'
<1>1. /\ pc \in [Callers -> CallStates] /\ job \in [Callers -> Runs \cup {NoRun}]
      /\ client \in [Callers -> Clients \cup {NoClient}]
      /\ lease \in [Runs -> Callers \cup {NoCaller}]
      /\ session \in [Runs -> Clients \cup {NoClient}]
      /\ \A c \in Callers : pc[c] # "away" => job[c] \in Runs
  BY DEF IInv, TypeOK, CallHas
<1>2. ASSUME session' = session,
             \A d \in Callers : pc[d] \in Granted =>
               pc'[d] \in Granted /\ job'[d] = job[d] /\ client'[d] = client[d],
             \A d \in Callers : pc'[d] \in Inside =>
               pc[d] \in Inside /\ job'[d] = job[d] /\ lease'[job[d]] = lease[job[d]]
      PROVE  LocksKept'
  BY <1>2 DEF LocksKept, ReleasedAfterReturn
<1>3. ASSUME NEW c \in Callers, Refused(c) \/ Denied(c) PROVE LocksKept'
  BY <1>1, <1>2, <1>3
     DEF Refused, Denied, AttemptFailed, Return, Goto, Granted, Inside, CallStates
<1>4. ASSUME NEW c \in Callers, AskForClient(c) PROVE LocksKept'
  BY <1>1, <1>2, <1>4 DEF AskForClient, Goto, Granted, Inside
<1>5. ASSUME NEW c \in Callers, RenewAndContinue(c) PROVE LocksKept'
  BY <1>1, <1>2, <1>5 DEF RenewAndContinue, EndTransaction, Goto, Granted, Inside
<1>6. ASSUME NEW c \in Callers, LeaveLoop(c) PROVE LocksKept'
  <2>1. pc[c] = "stepping" /\ lease[job[c]] = c
    BY <1>6 DEF LeaveLoop, EndTransaction, LocksKept, Inside
  <2> QED
    BY <1>1, <1>2, <1>6, <2>1
       DEF LeaveLoop, EndTransaction, EnterRelease, Goto, Granted, Inside
<1>7. ASSUME NEW c \in Callers, DropLease(c) PROVE LocksKept'
  <2>1. pc[c] = "unlocked" /\ lease' = [lease EXCEPT ![job[c]] = NoCaller]
    BY <1>7 DEF DropLease
  <2>2. \A d \in Callers : pc[d] \in Inside => lease'[job[d]] = lease[job[d]]
    BY <1>1, <2>1 DEF ReleaseFinishesFirst, Inside
  <2> QED
    BY <1>1, <1>2, <1>7, <2>1, <2>2 DEF DropLease, Return, Goto, Granted, Inside
<1>8. ASSUME NEW c \in Callers, NEW r \in Runs, Call(c, r) PROVE LocksKept'
  BY <1>1, <1>2, <1>8 DEF Call, Goto, Granted, Inside
<1>9. ASSUME NEW k \in Clients, Connect(k) PROVE LocksKept'
  <2>1. Head(queue) \in Callers /\ pc[Head(queue)] \in {"connecting", "queued"}
    BY <1>9, HeadWaits DEF Connect, IInv
  <2> QED
    BY <1>1, <1>2, <1>9, <2>1 DEF Connect, Goto, Granted, Inside
<1>10. ASSUME NEW c \in Callers, TryLock(c) PROVE LocksKept'
  <2>1. pc[c] = "trying" /\ job[c] \in Runs /\ UNCHANGED <<job, client, lease>>
    BY <1>1, <1>10 DEF TryLock
  <2>2. CASE session[job[c]] = NoClient
    <3>1. /\ session' = [session EXCEPT ![job[c]] = client[c]]
          /\ pc' = [pc EXCEPT ![c] = "granted"]
      BY <1>10, <2>2 DEF TryLock, Goto
    <3> QED
      BY <1>1, <2>1, <3>1 DEF LocksKept, ReleasedAfterReturn, Granted, Inside
  <2>3. CASE session[job[c]] # NoClient
    BY <1>1, <1>2, <1>10, <2>1, <2>3 DEF TryLock, Goto, Granted, Inside
  <2> QED
    BY <2>2, <2>3
<1>11. ASSUME NEW c \in Callers, RecordLease(c) PROVE LocksKept'
  <2>1. /\ pc[c] = "granted" /\ job[c] \in Runs /\ UNCHANGED <<job, client, session>>
        /\ lease' = [lease EXCEPT ![job[c]] = c] /\ pc' = [pc EXCEPT ![c] = "queued"]
    BY <1>1, <1>11 DEF RecordLease, Goto
  <2>2. \A d \in Callers : pc[d] \in Inside => job[d] # job[c]
    BY <2>1, OneGranted DEF Granted, Inside
  <2> QED
    BY <1>1, <2>1, <2>2 DEF LocksKept, ReleasedAfterReturn, Granted, Inside
<1>12. ASSUME NEW c \in Callers, Unlock(c) PROVE LocksKept'
  <2>1. /\ pc[c] = "unlocking" /\ job[c] \in Runs /\ UNCHANGED <<job, client, lease>>
        /\ pc' = [pc EXCEPT ![c] = "unlocked"]
    BY <1>1, <1>12 DEF Unlock, Goto
  <2>2. session[job[c]] = client[c]
    BY <2>1 DEF IInv, SessionOfCall, Granted
  <2>3. session' = [session EXCEPT ![job[c]] = NoClient]
    BY <1>12, <2>2 DEF Unlock
  <2> QED
    BY <1>1, <2>1, <2>3 DEF LocksKept, ReleasedAfterReturn, Granted, Inside
<1>13. CASE UNCHANGED vars
  BY <1>2, <1>13 DEF vars
<1> QED
  BY <1>3, <1>4, <1>5, <1>6, <1>7, <1>8, <1>9, <1>10, <1>11, <1>12, <1>13 DEF Next, Proceed

LEMMA KeptWithoutOverlap == Spec /\ []ReleaseFinishesFirst => []LocksKept
<1>1. Init => LocksKept
  BY DEF Init, LocksKept, ReleasedAfterReturn, Inside
<1>2. IInv /\ ReleaseFinishesFirst /\ LocksKept /\ [Next]_vars => LocksKept'
  BY LocksStayKept
<1> QED
  BY <1>1, <1>2, Invariance, PTL DEF Spec

\* An advisory lock stays behind only after a call was let into its loop between
\* another one's unlock query and the deletion of the lease
\* (postgres-advisory-lock.ts 87-108).
THEOREM LocksLeakByOverlapOnly == Spec => LeaksByOverlapOnly
<1>1. LocksKept => ReleasedAfterReturn
  BY DEF LocksKept
<1> QED
  BY <1>1, KeptWithoutOverlap, PTL DEF LeaksByOverlapOnly

\* Calls that keep their locks lock no more runs than there are calls.
LEMMA LockedByCalls ==
  ASSUME IsFiniteSet(Callers), LocksKept
  PROVE  IsFiniteSet(LockedRuns) /\ Cardinality(LockedRuns) <= Cardinality(Callers)
<1> DEFINE f == [r \in LockedRuns |-> CHOOSE c \in Callers : pc[c] \in Granted /\ job[c] = r]
<1>1. \A r \in LockedRuns : f[r] \in Callers /\ job[f[r]] = r
  BY DEF LocksKept, ReleasedAfterReturn, LockedRuns
<1>2. f \in Injection(LockedRuns, Callers)
  BY <1>1 DEF Injection, IsInjective
<1> HIDE DEF f
<1> QED
  BY <1>2, FS_Injection

\* A pool of two clients for each concurrent call is enough: without that overlap
\* every call finds a client when it asks (db.ts 10-28, orchestrator.ts 110-169).
THEOREM TwoClientsPerCallAreEnough ==
  ASSUME IsFiniteSet(Runs), IsFiniteSet(Callers), IsFiniteSet(Clients)
  PROVE  Spec => NobodyWaits
<1> DEFINE Enough == 2 * Cardinality(Callers) <= Cardinality(Clients)
           Served == queue # <<>> => idle # {}
<1>1. LocksKept /\ ClientForWaiter => (Enough => Served)
  <2> SUFFICES ASSUME LocksKept, ClientForWaiter, Enough, queue # <<>> PROVE idle # {}
    OBVIOUS
  <2>1. Cardinality(LockedRuns) <= Cardinality(Callers) /\ Cardinality(LockedRuns) \in Nat
    BY LockedByCalls, FS_CardinalityType
  <2>2. Cardinality(Clients) \in Nat /\ Cardinality(Callers) \in Nat
    BY FS_CardinalityType
  <2>3. Cardinality(Callers) + Cardinality(LockedRuns) <= Cardinality(Clients)
    BY <2>1, <2>2
  <2> QED
    BY <2>3 DEF ClientForWaiter
<1>2. Enough => []Enough
  OBVIOUS
<1> HIDE DEF Enough, Served
<1>3. Spec => []ClientForWaiter
  BY PoolServesWaiters
<1>4. Spec /\ []ReleaseFinishesFirst /\ []Enough => []Served
  BY <1>1, <1>3, KeptWithoutOverlap, PTL
<1> QED
  BY <1>2, <1>4, PTL DEF NobodyWaits, Enough, Served

=============================================================================
