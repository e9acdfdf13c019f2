--------------------------- MODULE ChildRunsProofs ---------------------------
(***************************************************************************)
(* Proofs about ChildRuns, for a chain of any depth, any number of clients *)
(* that start it and any number of control requests.                       *)
(***************************************************************************)
EXTENDS ChildRuns, TLAPS

LEMMA Chain ==
  /\ Depth \in Nat /\ Depth >= 2 /\ MaxControls \in Nat
  /\ 1 \in Runs /\ Feedback \in Runs /\ Feedback - 1 \in Runs
  /\ Runs \subseteq Nat /\ 0 \notin Runs
  BY ChainAssumption DEF Runs, Feedback

LEMMA NotStartedApart == NotStarted \in Values /\ NotStarted \notin Lifecycles
  BY DEF NotStarted, Lifecycles, Values

LEMMA NothingType == Nothing \in [Runs -> Values] /\ \A r \in Runs : Nothing[r] = NotStarted
  BY NotStartedApart DEF Nothing

\* What the types say of one driver.
LEMMA DriverTypes ==
  ASSUME IInv, NEW d \in Runs
  PROVE  /\ snap[d] \in [Runs -> Values] /\ writes[d] \in [Runs -> Values]
         /\ held[d] \in SUBSET Runs
         /\ at[d] # 0 => /\ at[d] \in Runs /\ d <= at[d]
                         /\ driver[d] = "step" /\ key = "committed"
         /\ at[d] # 0 /\ at[d] # d => at[d] - 1 \in Runs /\ d <= at[d] - 1
<1>1. /\ snap[d] \in [Runs -> Values] /\ writes[d] \in [Runs -> Values]
      /\ held[d] \in SUBSET Runs
      /\ at[d] \in 0..Depth
      /\ driver[d] = "step" <=> at[d] >= d
      /\ driver \in [Runs -> {"idle", "ready", "step"}]
  BY DEF IInv, TypeOK
<1>2. at[d] # 0 => d <= at[d]
  BY DEF IInv, ReadsHold
<1>3. driver[d] # "idle" => key = "committed"
  BY DEF IInv, NothingBeforeStart
<1> QED
  BY <1>1, <1>2, <1>3, Chain DEF Runs

-----------------------------------------------------------------------------
(* Steps that leave the committed rows alone.                              *)

\* Nothing that the invariant says of rows and requests changes.
LEMMA RowsKept ==
  ASSUME IInv,
         UNCHANGED <<row, request, accepted, cancel, startVars, controls>>,
         wanted' \subseteq Runs,
         driver' \in [Runs -> {"idle", "ready", "step"}],
         at' \in [Runs -> 0..Depth],
         \A d \in Runs : driver'[d] = "step" <=> at'[d] >= d,
         phase' \in [Runs -> {"entered", "checked", "parking", "ended"}],
         snap' \in [Runs -> [Runs -> Values]],
         writes' \in [Runs -> [Runs -> Values]],
         held' \in [Runs -> SUBSET Runs],
         lost' \in BOOLEAN,
         key = "committed",
         \A d \in Runs, q \in Runs :
           "completed" \in {snap'[d][q], writes'[d][q]} => accepted = 1,
         \A d \in Runs, q \in Runs : writes'[d][q] # NotStarted => q \in held'[d],
         cancel.run # 0 => \A d \in Runs : cancel.run \notin held'[d],
         ReadsHold'
  PROVE  IInv'
<1>1. TypeOK'
  BY DEF IInv, TypeOK, startVars
<1>2. NothingBeforeStart' /\ KeyTells'
  BY DEF IInv, NothingBeforeStart, KeyTells, startVars
<1>3. CompletedIsAnswered'
  <2>1. accepted' = IF request' = "responded" THEN 1 ELSE 0
    BY DEF IInv, CompletedIsAnswered
  <2>2. \A q \in Runs : row'[q] = "completed" => accepted' = 1
    BY DEF IInv, CompletedIsAnswered
  <2> QED
    BY <2>1, <2>2 DEF CompletedIsAnswered
<1>4. LocksHold'
  BY DEF IInv, LocksHold, CanCancel
<1> QED
  BY <1>1, <1>2, <1>3, <1>4 DEF IInv

\* The part of one driver becomes the given one, and nothing else changes but
\* who waits for a lock.
DriverBecomes(d, next, where, how, reads, written, locks) ==
  /\ UNCHANGED <<row, request, accepted, cancel, startVars, controls>>
  /\ wanted' \subseteq Runs /\ lost' \in BOOLEAN
  /\ driver' = [driver EXCEPT ![d] = next]
  /\ at' = [at EXCEPT ![d] = where]
  /\ phase' = [phase EXCEPT ![d] = how]
  /\ snap' = [snap EXCEPT ![d] = reads]
  /\ writes' = [writes EXCEPT ![d] = written]
  /\ held' = [held EXCEPT ![d] = locks]

\* That part fits the invariant.
DriverFits(d, next, where, how, reads, written, locks) ==
  /\ key = "committed"
  /\ next \in {"idle", "ready", "step"}
  /\ where \in 0..Depth
  /\ where # 0 => d <= where
  /\ next = "step" <=> where # 0
  /\ how \in {"entered", "checked", "parking", "ended"}
  /\ reads \in [Runs -> Values]
  /\ written \in [Runs -> Values]
  /\ locks \in SUBSET Runs
  /\ \A q \in Runs : "completed" \in {reads[q], written[q]} => accepted = 1
  /\ \A q \in Runs : written[q] # NotStarted => q \in locks
  /\ cancel.run # 0 => cancel.run \notin locks
  /\ \A q \in Runs : reads[q] # NotStarted => written[q] # NotStarted \/ row[q] # NotStarted
  /\ \A q \in Runs : d <= q /\ q < where => reads[q] = "running"
  /\ where # 0 /\ how # "entered" => where # Feedback /\ reads[where] = "running"

LEMMA DriverKeeps ==
  ASSUME IInv, NEW d \in Runs,
         NEW next, NEW where, NEW how, NEW reads, NEW written, NEW locks,
         DriverBecomes(d, next, where, how, reads, written, locks),
         DriverFits(d, next, where, how, reads, written, locks)
  PROVE  IInv'
<1> USE DEF DriverBecomes, DriverFits
<1>1. /\ driver \in [Runs -> {"idle", "ready", "step"}]
      /\ at \in [Runs -> 0..Depth]
      /\ phase \in [Runs -> {"entered", "checked", "parking", "ended"}]
      /\ snap \in [Runs -> [Runs -> Values]]
      /\ writes \in [Runs -> [Runs -> Values]]
      /\ held \in [Runs -> SUBSET Runs]
      /\ \A e \in Runs : driver[e] = "step" <=> at[e] >= e
  BY DEF IInv, TypeOK
<1>2. \A e \in Runs : driver'[e] = "step" <=> at'[e] >= e
  <2>1. next = "step" <=> where >= d
    BY Chain DEF Runs
  <2> QED
    BY <1>1, <2>1
<1>3. \A e \in Runs, q \in Runs : "completed" \in {snap'[e][q], writes'[e][q]} => accepted = 1
  <2>1. \A e \in Runs, q \in Runs : "completed" \in {snap[e][q], writes[e][q]} => accepted = 1
    BY DEF IInv, CompletedIsAnswered
  <2> QED
    BY <1>1, <2>1
<1>4. /\ \A e \in Runs, q \in Runs : writes'[e][q] # NotStarted => q \in held'[e]
      /\ cancel.run # 0 => \A e \in Runs : cancel.run \notin held'[e]
  BY <1>1 DEF IInv, LocksHold
<1>5. ReadsHold'
  <2> SUFFICES ASSUME NEW e \in Runs
               PROVE  /\ at'[e] # 0 => e <= at'[e]
                      /\ \A q \in Runs : snap'[e][q] # NotStarted => View(e, q)' # NotStarted
                      /\ \A q \in Runs : e <= q /\ q < at'[e] => snap'[e][q] = "running"
                      /\ at'[e] # 0 /\ phase'[e] # "entered" =>
                           at'[e] # Feedback /\ snap'[e][at'[e]] = "running"
    BY DEF ReadsHold, Read, Feedback
  <2>1. CASE e = d
    BY <1>1, <2>1 DEF View
  <2>2. CASE e # d
    <3>1. /\ at'[e] = at[e] /\ phase'[e] = phase[e] /\ snap'[e] = snap[e]
          /\ writes'[e] = writes[e] /\ row' = row
      BY <1>1, <2>2
    <3> QED
      BY <3>1 DEF IInv, ReadsHold, View, Read
  <2> QED
    BY <2>1, <2>2
<1> QED
  BY <1>1, <1>2, <1>3, <1>4, <1>5, RowsKept

LEMMA AcquireKeeps ==
  ASSUME IInv, NEW d \in Runs, Acquire(d) \/ GiveUp(d)
  PROVE  IInv'
<1>1. /\ key = "committed"
      /\ driver \in [Runs -> {"idle", "ready", "step"}]
      /\ at \in [Runs -> 0..Depth]
      /\ wanted' \subseteq Runs /\ lost' \in BOOLEAN
      /\ \A e \in Runs : driver[e] = "step" <=> at[e] >= e
  BY DEF Acquire, GiveUp, IInv, TypeOK, NothingBeforeStart
<1>2. /\ UNCHANGED <<row, request, accepted, cancel, startVars, controls>>
      /\ UNCHANGED <<at, phase, snap, writes, held>>
  BY DEF Acquire, GiveUp, stepVars
<1>3. /\ driver' \in [Runs -> {"idle", "ready", "step"}]
      /\ \A e \in Runs : driver'[e] = "step" <=> at'[e] >= e
  BY <1>1, <1>2 DEF Acquire, GiveUp
<1>4. ReadsHold'
  BY <1>2 DEF IInv, ReadsHold, View, Read, Feedback
<1>5. /\ phase' \in [Runs -> {"entered", "checked", "parking", "ended"}]
      /\ snap' \in [Runs -> [Runs -> Values]]
      /\ writes' \in [Runs -> [Runs -> Values]]
      /\ held' \in [Runs -> SUBSET Runs]
  BY <1>2 DEF IInv, TypeOK
<1>6. /\ \A e \in Runs, q \in Runs : "completed" \in {snap'[e][q], writes'[e][q]} => accepted = 1
      /\ \A e \in Runs, q \in Runs : writes'[e][q] # NotStarted => q \in held'[e]
      /\ cancel.run # 0 => \A e \in Runs : cancel.run \notin held'[e]
  BY <1>2 DEF IInv, CompletedIsAnswered, LocksHold
<1>7. at' \in [Runs -> 0..Depth]
  BY <1>1, <1>2
<1> QED
  BY <1>1, <1>2, <1>3, <1>4, <1>5, <1>6, <1>7, RowsKept

LEMMA BeginStepKeeps ==
  ASSUME IInv, NEW d \in Runs, BeginStep(d)
  PROVE  IInv'
<1> DEFINE reads == [snap[d] EXCEPT ![d] = row[d]]
<1>1. /\ key = "committed"
      /\ row \in [Runs -> Values] /\ snap \in [Runs -> [Runs -> Values]]
      /\ writes \in [Runs -> [Runs -> Values]] /\ held \in [Runs -> SUBSET Runs]
      /\ wanted' \subseteq Runs /\ lost' \in BOOLEAN
  BY DEF BeginStep, IInv, TypeOK, NothingBeforeStart
<1>2. /\ reads \in [Runs -> Values]
      /\ reads[d] = row[d]
      /\ \A q \in Runs \ {d} : reads[q] = snap[d][q]
  BY <1>1
<1>3. /\ driver' = [driver EXCEPT ![d] = "step"]
      /\ at' = [at EXCEPT ![d] = d]
      /\ phase' = [phase EXCEPT ![d] = "entered"]
      /\ snap' = [snap EXCEPT ![d] = reads]
      /\ writes' = [writes EXCEPT ![d] = writes[d]]
      /\ held' = [held EXCEPT ![d] = held[d]]
      /\ UNCHANGED <<row, request, accepted, cancel, startVars, controls>>
  BY <1>1 DEF BeginStep
<1>4. \A q \in Runs : "completed" \in {reads[q], writes[d][q]} => accepted = 1
  BY <1>2 DEF IInv, CompletedIsAnswered
<1>5. /\ \A q \in Runs : writes[d][q] # NotStarted => q \in held[d]
      /\ cancel.run # 0 => cancel.run \notin held[d]
  BY DEF IInv, LocksHold
<1>6. \A q \in Runs : reads[q] # NotStarted => writes[d][q] # NotStarted \/ row[q] # NotStarted
  BY <1>2 DEF IInv, ReadsHold, View
<1>7. /\ d \in 0..Depth /\ d # 0 /\ d <= d
      /\ \A q \in Runs : ~(d <= q /\ q < d)
      /\ writes[d] \in [Runs -> Values] /\ held[d] \in SUBSET Runs
  BY <1>1, Chain DEF Runs
<1> HIDE DEF reads
<1>8. DriverBecomes(d, "step", d, "entered", reads, writes[d], held[d])
  BY <1>1, <1>3 DEF DriverBecomes
<1>9. DriverFits(d, "step", d, "entered", reads, writes[d], held[d])
  BY <1>1, <1>2, <1>4, <1>5, <1>6, <1>7 DEF DriverFits
<1> QED
  BY <1>8, <1>9, DriverKeeps

\* Rolling back leaves a driver without reads, writes and locks.
LEMMA AbortStepKeeps ==
  ASSUME IInv, NEW d \in Runs, AbortStep(d)
  PROVE  IInv'
<1>1. /\ key = "committed"
      /\ wanted' \subseteq Runs /\ lost' \in BOOLEAN
      /\ UNCHANGED <<row, request, accepted, cancel, startVars, controls>>
  BY DriverTypes DEF AbortStep, IInv, TypeOK
<1>2. /\ driver' = [driver EXCEPT ![d] = "idle"]
      /\ at' = [at EXCEPT ![d] = 0]
      /\ phase' = [phase EXCEPT ![d] = "entered"]
      /\ snap' = [snap EXCEPT ![d] = Nothing]
      /\ writes' = [writes EXCEPT ![d] = Nothing]
      /\ held' = [held EXCEPT ![d] = {}]
  BY DEF AbortStep, EndTransaction
<1>3. /\ \A q \in Runs : Nothing[q] = NotStarted /\ Nothing[q] # "completed"
      /\ \A q \in Runs : ~(d <= q /\ q < 0)
      /\ 0 \in 0..Depth
  BY NothingType, NotStartedApart, Chain DEF Lifecycles, Runs
<1>4. Nothing \in [Runs -> Values] /\ {} \in SUBSET Runs
  BY NothingType
<1>5. DriverBecomes(d, "idle", 0, "entered", Nothing, Nothing, {})
  BY <1>1, <1>2 DEF DriverBecomes
<1>6. DriverFits(d, "idle", 0, "entered", Nothing, Nothing, {})
  BY <1>1, <1>3, <1>4 DEF DriverFits
<1> QED
  BY <1>5, <1>6, DriverKeeps

-----------------------------------------------------------------------------
(* A step's return.                                                        *)

\* What a step may return: what it has read or seen of its run, or a lifecycle
\* that it writes to that run under its row lock.
Returnable(d, written, lifecycle) ==
  /\ at[d] # 0
  /\ lifecycle \in Lifecycles
  /\ lifecycle = "completed" => accepted = 1
  /\ \/ written = writes[d] /\ View(d, at[d]) # NotStarted
     \/ written = Wrote(d, at[d], lifecycle) /\ RowFree(d, at[d])

LEMMA WrittenFacts ==
  ASSUME IInv, NEW d \in Runs, NEW written, NEW lifecycle, Returnable(d, written, lifecycle)
  PROVE  LET locks == held[d] \cup {q \in Runs : written[q] # NotStarted} IN
         /\ written \in [Runs -> Values]
         /\ \A q \in Runs : written[q] = "completed" => accepted = 1
         /\ \A q \in Runs : written[q] # NotStarted => q \in locks
         /\ locks \in SUBSET Runs
         /\ cancel.run # 0 => cancel.run \notin locks
         /\ \A q \in Runs : View(d, q) # NotStarted => written[q] # NotStarted \/ row[q] # NotStarted
         /\ written[at[d]] # NotStarted \/ row[at[d]] # NotStarted
         /\ \A q \in Runs \ {at[d]} : written[q] = writes[d][q]
<1> DEFINE r == at[d]
<1>1. /\ r \in Runs /\ writes[d] \in [Runs -> Values] /\ held[d] \in SUBSET Runs
      /\ lifecycle \in Values /\ lifecycle # NotStarted
  BY DriverTypes, NotStartedApart DEF Returnable, Values
<1>2. /\ \A q \in Runs : writes[d][q] = "completed" => accepted = 1
      /\ \A q \in Runs : writes[d][q] # NotStarted => q \in held[d]
      /\ cancel.run # 0 => cancel.run \notin held[d]
  BY DEF IInv, CompletedIsAnswered, LocksHold
<1>3. CASE written = writes[d] /\ View(d, r) # NotStarted
  BY <1>1, <1>2, <1>3 DEF View
<1>4. CASE written = Wrote(d, r, lifecycle) /\ RowFree(d, r)
  <2>1. /\ written \in [Runs -> Values]
        /\ written[r] = lifecycle
        /\ \A q \in Runs \ {r} : written[q] = writes[d][q]
        /\ cancel.run # r
    BY <1>1, <1>4 DEF Wrote, RowFree
  <2> QED
    BY <1>1, <1>2, <2>1 DEF Returnable, View
<1> QED
  BY <1>3, <1>4 DEF Returnable

\* A child's step goes back to its parent, inside the transaction.
LEMMA InnerReturnKeeps ==
  ASSUME IInv, NEW d \in Runs, NEW written, NEW lifecycle, NEW progressed \in BOOLEAN,
         Returnable(d, written, lifecycle),
         Return(d, written, lifecycle, progressed), UNCHANGED stepUnchanged,
         at[d] # d
  PROVE  IInv'
<1> DEFINE r == at[d]
           ended == lifecycle \in TerminalLifecycles
           where == IF progressed /\ ~ended THEN r ELSE r - 1
           how == CASE ended -> "ended"
                    [] progressed /\ ~ended -> "entered"
                    [] OTHER -> "parking"
           reads == [snap[d] EXCEPT ![r] = lifecycle]
           locks == held[d] \cup {q \in Runs : written[q] # NotStarted}
<1>1. /\ r \in Runs /\ r - 1 \in Runs /\ d <= r - 1
      /\ key = "committed" /\ driver[d] = "step"
      /\ snap[d] \in [Runs -> Values]
      /\ driver \in [Runs -> {"idle", "ready", "step"}]
      /\ snap \in [Runs -> [Runs -> Values]]
      /\ wanted \subseteq Runs /\ lost \in BOOLEAN
      /\ lifecycle \in Values
  BY DriverTypes DEF Returnable, IInv, TypeOK, Values
<1>2. /\ driver' = [driver EXCEPT ![d] = "step"]
      /\ at' = [at EXCEPT ![d] = where]
      /\ phase' = [phase EXCEPT ![d] = how]
      /\ snap' = [snap EXCEPT ![d] = reads]
      /\ writes' = [writes EXCEPT ![d] = written]
      /\ held' = [held EXCEPT ![d] = locks]
      /\ UNCHANGED <<row, request, accepted, cancel, startVars, controls, wanted, lost>>
  BY <1>1 DEF Return, stepUnchanged
<1>3. /\ where \in 0..Depth /\ where # 0 /\ d <= where /\ where <= r
      /\ how \in {"entered", "checked", "parking", "ended"}
      /\ how # "entered" => where = r - 1
  BY <1>1, Chain DEF Runs
<1>4. /\ reads \in [Runs -> Values]
      /\ reads[r] = lifecycle
      /\ \A q \in Runs \ {r} : reads[q] = snap[d][q]
  BY <1>1
<1>5. \A q \in Runs : d <= q /\ q < r => reads[q] = "running"
  BY <1>1, <1>4, Chain DEF IInv, ReadsHold
<1>6. \A q \in Runs : d <= q /\ q < where => reads[q] = "running"
  BY <1>3, <1>5, <1>1, Chain DEF Runs
<1>7. how # "entered" => where # Feedback /\ reads[where] = "running"
  BY <1>1, <1>3, <1>5, Chain DEF Runs, Feedback
<1>8. \A q \in Runs : reads[q] # NotStarted => written[q] # NotStarted \/ row[q] # NotStarted
  BY <1>4, WrittenFacts DEF IInv, ReadsHold
<1>9. \A q \in Runs : "completed" \in {reads[q], written[q]} => accepted = 1
  <2>1. \A q \in Runs : snap[d][q] = "completed" => accepted = 1
    BY DEF IInv, CompletedIsAnswered
  <2>2. lifecycle = "completed" => accepted = 1
    BY DEF Returnable
  <2>3. \A q \in Runs : written[q] = "completed" => accepted = 1
    BY WrittenFacts
  <2> HIDE DEF reads
  <2> QED
    BY <1>4, <2>1, <2>2, <2>3
<1>10. /\ written \in [Runs -> Values]
       /\ locks \in SUBSET Runs
       /\ \A q \in Runs : written[q] # NotStarted => q \in locks
       /\ cancel.run # 0 => cancel.run \notin locks
  BY WrittenFacts
<1> HIDE DEF r, ended, where, how, reads, locks
<1>11. DriverBecomes(d, "step", where, how, reads, written, locks)
  BY <1>1, <1>2 DEF DriverBecomes
<1>12. DriverFits(d, "step", where, how, reads, written, locks)
  BY <1>1, <1>3, <1>4, <1>6, <1>7, <1>8, <1>9, <1>10 DEF DriverFits
<1> QED
  BY <1>11, <1>12, DriverKeeps

\* The step of the driver's own run commits: the rows it has locked become what
\* it has written.
LEMMA CommitKeeps ==
  ASSUME IInv, NEW d \in Runs, NEW written, NEW lifecycle, NEW progressed \in BOOLEAN,
         Returnable(d, written, lifecycle),
         Return(d, written, lifecycle, progressed), UNCHANGED stepUnchanged,
         at[d] = d
  PROVE  IInv'
<1> DEFINE next == IF progressed /\ lifecycle \notin TerminalLifecycles THEN "ready" ELSE "idle"
<1>1. /\ row' = [q \in Runs |-> IF written[q] # NotStarted THEN written[q] ELSE row[q]]
      /\ request' = RequestAfter(written)
      /\ driver' = [driver EXCEPT ![d] = next]
      /\ at' = [at EXCEPT ![d] = 0]
      /\ phase' = [phase EXCEPT ![d] = "entered"]
      /\ snap' = [snap EXCEPT ![d] = Nothing]
      /\ writes' = [writes EXCEPT ![d] = Nothing]
      /\ held' = [held EXCEPT ![d] = {}]
      /\ UNCHANGED <<accepted, wanted, cancel, startVars, controls, lost>>
      /\ next \in {"ready", "idle"}
  BY DEF Return, EndTransaction, stepUnchanged
<1> HIDE DEF next
<1>2. /\ written \in [Runs -> Values]
      /\ \A q \in Runs : written[q] = "completed" => accepted = 1
      /\ cancel.run # 0 => \A q \in Runs : written[q] # NotStarted => q # cancel.run
  BY WrittenFacts
<1>3. /\ row \in [Runs -> Values] /\ key = "committed"
      /\ row' \in [Runs -> Values]
      /\ \A q \in Runs : row[q] # NotStarted => row'[q] # NotStarted
      /\ \A q \in Runs : row'[q] \in {row[q], written[q]}
  BY <1>1, <1>2, DriverTypes DEF Returnable, IInv, TypeOK
<1>4. request' = "responded" <=> request = "responded"
  BY <1>1 DEF RequestAfter
<1>5. request' \in {"none", "awaiting_response", "responded", "cancelled"}
  BY <1>1 DEF RequestAfter, IInv, TypeOK
<1>6. TypeOK'
  <2>1. /\ driver' \in [Runs -> {"idle", "ready", "step"}]
        /\ phase' \in [Runs -> {"entered", "checked", "parking", "ended"}]
    BY <1>1 DEF IInv, TypeOK
  <2>4. at' \in [Runs -> 0..Depth]
    BY <1>1, Chain DEF IInv, TypeOK
  <2>5. /\ snap' \in [Runs -> [Runs -> Values]]
        /\ writes' \in [Runs -> [Runs -> Values]]
    BY <1>1, NothingType DEF IInv, TypeOK
  <2>6. held' \in [Runs -> SUBSET Runs]
    BY <1>1 DEF IInv, TypeOK
  <2>2. \A e \in Runs : driver'[e] = "step" <=> at'[e] >= e
    <3>1. ~(0 >= d)
      BY Chain DEF Runs
    <3> QED
      BY <1>1, <3>1 DEF IInv, TypeOK
  <2>3. /\ accepted' \in Nat /\ wanted' \subseteq Runs
        /\ cancel' \in [run : 0..Depth, seen : [Runs -> Values]]
        /\ start' \in [Starters -> {"idle", "reserved", "created", "existing", "unknown", "failed"}]
        /\ key' \in {"free", "reserved", "committed"}
        /\ controls' \in 0..MaxControls /\ lost' \in BOOLEAN
    BY <1>1 DEF IInv, TypeOK, startVars
  <2> QED
    BY <1>3, <1>5, <2>1, <2>2, <2>3, <2>4, <2>5, <2>6 DEF TypeOK
<1>7. NothingBeforeStart' /\ KeyTells'
  BY <1>1, <1>3, Chain DEF IInv, NothingBeforeStart, KeyTells, startVars
<1>8. CompletedIsAnswered'
  <2>1. accepted' = IF request' = "responded" THEN 1 ELSE 0
    BY <1>1, <1>4 DEF IInv, CompletedIsAnswered
  <2>2. \A q \in Runs : row'[q] = "completed" => accepted' = 1
    BY <1>1, <1>2, <1>3 DEF IInv, CompletedIsAnswered
  <2>3. ASSUME NEW e \in Runs, NEW q \in Runs, "completed" \in {snap'[e][q], writes'[e][q]}
        PROVE  accepted' = 1
    <3>1. e # d
      BY <1>1, <2>3, NothingType DEF NotStarted, IInv, TypeOK
    <3>2. snap'[e] = snap[e] /\ writes'[e] = writes[e]
      BY <1>1, <3>1 DEF IInv, TypeOK
    <3> QED
      BY <1>1, <2>3, <3>2 DEF IInv, CompletedIsAnswered
  <2> QED
    BY <2>1, <2>2, <2>3 DEF CompletedIsAnswered
<1>9. LocksHold'
  <2>1. \A e \in Runs, q \in Runs : writes'[e][q] # NotStarted => q \in held'[e]
    BY <1>1, NothingType DEF IInv, TypeOK, LocksHold
  <2>2. ASSUME cancel.run # 0 PROVE CanCancel(row'[cancel.run])
    <3>1. cancel.run \in Runs
      BY <2>2, Chain DEF IInv, TypeOK, Runs
    <3>2. row'[cancel.run] = row[cancel.run]
      BY <1>1, <1>2, <2>2, <3>1
    <3> QED
      BY <2>2, <3>2 DEF IInv, LocksHold
  <2>3. cancel.run # 0 => \A e \in Runs : cancel.run \notin held'[e]
    BY <1>1 DEF IInv, TypeOK, LocksHold
  <2> QED
    BY <1>1, <2>1, <2>2, <2>3 DEF LocksHold, CanCancel
<1>10. ReadsHold'
  <2> SUFFICES ASSUME NEW e \in Runs
               PROVE  /\ at'[e] # 0 => e <= at'[e]
                      /\ \A q \in Runs : snap'[e][q] # NotStarted => View(e, q)' # NotStarted
                      /\ \A q \in Runs : e <= q /\ q < at'[e] => snap'[e][q] = "running"
                      /\ at'[e] # 0 /\ phase'[e] # "entered" =>
                           at'[e] # Feedback /\ snap'[e][at'[e]] = "running"
    BY DEF ReadsHold, Read, Feedback
  <2>1. CASE e = d
    <3>1. at'[e] = 0 /\ snap'[e] = Nothing
      BY <1>1, <2>1 DEF IInv, TypeOK
    <3>2. \A q \in Runs : ~(e <= q /\ q < 0)
      BY Chain DEF Runs
    <3> QED
      BY <3>1, <3>2, NothingType
  <2>2. CASE e # d
    <3>1. /\ at'[e] = at[e] /\ phase'[e] = phase[e] /\ snap'[e] = snap[e]
          /\ writes'[e] = writes[e]
      BY <1>1, <2>2 DEF IInv, TypeOK
    <3> QED
      BY <1>3, <3>1 DEF IInv, ReadsHold, View, Read
  <2> QED
    BY <2>1, <2>2
<1> QED
  BY <1>6, <1>7, <1>8, <1>9, <1>10 DEF IInv

LEMMA ReturnKeeps ==
  ASSUME IInv, NEW d \in Runs, NEW written, NEW lifecycle, NEW progressed \in BOOLEAN,
         Returnable(d, written, lifecycle),
         Return(d, written, lifecycle, progressed), UNCHANGED stepUnchanged
  PROVE  IInv'
  BY CommitKeeps, InnerReturnKeeps

-----------------------------------------------------------------------------
(* The steps.                                                              *)

\* A step returns: what it may, and if it writes, to a run that it has read as
\* not ended; and it never ends the feedback run, unless as cancelled.
WritesLive(d, lifecycle) ==
  /\ Read(d) \in Lifecycles \ TerminalLifecycles
  /\ at[d] = Feedback => lifecycle \notin {"completed", "failed"}

ReturnsWith(d, written, lifecycle, progressed) ==
  /\ Returnable(d, written, lifecycle)
  /\ Return(d, written, lifecycle, progressed)
  /\ written # writes[d] => /\ WritesLive(d, lifecycle)
                            /\ \A q \in Runs \ {at[d]} : written[q] = writes[d][q]

ReturnsWell(d) ==
  \E written \in [Runs -> Values], lifecycle \in Lifecycles, progressed \in BOOLEAN :
    ReturnsWith(d, written, lifecycle, progressed)

LEMMA ReturnedWell ==
  ASSUME IInv, NEW d \in Runs, NEW written, NEW lifecycle, NEW progressed \in BOOLEAN,
         Returnable(d, written, lifecycle),
         Return(d, written, lifecycle, progressed),
         written # writes[d] => WritesLive(d, lifecycle)
  PROVE  ReturnsWell(d)
<1>1. written \in [Runs -> Values] /\ \A q \in Runs \ {at[d]} : written[q] = writes[d][q]
  BY WrittenFacts
<1>2. lifecycle \in Lifecycles
  BY DEF Returnable
<1>3. ReturnsWith(d, written, lifecycle, progressed)
  BY <1>1 DEF ReturnsWith
<1> QED
  BY <1>1, <1>2, <1>3 DEF ReturnsWell

\* It returns running, and writes nothing.
LEMMA WaitingReturns ==
  ASSUME IInv, NEW d \in Runs, at[d] # 0, Read(d) = "running",
         Return(d, writes[d], "running", FALSE)
  PROVE  ReturnsWell(d)
<1>1. at[d] \in Runs /\ "running" # NotStarted /\ "running" \in Lifecycles
  BY DriverTypes DEF NotStarted, Lifecycles
<1>2. View(d, at[d]) # NotStarted
  BY <1>1 DEF IInv, ReadsHold, Read
<1>3. Returnable(d, writes[d], "running")
  BY <1>1, <1>2 DEF Returnable
<1> QED
  BY <1>3, ReturnedWell

\* It ends a run that it has read as running.
LEMMA EndReturns ==
  ASSUME IInv, NEW d \in Runs, at[d] # 0, at[d] # Feedback, Read(d) = "running",
         RowFree(d, at[d]),
         NEW end \in {"completed", "failed"}, end = "completed" => accepted = 1,
         Return(d, Wrote(d, at[d], end), end, TRUE)
  PROVE  ReturnsWell(d)
<1>1. end \in Lifecycles /\ WritesLive(d, end)
  BY DEF Lifecycles, TerminalLifecycles, WritesLive
<1>2. Returnable(d, Wrote(d, at[d], end), end)
  BY <1>1 DEF Returnable
<1> QED
  BY <1>1, <1>2, ReturnedWell

\* Its safe point ends it.
LEMMA SafePointReturns ==
  ASSUME IInv, NEW d \in Runs, at[d] # 0, NEW found,
         found = Read(d) \/ (Read(d) = "running" /\ found = View(d, at[d])),
         SafePointEnds(d, found)
  PROVE  ReturnsWell(d)
<1>1. at[d] \in Runs
  BY DriverTypes
<1>2. CASE /\ found \in Settling
           /\ RowFree(d, at[d])
           /\ Return(d, Wrote(d, at[d], SettledLifecycle(found)), SettledLifecycle(found), TRUE)
  <2>1. /\ SettledLifecycle(found) \in Lifecycles /\ SettledLifecycle(found) # "completed"
        /\ WritesLive(d, SettledLifecycle(found))
    BY <1>2 DEF Settling, SettledLifecycle, Lifecycles, TerminalLifecycles, WritesLive
  <2>2. Returnable(d, Wrote(d, at[d], SettledLifecycle(found)), SettledLifecycle(found))
    BY <1>2, <2>1 DEF Returnable
  <2> QED
    BY <1>2, <2>1, <2>2, ReturnedWell
<1>3. CASE /\ found \in TerminalLifecycles \cup {"paused"}
           /\ Return(d, writes[d], found, FALSE)
  <2>1. found \in Lifecycles
    BY <1>3 DEF TerminalLifecycles, Lifecycles
  <2>2. found = "completed" => accepted = 1
    BY <1>1 DEF IInv, CompletedIsAnswered, Read, View
  <2>3. View(d, at[d]) # NotStarted
    BY <1>1, <2>1, NotStartedApart DEF IInv, ReadsHold, Read
  <2>4. Returnable(d, writes[d], found)
    BY <2>1, <2>2, <2>3 DEF Returnable
  <2> QED
    BY <1>3, <2>4, ReturnedWell
<1> QED
  BY <1>2, <1>3 DEF SafePointEnds

\* The steps that return.
LEMMA StepReturns ==
  ASSUME IInv, NEW d \in Runs,
         \/ SettleOnEntry(d) \/ AwaitResponse(d) \/ RejectLaunch(d) \/ FinishWithChild(d)
         \/ Park(d) \/ (PassSafePoint(d) /\ SafePointEnds(d, View(d, at[d])))
  PROVE  ReturnsWell(d) /\ UNCHANGED stepUnchanged
<1>1. at[d] # 0 /\ UNCHANGED stepUnchanged
  BY DEF SettleOnEntry, AwaitResponse, RejectLaunch, FinishWithChild, Park, PassSafePoint, Stepping
<1>2. at[d] \in Runs
  BY <1>1, DriverTypes
<1>3. \/ Read(d) = "running" /\ (RejectLaunch(d) \/ FinishWithChild(d) => at[d] # Feedback)
      \/ SettleOnEntry(d)
  BY <1>1 DEF AwaitResponse, RejectLaunch, FinishWithChild, Park, PassSafePoint, Stepping,
              IInv, ReadsHold
<1>4. CASE SettleOnEntry(d)
  BY <1>1, <1>4, SafePointReturns DEF SettleOnEntry
<1>5. CASE AwaitResponse(d)
  BY <1>1, <1>5, WaitingReturns DEF AwaitResponse
<1>6. CASE RejectLaunch(d) /\ Read(d) = "running"
  BY <1>1, <1>3, <1>6, EndReturns DEF RejectLaunch, SettleOnEntry, Stepping
<1>7. CASE FinishWithChild(d) /\ Read(d) = "running"
  <2> DEFINE end == Outcome(snap[d][at[d] + 1])
  <2>0. at[d] # Feedback
    BY <1>1, <1>7 DEF FinishWithChild, Stepping, IInv, ReadsHold
  <2>1. at[d] + 1 \in Runs
    BY <1>2, <2>0, Chain DEF Runs, Feedback
  <2>2. end \in {"completed", "failed"} /\ (end = "completed" => accepted = 1)
    BY <2>1 DEF Outcome, IInv, CompletedIsAnswered
  <2>3. /\ RowFree(d, at[d])
        /\ \/ SafePointEnds(d, View(d, at[d]))
           \/ Return(d, Wrote(d, at[d], end), end, TRUE)
    BY <1>7 DEF FinishWithChild
  <2> HIDE DEF end
  <2>4. CASE SafePointEnds(d, View(d, at[d]))
    BY <1>1, <1>7, <2>4, SafePointReturns
  <2>5. CASE Return(d, Wrote(d, at[d], end), end, TRUE)
    BY <1>1, <1>7, <2>0, <2>2, <2>3, <2>5, EndReturns
  <2> QED
    BY <1>1, <2>3, <2>4, <2>5
<1>8. CASE Park(d) /\ Read(d) = "running"
  BY <1>1, <1>8, SafePointReturns, WaitingReturns DEF Park
<1>9. CASE PassSafePoint(d) /\ SafePointEnds(d, View(d, at[d])) /\ Read(d) = "running"
  BY <1>1, <1>9, SafePointReturns
<1> QED
  BY <1>1, <1>3, <1>4, <1>5, <1>6, <1>7, <1>8, <1>9

\* ctx.launchChild passes its safe point and goes on.
LEMMA PassedKeeps ==
  ASSUME IInv, NEW d \in Runs, PassSafePoint(d), ~SafePointEnds(d, View(d, at[d]))
  PROVE  IInv'
<1>1. /\ at[d] # 0 /\ at[d] # Feedback /\ snap[d][at[d]] = "running"
      /\ phase' = [phase EXCEPT ![d] = "checked"]
      /\ UNCHANGED <<row, request, driver, at, snap, writes, held>>
      /\ UNCHANGED stepUnchanged
  BY DEF PassSafePoint, Stepping, Read
<1>2. /\ driver' = [driver EXCEPT ![d] = "step"]
      /\ at' = [at EXCEPT ![d] = at[d]]
      /\ snap' = [snap EXCEPT ![d] = snap[d]]
      /\ writes' = [writes EXCEPT ![d] = writes[d]]
      /\ held' = [held EXCEPT ![d] = held[d]]
      /\ wanted' \subseteq Runs /\ lost' \in BOOLEAN
  BY <1>1, DriverTypes DEF IInv, TypeOK, stepUnchanged
<1>3. DriverBecomes(d, "step", at[d], "checked", snap[d], writes[d], held[d])
  BY <1>1, <1>2 DEF DriverBecomes, stepUnchanged
<1>4. /\ at[d] \in 0..Depth /\ d <= at[d] /\ key = "committed"
      /\ snap[d] \in [Runs -> Values] /\ writes[d] \in [Runs -> Values]
      /\ held[d] \in SUBSET Runs
  BY <1>1, DriverTypes, Chain DEF Runs
<1>5. /\ \A q \in Runs : "completed" \in {snap[d][q], writes[d][q]} => accepted = 1
      /\ \A q \in Runs : writes[d][q] # NotStarted => q \in held[d]
      /\ cancel.run # 0 => cancel.run \notin held[d]
  BY DEF IInv, CompletedIsAnswered, LocksHold
<1>6. /\ \A q \in Runs : snap[d][q] # NotStarted => writes[d][q] # NotStarted \/ row[q] # NotStarted
      /\ \A q \in Runs : d <= q /\ q < at[d] => snap[d][q] = "running"
  BY DEF IInv, ReadsHold, View
<1>7. DriverFits(d, "step", at[d], "checked", snap[d], writes[d], held[d])
  BY <1>1, <1>4, <1>5, <1>6 DEF DriverFits
<1> QED
  BY <1>3, <1>7, DriverKeeps

\* The step launches a child, or goes on with the one it had launched.
LEMMA ChildFacts ==
  ASSUME IInv, NEW d \in Runs, Stepping(d, "checked")
  PROVE  LET child == at[d] + 1 IN
         /\ at[d] \in Runs /\ child \in Runs /\ child # 0 /\ d <= child /\ d <= at[d]
         /\ child \in 0..Depth /\ at[d] \in 0..Depth /\ at[d] # 0 /\ at[d] # Feedback
         /\ \A q \in Runs : d <= q /\ q < child => snap[d][q] = "running"
         /\ snap[d][at[d]] = "running"
         /\ driver[d] = "step" /\ key = "committed"
<1>1. /\ at[d] # 0 /\ at[d] \in Runs /\ d <= at[d]
      /\ driver[d] = "step" /\ key = "committed"
  BY DriverTypes DEF Stepping
<1>2. at[d] # Feedback /\ snap[d][at[d]] = "running"
  BY <1>1 DEF Stepping, IInv, ReadsHold, Read
<1>3. /\ at[d] + 1 \in Runs /\ at[d] + 1 # 0 /\ d <= at[d] + 1
      /\ at[d] + 1 \in 0..Depth /\ at[d] \in 0..Depth
  BY <1>1, <1>2, Chain DEF Runs, Feedback
<1>4. \A q \in Runs : d <= q /\ q < at[d] + 1 => snap[d][q] = "running"
  <2> SUFFICES ASSUME NEW q \in Runs, d <= q, q < at[d] + 1
               PROVE  snap[d][q] = "running"
    OBVIOUS
  <2>1. CASE q = at[d]
    BY <1>2, <2>1
  <2>2. CASE q # at[d]
    <3>1. q < at[d]
      BY <1>1, <2>2, Chain DEF Runs
    <3> QED
      BY <3>1 DEF IInv, ReadsHold
  <2> QED
    BY <2>1, <2>2
<1> QED
  BY <1>1, <1>2, <1>3, <1>4

LEMMA LaunchKeeps ==
  ASSUME IInv, NEW d \in Runs, LaunchChild(d)
  PROVE  IInv'
<1> DEFINE child == at[d] + 1
           reads == [snap[d] EXCEPT ![child] = "running"]
           written == [writes[d] EXCEPT ![child] = "running"]
           locks == held[d] \cup {at[d], child}
<1>1. /\ Stepping(d, "checked")
      /\ View(d, child) = NotStarted
      /\ RowFree(d, at[d])
      /\ UNCHANGED <<row, request, driver>> /\ UNCHANGED stepUnchanged
      /\ at' = [at EXCEPT ![d] = child]
      /\ phase' = [phase EXCEPT ![d] = "entered"]
  BY DEF LaunchChild
<1>2. /\ at[d] \in Runs /\ child \in Runs /\ child # 0 /\ d <= child
      /\ child \in 0..Depth
      /\ \A q \in Runs : d <= q /\ q < child => snap[d][q] = "running"
      /\ driver[d] = "step" /\ key = "committed"
  BY <1>1, ChildFacts
<1>3. /\ snap[d] \in [Runs -> Values] /\ writes[d] \in [Runs -> Values]
      /\ held[d] \in SUBSET Runs
      /\ snap \in [Runs -> [Runs -> Values]] /\ writes \in [Runs -> [Runs -> Values]]
      /\ held \in [Runs -> SUBSET Runs] /\ driver \in [Runs -> {"idle", "ready", "step"}]
      /\ wanted \subseteq Runs /\ lost \in BOOLEAN
  BY DriverTypes DEF IInv, TypeOK
<1>4. /\ driver' = [driver EXCEPT ![d] = "step"]
      /\ snap' = [snap EXCEPT ![d] = reads]
      /\ writes' = [writes EXCEPT ![d] = written]
      /\ held' = [held EXCEPT ![d] = locks]
  BY <1>1, <1>2, <1>3 DEF LaunchChild
<1>5. "running" \in Values /\ "running" # NotStarted
  BY DEF Values, Lifecycles, NotStarted
<1>6. /\ reads \in [Runs -> Values] /\ written \in [Runs -> Values] /\ locks \in SUBSET Runs
      /\ reads[child] = "running" /\ written[child] = "running"
      /\ \A q \in Runs \ {child} : reads[q] = snap[d][q] /\ written[q] = writes[d][q]
      /\ held[d] \subseteq locks /\ child \in locks
  BY <1>2, <1>3, <1>5
<1>7. cancel.run # 0 => cancel.run \notin locks
  <2>1. cancel.run # 0 => cancel.run \notin held[d] /\ CanCancel(row[cancel.run])
    BY DEF IInv, LocksHold
  <2>2. cancel.run # at[d]
    BY <1>1 DEF RowFree
  <2>3. ASSUME cancel.run # 0 PROVE cancel.run # child
    <3>1. row[child] = NotStarted
      BY <1>1, <1>2 DEF View
    <3>2. ~CanCancel(NotStarted)
      BY DEF CanCancel, NotStarted
    <3> QED
      BY <2>1, <2>3, <3>1, <3>2
  <2> QED
    BY <2>1, <2>2, <2>3
<1> HIDE DEF child, reads, written, locks
<1>8. \A q \in Runs : "completed" \in {reads[q], written[q]} => accepted = 1
  BY <1>6 DEF IInv, CompletedIsAnswered
<1>9. \A q \in Runs : written[q] # NotStarted => q \in locks
  BY <1>6 DEF IInv, LocksHold
<1>10. \A q \in Runs : reads[q] # NotStarted => written[q] # NotStarted \/ row[q] # NotStarted
  BY <1>5, <1>6 DEF IInv, ReadsHold, View
<1>11. \A q \in Runs : d <= q /\ q < child => reads[q] = "running"
  BY <1>2, <1>6
<1>12. DriverBecomes(d, "step", child, "entered", reads, written, locks)
  BY <1>1, <1>3, <1>4 DEF DriverBecomes, stepUnchanged
<1>13. DriverFits(d, "step", child, "entered", reads, written, locks)
  BY <1>2, <1>6, <1>7, <1>8, <1>9, <1>10, <1>11 DEF DriverFits
<1> QED
  BY <1>12, <1>13, DriverKeeps

LEMMA ReenterKeeps ==
  ASSUME IInv, NEW d \in Runs, ReenterChild(d)
  PROVE  IInv'
<1> DEFINE child == at[d] + 1
           found == View(d, child)
           ended == found \in TerminalLifecycles
           where == IF ended THEN at[d] ELSE child
           how == IF ended THEN "ended" ELSE "entered"
           reads == [snap[d] EXCEPT ![child] = found]
<1>1. /\ Stepping(d, "checked")
      /\ found # NotStarted
      /\ UNCHANGED <<row, request, driver, writes, held>> /\ UNCHANGED stepUnchanged
      /\ at' = [at EXCEPT ![d] = where]
      /\ phase' = [phase EXCEPT ![d] = how]
  BY DEF ReenterChild
<1>2. /\ at[d] \in Runs /\ child \in Runs /\ child # 0 /\ d <= child /\ d <= at[d]
      /\ child \in 0..Depth /\ at[d] \in 0..Depth /\ at[d] # 0 /\ at[d] # Feedback
      /\ \A q \in Runs : d <= q /\ q < child => snap[d][q] = "running"
      /\ snap[d][at[d]] = "running"
      /\ driver[d] = "step" /\ key = "committed"
  BY <1>1, ChildFacts
<1>3. /\ snap[d] \in [Runs -> Values] /\ writes[d] \in [Runs -> Values]
      /\ held[d] \in SUBSET Runs /\ row \in [Runs -> Values]
      /\ snap \in [Runs -> [Runs -> Values]] /\ writes \in [Runs -> [Runs -> Values]]
      /\ held \in [Runs -> SUBSET Runs] /\ driver \in [Runs -> {"idle", "ready", "step"}]
      /\ wanted \subseteq Runs /\ lost \in BOOLEAN
  BY DriverTypes DEF IInv, TypeOK
<1>4. /\ driver' = [driver EXCEPT ![d] = "step"]
      /\ snap' = [snap EXCEPT ![d] = reads]
      /\ writes' = [writes EXCEPT ![d] = writes[d]]
      /\ held' = [held EXCEPT ![d] = held[d]]
  BY <1>1, <1>2, <1>3 DEF ReenterChild
<1>5. found \in Values
  BY <1>2, <1>3 DEF View
<1>6. found = "completed" => accepted = 1
  BY <1>2 DEF IInv, CompletedIsAnswered, View
<1>7. writes[d][child] # NotStarted \/ row[child] # NotStarted
  BY <1>1 DEF View
<1>8. /\ where \in 0..Depth /\ d <= where /\ where # 0
      /\ how \in {"entered", "checked", "parking", "ended"}
      /\ how # "entered" => where = at[d]
      /\ where = at[d] \/ where = child
  BY <1>2
<1> HIDE DEF found
<1>9. /\ reads \in [Runs -> Values] /\ reads[child] = found
      /\ \A q \in Runs \ {child} : reads[q] = snap[d][q]
      /\ at[d] # child /\ at[d] < child /\ ~(child < child)
  BY <1>2, <1>3, <1>5, Chain DEF Runs
<1> HIDE DEF child, where, how, reads
<1>10. \A q \in Runs : "completed" \in {reads[q], writes[d][q]} => accepted = 1
  BY <1>6, <1>9 DEF IInv, CompletedIsAnswered
<1>11. \A q \in Runs : reads[q] # NotStarted => writes[d][q] # NotStarted \/ row[q] # NotStarted
  BY <1>7, <1>9 DEF IInv, ReadsHold, View
<1>12. \A q \in Runs : d <= q /\ q < where => reads[q] = "running"
  <2> SUFFICES ASSUME NEW q \in Runs, d <= q, q < where
               PROVE  reads[q] = "running"
    OBVIOUS
  <2>1. q < child
    BY <1>2, <1>8, <1>9, Chain
  <2>2. q # child
    BY <1>9, <2>1
  <2> QED
    BY <1>2, <1>9, <2>1, <2>2
<1>13. how # "entered" => where # Feedback /\ reads[where] = "running"
  BY <1>2, <1>8, <1>9
<1>14. /\ \A q \in Runs : writes[d][q] # NotStarted => q \in held[d]
       /\ cancel.run # 0 => cancel.run \notin held[d]
  BY DEF IInv, LocksHold
<1>15. DriverBecomes(d, "step", where, how, reads, writes[d], held[d])
  BY <1>1, <1>3, <1>4 DEF DriverBecomes, stepUnchanged
<1>16. DriverFits(d, "step", where, how, reads, writes[d], held[d])
  BY <1>2, <1>3, <1>8, <1>9, <1>10, <1>11, <1>12, <1>13, <1>14 DEF DriverFits
<1> QED
  BY <1>15, <1>16, DriverKeeps

LEMMA StepKeeps ==
  ASSUME IInv, NEW d \in Runs, Step(d)
  PROVE  IInv'
<1>1. ASSUME ReturnsWell(d), UNCHANGED stepUnchanged
      PROVE  IInv'
  <2>1. PICK written \in [Runs -> Values], lifecycle \in Lifecycles, progressed \in BOOLEAN :
          ReturnsWith(d, written, lifecycle, progressed)
    BY <1>1 DEF ReturnsWell
  <2> QED
    BY <1>1, <2>1, ReturnKeeps DEF ReturnsWith
<1>2. CASE \/ SettleOnEntry(d) \/ AwaitResponse(d) \/ RejectLaunch(d) \/ FinishWithChild(d)
           \/ Park(d)
  BY <1>1, <1>2, StepReturns
<1>3. CASE PassSafePoint(d)
  BY <1>1, <1>3, StepReturns, PassedKeeps
<1>4. CASE LaunchChild(d)
  BY <1>4, LaunchKeeps
<1>5. CASE ReenterChild(d)
  BY <1>5, ReenterKeeps
<1>6. CASE AbortStep(d)
  BY <1>6, AbortStepKeeps
<1> QED
  BY <1>2, <1>3, <1>4, <1>5, <1>6 DEF Step

-----------------------------------------------------------------------------
(* Starts, control requests and responses: they commit at once, beside the  *)
(* open steps.                                                             *)

LEMMA RequestKeeps ==
  ASSUME IInv, UNCHANGED <<driver, stepVars>>, key' = "committed", KeyTells',
         start' \in [Starters -> {"idle", "reserved", "created", "existing", "unknown", "failed"}],
         row' \in [Runs -> Values],
         \A q \in Runs : row[q] # NotStarted => row'[q] # NotStarted,
         request' \in {"none", "awaiting_response", "responded", "cancelled"},
         accepted' = IF request' = "responded" THEN 1 ELSE 0,
         accepted = 1 => accepted' = 1,
         \A q \in Runs : row'[q] = "completed" => accepted' = 1,
         wanted' \subseteq Runs, controls' \in 0..MaxControls, lost' \in BOOLEAN,
         cancel' \in [run : 0..Depth, seen : [Runs -> Values]],
         cancel'.run # 0 => /\ CanCancel(row'[cancel'.run])
                            /\ \A d \in Runs : cancel'.run \notin held[d]
  PROVE  IInv'
<1>1. UNCHANGED <<driver, at, phase, snap, writes, held>>
  BY DEF stepVars
<1>2. TypeOK'
  BY <1>1 DEF IInv, TypeOK
<1>3. NothingBeforeStart'
  BY DEF NothingBeforeStart
<1>4. CompletedIsAnswered'
  BY <1>1 DEF IInv, CompletedIsAnswered
<1>5. LocksHold'
  BY <1>1 DEF IInv, LocksHold, CanCancel
<1>6. ReadsHold'
  <2> SUFFICES ASSUME NEW e \in Runs
               PROVE  /\ at'[e] # 0 => e <= at'[e]
                      /\ \A q \in Runs : snap'[e][q] # NotStarted => View(e, q)' # NotStarted
                      /\ \A q \in Runs : e <= q /\ q < at'[e] => snap'[e][q] = "running"
                      /\ at'[e] # 0 /\ phase'[e] # "entered" =>
                           at'[e] # Feedback /\ snap'[e][at'[e]] = "running"
    BY DEF ReadsHold, Read, Feedback
  <2> QED
    BY <1>1 DEF IInv, ReadsHold, View, Read
<1> QED
  BY <1>2, <1>3, <1>4, <1>5, <1>6 DEF IInv

\* A request on runs that exist leaves the starts alone, and the answer if it
\* is no response.
LEMMA ControlKeeps ==
  ASSUME IInv, key = "committed", UNCHANGED ControlUnchanged,
         row' \in [Runs -> Values],
         \A q \in Runs : row'[q] = row[q] \/ row'[q] \in {"pausing", "resuming", "cancelling"},
         wanted' \subseteq Runs, controls' \in 0..MaxControls,
         cancel' \in [run : 0..Depth, seen : [Runs -> Values]],
         cancel'.run # 0 => /\ CanCancel(row'[cancel'.run])
                            /\ \A d \in Runs : cancel'.run \notin held[d]
  PROVE  IInv'
<1>1. /\ UNCHANGED <<driver, stepVars>> /\ UNCHANGED <<request, accepted, start, key, lost>>
  BY DEF ControlUnchanged, startVars
<1>2. \A q \in Runs : row[q] # NotStarted => row'[q] # NotStarted
  BY DEF NotStarted
<1>3. KeyTells'
  BY <1>1, <1>2, Chain DEF IInv, KeyTells
<1>4. /\ request' \in {"none", "awaiting_response", "responded", "cancelled"}
      /\ start' \in [Starters -> {"idle", "reserved", "created", "existing", "unknown", "failed"}]
      /\ lost' \in BOOLEAN
  BY <1>1 DEF IInv, TypeOK
<1>5. /\ accepted' = IF request' = "responded" THEN 1 ELSE 0
      /\ \A q \in Runs : row'[q] = "completed" => accepted' = 1
  BY <1>1 DEF IInv, CompletedIsAnswered
<1> QED
  BY <1>1, <1>2, <1>3, <1>4, <1>5, RequestKeeps

LEMMA RequestedKeeps ==
  ASSUME IInv, NEW r \in Runs, RequestPause(r) \/ RequestResume(r)
  PROVE  IInv'
<1>1. PICK lifecycle \in {"pausing", "resuming"} : Request(r, lifecycle)
  BY DEF RequestPause, RequestResume
<1>2. key = "committed"
  <2>1. row[r] # NotStarted
    BY DEF RequestPause, RequestResume, CanPause, CanResume, NotStarted
  <2> QED
    BY <2>1, NothingType DEF IInv, NothingBeforeStart
<1>3. /\ UNCHANGED ControlUnchanged /\ cancel' = cancel
      /\ row' = [row EXCEPT ![r] = lifecycle]
      /\ cancel.run # r
      /\ wanted' = wanted \cup {r}
      /\ controls < MaxControls /\ controls' = controls + 1
  BY <1>1 DEF Request, RowFree
<1>4. lifecycle \in Values
  BY DEF Values, Lifecycles
<1>5. /\ row' \in [Runs -> Values]
      /\ \A q \in Runs : row'[q] = row[q] \/ row'[q] \in {"pausing", "resuming", "cancelling"}
  BY <1>3, <1>4 DEF IInv, TypeOK
<1>6. /\ wanted' \subseteq Runs
      /\ cancel' \in [run : 0..Depth, seen : [Runs -> Values]]
  BY <1>3 DEF IInv, TypeOK
<1>7. controls' \in 0..MaxControls
  BY <1>3, Chain DEF IInv, TypeOK
<1>8. cancel'.run # 0 => /\ CanCancel(row'[cancel'.run])
                         /\ \A d \in Runs : cancel'.run \notin held[d]
  <2>1. cancel.run # 0 => cancel.run \in Runs
    BY Chain DEF IInv, TypeOK, Runs
  <2>2. cancel.run # 0 => row'[cancel.run] = row[cancel.run]
    BY <1>3, <2>1 DEF IInv, TypeOK
  <2> QED
    BY <1>3, <2>2 DEF IInv, LocksHold
<1> QED
  BY <1>2, <1>3, <1>5, <1>6, <1>7, <1>8, ControlKeeps

LEMMA BeginCancelKeeps ==
  ASSUME IInv, NEW r \in Runs, BeginCancel(r)
  PROVE  IInv'
<1>1. /\ controls < MaxControls /\ controls' = controls + 1
      /\ CanCancel(row[r])
      /\ RowFree(0, r)
      /\ cancel' = [run |-> r, seen |-> [q \in Runs |-> IF q > r THEN row[q] ELSE NotStarted]]
      /\ UNCHANGED <<row, wanted>> /\ UNCHANGED ControlUnchanged
  BY DEF BeginCancel
<1>2. key = "committed"
  <2>1. row[r] # NotStarted
    BY <1>1 DEF CanCancel, NotStarted
  <2> QED
    BY <2>1, NothingType DEF IInv, NothingBeforeStart
<1>3. row \in [Runs -> Values] /\ wanted \subseteq Runs
  BY DEF IInv, TypeOK
<1>4. controls' \in 0..MaxControls
  BY <1>1, Chain DEF IInv, TypeOK
<1>5. cancel' \in [run : 0..Depth, seen : [Runs -> Values]] /\ cancel'.run = r
  <2>1. [q \in Runs |-> IF q > r THEN row[q] ELSE NotStarted] \in [Runs -> Values]
    BY <1>3, NotStartedApart
  <2>2. r \in 0..Depth
    BY Chain DEF Runs
  <2> QED
    BY <1>1, <2>1, <2>2
<1>6. \A d \in Runs : r \notin held[d]
  BY <1>1, Chain DEF RowFree
<1> QED
  BY <1>1, <1>2, <1>3, <1>4, <1>5, <1>6, ControlKeeps

LEMMA EndCancelKeeps ==
  ASSUME IInv, CommitCancel \/ AbortCancel
  PROVE  IInv'
<1>1. /\ cancel.run # 0 /\ cancel' = NoCancel /\ UNCHANGED controls
      /\ UNCHANGED ControlUnchanged
  BY DEF CommitCancel, AbortCancel
<1>2. cancel.run \in Runs /\ key = "committed"
  BY <1>1, Chain DEF IInv, TypeOK, NothingBeforeStart, NoCancel, Runs
<1>3. /\ row' \in [Runs -> Values]
      /\ \A q \in Runs : row'[q] = row[q] \/ row'[q] \in {"pausing", "resuming", "cancelling"}
      /\ wanted' \subseteq Runs
  <2>1. row \in [Runs -> Values] /\ wanted \subseteq Runs /\ "cancelling" \in Values
    BY DEF IInv, TypeOK, Values, Lifecycles
  <2>2. CASE AbortCancel
    BY <2>1, <2>2 DEF AbortCancel
  <2>3. CASE CommitCancel
    BY <1>2, <2>1, <2>3 DEF CommitCancel
  <2> QED
    BY <2>2, <2>3
<1>4. NoCancel \in [run : 0..Depth, seen : [Runs -> Values]] /\ NoCancel.run = 0
  BY NothingType, Chain DEF NoCancel
<1>5. controls' \in 0..MaxControls
  BY <1>1 DEF IInv, TypeOK
<1> QED
  BY <1>1, <1>2, <1>3, <1>4, <1>5, ControlKeeps

LEMMA RespondKeeps ==
  ASSUME IInv, Respond
  PROVE  IInv'
<1>1. /\ request = "awaiting_response" /\ request' = "responded"
      /\ row[Feedback] = "running" /\ row' = [row EXCEPT ![Feedback] = "completed"]
      /\ RowFree(0, Feedback)
      /\ accepted' = accepted + 1
      /\ wanted' = wanted \cup {Feedback - 1}
      /\ UNCHANGED <<driver, stepVars, cancel, startVars, controls, lost>>
  BY DEF Respond
<1>2. /\ row \in [Runs -> Values] /\ "completed" \in Values
      /\ "completed" # NotStarted /\ "running" # NotStarted
  BY DEF IInv, TypeOK, Values, Lifecycles, NotStarted
<1>3. key = "committed"
  BY <1>1, <1>2, NothingType, Chain DEF IInv, NothingBeforeStart
<1>4. /\ row' \in [Runs -> Values]
      /\ \A q \in Runs : row[q] # NotStarted => row'[q] # NotStarted
  BY <1>1, <1>2
<1>5. accepted = 0 /\ accepted' = 1
  BY <1>1 DEF IInv, CompletedIsAnswered
<1>6. KeyTells' /\ key' = "committed"
  BY <1>1, <1>3, <1>4, Chain DEF IInv, KeyTells, startVars
<1>7. /\ wanted' \subseteq Runs /\ controls' \in 0..MaxControls /\ lost' \in BOOLEAN
      /\ cancel' \in [run : 0..Depth, seen : [Runs -> Values]]
      /\ start' \in [Starters -> {"idle", "reserved", "created", "existing", "unknown", "failed"}]
  BY <1>1, Chain DEF IInv, TypeOK, startVars
<1>8. cancel'.run # 0 => /\ CanCancel(row'[cancel'.run])
                         /\ \A d \in Runs : cancel'.run \notin held[d]
  <2>1. cancel.run # 0 => cancel.run \in Runs /\ cancel.run # Feedback
    BY <1>1, Chain DEF IInv, TypeOK, Runs, RowFree
  <2>2. cancel.run # 0 => row'[cancel.run] = row[cancel.run]
    BY <1>1, <1>2, <2>1
  <2> QED
    BY <1>1, <2>2 DEF IInv, LocksHold
<1>9. UNCHANGED <<driver, stepVars>>
  BY <1>1
<1> QED
  BY <1>1, <1>4, <1>5, <1>6, <1>7, <1>8, <1>9, RequestKeeps

LEMMA StartKeeps ==
  ASSUME IInv, NEW s \in Starters, Start(s)
  PROVE  IInv'
<1>1. /\ start \in [Starters -> {"idle", "reserved", "created", "existing", "unknown", "failed"}]
      /\ key \in {"free", "reserved", "committed"}
      /\ row \in [Runs -> Values]
  BY DEF IInv, TypeOK
<1>2. ASSUME key # "committed", key' # "committed",
             UNCHANGED <<row, request, accepted, driver, wanted, stepVars, cancel, controls, lost>>,
             start' \in [Starters -> {"idle", "reserved", "created", "existing", "unknown", "failed"}],
             key' \in {"free", "reserved", "committed"}, KeyTells'
      PROVE  IInv'
  <2>1. TypeOK'
    BY <1>2 DEF IInv, TypeOK, stepVars
  <2>2. NothingBeforeStart'
    BY <1>2 DEF IInv, NothingBeforeStart, Nothing, NoCancel
  <2>3. CompletedIsAnswered' /\ LocksHold'
    BY <1>2 DEF IInv, CompletedIsAnswered, LocksHold, CanCancel, stepVars
  <2>4. ReadsHold'
    BY <1>2 DEF IInv, ReadsHold, View, Read, Feedback, stepVars
  <2> QED
    BY <1>2, <2>1, <2>2, <2>3, <2>4 DEF IInv
<1>3. CASE ReserveKey(s)
  <2>1. KeyTells'
    BY <1>1, <1>3 DEF ReserveKey, IInv, KeyTells
  <2> QED
    BY <1>1, <1>2, <1>3, <2>1 DEF ReserveKey
<1>4. CASE StartFails(s)
  <2>1. key = "reserved"
    BY <1>1, <1>4 DEF StartFails, IInv, KeyTells
  <2>2. KeyTells'
    BY <1>1, <1>4, <2>1 DEF StartFails, IInv, KeyTells
  <2> QED
    BY <1>1, <1>2, <1>4, <2>1, <2>2 DEF StartFails
<1>5. CASE CreateRun(s)
  <2>1. key = "reserved"
    BY <1>1, <1>5 DEF CreateRun, IInv, KeyTells
  <2>2. row = Nothing /\ cancel = NoCancel
    BY <2>1 DEF IInv, NothingBeforeStart
  <2>3. /\ start' = [start EXCEPT ![s] = "created"] /\ key' = "committed"
        /\ row' = [row EXCEPT ![1] = "running"] /\ wanted' = wanted \cup {1}
        /\ UNCHANGED <<request, accepted, driver, stepVars, cancel, controls, lost>>
    BY <1>5 DEF CreateRun
  <2>4. "running" \in Values /\ "running" # NotStarted /\ "running" # "completed"
    BY DEF Values, Lifecycles, NotStarted
  <2>5. /\ row' \in [Runs -> Values] /\ row'[1] # NotStarted
        /\ \A q \in Runs : row[q] # NotStarted => row'[q] # NotStarted
        /\ \A q \in Runs : row'[q] = "completed" => row[q] = "completed"
    BY <1>1, <2>3, <2>4, Chain
  <2>6. KeyTells'
    BY <1>1, <1>5, <2>1, <2>3, <2>5 DEF CreateRun, IInv, KeyTells
  <2>7. /\ request' \in {"none", "awaiting_response", "responded", "cancelled"}
        /\ start' \in [Starters -> {"idle", "reserved", "created", "existing", "unknown", "failed"}]
        /\ wanted' \subseteq Runs /\ controls' \in 0..MaxControls /\ lost' \in BOOLEAN
        /\ cancel' \in [run : 0..Depth, seen : [Runs -> Values]]
    BY <1>1, <2>3, Chain DEF IInv, TypeOK
  <2>8. /\ accepted' = IF request' = "responded" THEN 1 ELSE 0
        /\ accepted = 1 => accepted' = 1
        /\ \A q \in Runs : row'[q] = "completed" => accepted' = 1
    BY <2>3, <2>5 DEF IInv, CompletedIsAnswered
  <2>9. cancel'.run = 0 /\ UNCHANGED <<driver, stepVars>>
    BY <2>2, <2>3 DEF NoCancel
  <2> QED
    BY <2>3, <2>5, <2>6, <2>7, <2>8, <2>9, RequestKeeps
<1>6. CASE FindExisting(s)
  <2>1. /\ key = "committed" /\ row[1] # NotStarted
        /\ start' = [start EXCEPT ![s] = "existing"]
        /\ UNCHANGED <<row, request, accepted, driver, wanted, stepVars, cancel, key, controls, lost>>
    BY <1>6 DEF FindExisting, IInv, KeyTells
  <2>2. KeyTells'
    BY <1>1, <1>6, <2>1 DEF FindExisting, IInv, KeyTells
  <2>3. /\ start' \in [Starters -> {"idle", "reserved", "created", "existing", "unknown", "failed"}]
        /\ request' \in {"none", "awaiting_response", "responded", "cancelled"}
        /\ wanted' \subseteq Runs /\ controls' \in 0..MaxControls /\ lost' \in BOOLEAN
        /\ cancel' \in [run : 0..Depth, seen : [Runs -> Values]]
    BY <1>1, <2>1 DEF IInv, TypeOK
  <2>4. /\ accepted' = IF request' = "responded" THEN 1 ELSE 0
        /\ \A q \in Runs : row'[q] = "completed" => accepted' = 1
    BY <2>1 DEF IInv, CompletedIsAnswered
  <2>5. cancel'.run # 0 => /\ CanCancel(row'[cancel'.run])
                           /\ \A d \in Runs : cancel'.run \notin held[d]
    BY <2>1 DEF IInv, LocksHold
  <2>6. UNCHANGED <<driver, stepVars>>
    BY <2>1
  <2> QED
    BY <1>1, <2>1, <2>2, <2>3, <2>4, <2>5, <2>6, RequestKeeps
<1> QED
  BY <1>3, <1>4, <1>5, <1>6 DEF Start

-----------------------------------------------------------------------------
(* The invariant, and what it shows.                                       *)

LEMMA InitHolds == Init => IInv
<1> SUFFICES ASSUME Init PROVE IInv
  OBVIOUS
<1>1. \A r \in Runs : Nothing[r] = NotStarted /\ Nothing[r] # "completed"
  BY NothingType DEF NotStarted
<1>2. TypeOK
  <2>1. /\ row \in [Runs -> Values]
        /\ snap \in [Runs -> [Runs -> Values]] /\ writes \in [Runs -> [Runs -> Values]]
        /\ cancel \in [run : 0..Depth, seen : [Runs -> Values]]
    BY NothingType, Chain DEF Init, NoCancel
  <2>2. \A d \in Runs : driver[d] = "step" <=> at[d] >= d
    BY Chain DEF Init, Runs
  <2>3. at \in [Runs -> 0..Depth] /\ controls \in 0..MaxControls
    BY Chain DEF Init
  <2> QED
    BY <2>1, <2>2, <2>3 DEF Init, TypeOK
<1>3. NothingBeforeStart /\ KeyTells
  BY DEF Init, NothingBeforeStart, KeyTells
<1>4. CompletedIsAnswered
  BY <1>1 DEF Init, CompletedIsAnswered
<1>5. LocksHold
  BY <1>1 DEF Init, LocksHold, NoCancel
<1>6. ReadsHold
  <2>1. \A d \in Runs, q \in Runs : ~(d <= q /\ q < 0)
    BY Chain DEF Runs
  <2> QED
    BY <1>1, <2>1 DEF Init, ReadsHold, View
<1> QED
  BY <1>2, <1>3, <1>4, <1>5, <1>6 DEF IInv

LEMMA NextKeeps == IInv /\ [Next]_vars => IInv'
<1> SUFFICES ASSUME IInv, [Next]_vars PROVE IInv'
  OBVIOUS
<1>1. ASSUME NEW s \in Starters, Start(s) PROVE IInv'
  BY <1>1, StartKeeps
<1>2. ASSUME NEW d \in Runs, Drive(d) \/ GiveUp(d) PROVE IInv'
  BY <1>2, AcquireKeeps, BeginStepKeeps, StepKeeps DEF Drive
<1>3. ASSUME NEW r \in Runs, RequestPause(r) \/ RequestResume(r) \/ BeginCancel(r) PROVE IInv'
  BY <1>3, RequestedKeeps, BeginCancelKeeps
<1>4. CASE CommitCancel \/ AbortCancel
  BY <1>4, EndCancelKeeps
<1>5. CASE Respond
  BY <1>5, RespondKeeps
<1>6. CASE UNCHANGED vars
  BY <1>6 DEF vars, startVars, stepVars, IInv, TypeOK, NothingBeforeStart, KeyTells,
              CompletedIsAnswered, LocksHold, ReadsHold, View, Read, CanCancel
<1> QED
  BY <1>1, <1>2, <1>3, <1>4, <1>5, <1>6 DEF Next

LEMMA Invariance == Spec => []IInv
  BY InitHolds, NextKeeps, PTL DEF Spec

\* The types of the rows, of the steps and of the open cancel request, and that
\* a driver is stepping exactly while a run is being executed for it.
THEOREM TypeCorrect == Spec => []TypeOK
<1>1. IInv => TypeOK
  BY DEF IInv
<1> QED
  BY <1>1, Invariance, PTL

\* A human's request is answered at most once, and no run of the chain
\* completes without that answer, whatever the interleaving of steps, control
\* requests and responses (runs/human-feedback response route and awaitChild).
THEOREM OneAnswer == Spec => []AnsweredOnce
<1>1. IInv => AnsweredOnce
  BY DEF IInv, CompletedIsAnswered, AnsweredOnce
<1> QED
  BY <1>1, Invariance, PTL

\* All starts with one idempotency key agree on one run that exists.
THEOREM OneRunPerKey == Spec => []StartsAgree
<1>1. IInv => StartsAgree
  <2> SUFFICES ASSUME IInv, NEW s \in Starters
               PROVE  /\ start[s] # "unknown"
                      /\ start[s] = "existing" => \E t \in Starters \ {s} : start[t] = "created"
                      /\ start[s] = "created" => \A t \in Starters \ {s} : start[t] # "created"
    BY DEF StartsAgree
  <2>1. key \in {"free", "reserved", "committed"} /\ KeyTells
    BY DEF IInv, TypeOK
  <2>2. CASE key = "free"
    BY <2>1, <2>2 DEF KeyTells
  <2>3. CASE key = "reserved"
    <3>1. PICK u \in Starters : /\ start[u] = "reserved"
                                /\ \A t \in Starters \ {u} : start[t] \in {"idle", "failed"}
      BY <2>1, <2>3 DEF KeyTells
    <3> QED
      BY <3>1
  <2>4. CASE key = "committed"
    <3>1. PICK u \in Starters : /\ start[u] = "created"
                                /\ \A t \in Starters \ {u} :
                                     start[t] \in {"idle", "failed", "existing"}
      BY <2>1, <2>4 DEF KeyTells
    <3> QED
      BY <3>1
  <2> QED
    BY <2>1, <2>2, <2>3, <2>4
<1> QED
  BY <1>1, Invariance, PTL

\* What EndedUnlessStale says of a step, for one run.
Permitted(r) ==
  /\ row[r] \in TerminalLifecycles /\ row'[r] # row[r] =>
       \/ CommitCancel /\ cancel.seen[r] \notin TerminalLifecycles
       \/ \E d \in Runs : /\ at[d] = d /\ at'[d] = 0
                          /\ \/ writes[d][r] # NotStarted
                             \/ r = d /\ snap[d][d] \notin TerminalLifecycles
  /\ \A d \in Runs :
       writes[d][r] = NotStarted /\ writes'[d][r] # NotStarted =>
         snap[d][r] \notin TerminalLifecycles

LEMMA ReturnPermitted ==
  ASSUME IInv, NEW d \in Runs, NEW r \in Runs, ReturnsWell(d)
  PROVE  Permitted(r)
<1>1. PICK written \in [Runs -> Values], lifecycle \in Lifecycles, progressed \in BOOLEAN :
        ReturnsWith(d, written, lifecycle, progressed)
  BY DEF ReturnsWell
<1>2. /\ Return(d, written, lifecycle, progressed)
      /\ written # writes[d] =>
           /\ Read(d) \notin TerminalLifecycles
           /\ \A q \in Runs \ {at[d]} : written[q] = writes[d][q]
  BY <1>1 DEF ReturnsWith, WritesLive
<1>3. writes[d][r] # written[r] => r = at[d] /\ snap[d][r] \notin TerminalLifecycles
  BY <1>2 DEF Read
<1>4. writes \in [Runs -> [Runs -> Values]] /\ at \in [Runs -> 0..Depth]
  BY DEF IInv, TypeOK
<1>5. CASE at[d] = d
  <2>1. /\ row' = [q \in Runs |-> IF written[q] # NotStarted THEN written[q] ELSE row[q]]
        /\ at' = [at EXCEPT ![d] = 0]
        /\ writes' = [writes EXCEPT ![d] = Nothing]
    BY <1>2, <1>5 DEF Return, EndTransaction
  <2>2. row'[r] # row[r] => written[r] # NotStarted
    BY <2>1
  <2>3. \A e \in Runs : writes'[e][r] = writes[e][r] \/ writes'[e][r] = NotStarted
    BY <1>4, <2>1, NothingType
  <2>4. at'[d] = 0
    BY <1>4, <2>1
  <2> QED
    BY <1>3, <1>5, <2>2, <2>3, <2>4 DEF Permitted
<1>6. CASE at[d] # d
  <2>1. writes' = [writes EXCEPT ![d] = written] /\ UNCHANGED row
    BY <1>2, <1>6 DEF Return
  <2>2. \A e \in Runs \ {d} : writes'[e][r] = writes[e][r]
    BY <1>4, <2>1
  <2>3. writes'[d][r] = written[r]
    BY <1>4, <2>1
  <2> QED
    BY <1>3, <2>1, <2>2, <2>3 DEF Permitted
<1> QED
  BY <1>5, <1>6

LEMMA StepPermitted ==
  ASSUME IInv, NEW d \in Runs, NEW r \in Runs, Step(d)
  PROVE  Permitted(r)
<1>1. writes \in [Runs -> [Runs -> Values]]
  BY DEF IInv, TypeOK
<1>2. CASE \/ SettleOnEntry(d) \/ AwaitResponse(d) \/ RejectLaunch(d) \/ FinishWithChild(d)
           \/ Park(d) \/ (PassSafePoint(d) /\ SafePointEnds(d, View(d, at[d])))
  BY <1>2, StepReturns, ReturnPermitted
<1>3. CASE \/ PassSafePoint(d) /\ ~SafePointEnds(d, View(d, at[d]))
           \/ ReenterChild(d)
  BY <1>3 DEF PassSafePoint, ReenterChild, Permitted
<1>4. CASE LaunchChild(d)
  <2> DEFINE child == at[d] + 1
  <2>1. /\ View(d, child) = NotStarted /\ row' = row
        /\ writes' = [writes EXCEPT ![d][child] = "running"]
    BY <1>4 DEF LaunchChild
  <2>2. child \in Runs
    BY <1>4, ChildFacts DEF LaunchChild
  <2>3. snap[d][child] = NotStarted
    BY <2>1, <2>2 DEF IInv, ReadsHold
  <2>4. NotStarted \notin TerminalLifecycles
    BY DEF NotStarted, TerminalLifecycles
  <2> HIDE DEF child
  <2>5. \A e \in Runs : writes'[e][r] # writes[e][r] => e = d /\ r = child
    BY <1>1, <2>1, <2>2
  <2> QED
    BY <2>1, <2>3, <2>4, <2>5 DEF Permitted
<1>5. CASE AbortStep(d)
  <2>1. row' = row /\ writes' = [writes EXCEPT ![d] = Nothing]
    BY <1>5 DEF AbortStep, EndTransaction
  <2>2. \A e \in Runs : writes'[e][r] = writes[e][r] \/ writes'[e][r] = NotStarted
    BY <1>1, <2>1, NothingType
  <2> QED
    BY <2>1, <2>2 DEF Permitted
<1> QED
  BY <1>2, <1>3, <1>4, <1>5 DEF Step

LEMMA NextPermitted ==
  ASSUME IInv, NEW r \in Runs, [Next]_vars
  PROVE  Permitted(r)
<1>1. row \in [Runs -> Values]
  BY DEF IInv, TypeOK
<1>2. ASSUME row[r] \in TerminalLifecycles => row'[r] = row[r], writes' = writes
      PROVE  Permitted(r)
  BY <1>2 DEF Permitted
<1>3. ASSUME NEW s \in Starters, Start(s) PROVE Permitted(r)
  <2>1. writes' = writes
    BY <1>3 DEF Start, ReserveKey, CreateRun, StartFails, FindExisting, stepVars
  <2>2. CASE CreateRun(s)
    <3>1. row[r] = NotStarted
      BY <2>2, NothingType DEF CreateRun, IInv, TypeOK, KeyTells, NothingBeforeStart
    <3> QED
      BY <1>2, <2>1, <3>1 DEF NotStarted, TerminalLifecycles
  <2>3. CASE ~CreateRun(s)
    BY <1>2, <1>3, <2>1, <2>3 DEF Start, ReserveKey, StartFails, FindExisting
  <2> QED
    BY <2>2, <2>3
<1>4. ASSUME NEW d \in Runs, Drive(d) \/ GiveUp(d) PROVE Permitted(r)
  <2>1. CASE Step(d)
    BY <2>1, StepPermitted
  <2>2. CASE Acquire(d) \/ GiveUp(d) \/ BeginStep(d)
    BY <1>2, <2>2 DEF Acquire, GiveUp, BeginStep, stepVars
  <2> QED
    BY <1>4, <2>1, <2>2 DEF Drive
<1>5. ASSUME NEW q \in Runs, RequestPause(q) \/ RequestResume(q) PROVE Permitted(r)
  <2>1. row[q] \notin TerminalLifecycles
    BY <1>5 DEF RequestPause, RequestResume, CanPause, CanResume, TerminalLifecycles
  <2>2. writes' = writes /\ (r # q => row'[r] = row[r])
    BY <1>1, <1>5 DEF RequestPause, RequestResume, Request, ControlUnchanged, stepVars
  <2> QED
    BY <1>2, <2>1, <2>2
<1>6. ASSUME NEW q \in Runs, BeginCancel(q) PROVE Permitted(r)
  BY <1>2, <1>6 DEF BeginCancel, ControlUnchanged, stepVars
<1>7. CASE AbortCancel \/ UNCHANGED vars
  BY <1>2, <1>7 DEF AbortCancel, ControlUnchanged, vars, stepVars
<1>8. CASE CommitCancel
  <2>1. writes' = writes
    BY <1>8 DEF CommitCancel, ControlUnchanged, stepVars
  <2>2. row[cancel.run] \notin TerminalLifecycles
    BY <1>8 DEF CommitCancel, IInv, LocksHold, CanCancel, TerminalLifecycles
  <2>3. row'[r] # row[r] => r \in Marked \/ r = cancel.run
    BY <1>8 DEF CommitCancel
  <2>4. r \in Marked => cancel.seen[r] \notin TerminalLifecycles
    BY DEF Marked, TerminalLifecycles
  <2> QED
    BY <1>8, <2>1, <2>2, <2>3, <2>4 DEF Permitted
<1>9. CASE Respond
  <2>1. row[Feedback] \notin TerminalLifecycles
    BY <1>9 DEF Respond, TerminalLifecycles
  <2>2. writes' = writes /\ (r # Feedback => row'[r] = row[r])
    BY <1>1, <1>9 DEF Respond, stepVars
  <2> QED
    BY <1>2, <2>1, <2>2
<1> QED
  BY <1>3, <1>4, <1>5, <1>6, <1>7, <1>8, <1>9 DEF Next

\* An ended run changes only by a transaction that had read it before it ended,
\* and no step writes a run that it has seen ended: what remains of terminal
\* finality when children are stepped and marked without their run locks.
THEOREM EndedRunsChangeByStaleReads == Spec => EndedUnlessStale
<1> DEFINE A == \A r \in Runs : Permitted(r)
<1>1. IInv /\ [Next]_vars => A
  BY NextPermitted
<1>2. EndedUnlessStale <=> [][A]_vars
  BY DEF EndedUnlessStale, Permitted
<1> HIDE DEF A
<1> QED
  BY <1>1, <1>2, Invariance, PTL DEF Spec

-----------------------------------------------------------------------------
(* The projection, and starts as instants.                                 *)

ProjectionInv == ProjectionAgrees /\ WritesProject

\* No run of the chain is ever gone.
RowsStay == \A r \in Runs : row[r] # NotStarted => row'[r] # NotStarted

\* What the projection needs of a step that leaves the open steps alone.
LEMMA RowsProject ==
  ASSUME IInv, ProjectionInv, RowsStay, UNCHANGED writes,
         \A r \in Runs : row'[r] # NotStarted => row[r] # NotStarted \/ r = 1,
         request' = request,
         row'[Feedback] \in TerminalLifecycles => row[Feedback] \in TerminalLifecycles,
         cancel'.run # 0 =>
           \A r \in Runs : cancel'.seen[r] # NotStarted => row'[r] # NotStarted
  PROVE  ProjectionInv'
<1>1. /\ 1 \in Runs /\ Feedback \in Runs /\ Feedback # 1
      /\ \A r \in Runs \ {1} : r - 1 \in Runs
  BY Chain DEF Runs, Feedback
<1>2. request' = "none" <=> row'[Feedback] = NotStarted
  BY <1>1 DEF ProjectionInv, ProjectionAgrees, RowsStay
<1>3. \A r \in Runs \ {1} : row'[r] # NotStarted => row'[r - 1] # NotStarted
  BY <1>1 DEF ProjectionInv, ProjectionAgrees, RowsStay
<1>4. ProjectionAgrees'
  BY <1>2, <1>3 DEF ProjectionInv, ProjectionAgrees, Feedback
<1>5. WritesProject'
  BY <1>1 DEF ProjectionInv, WritesProject, View, RowsStay, Feedback
<1> QED
  BY <1>4, <1>5 DEF ProjectionInv

\* What it needs of a step that only works on its own writes.
LEMMA WritesKept ==
  ASSUME IInv, ProjectionInv, UNCHANGED <<row, request, cancel>>,
         NEW d \in Runs, NEW written, writes' = [writes EXCEPT ![d] = written],
         written[Feedback] \notin {"completed", "failed"},
         \A r \in Runs \ {1} : written[r] # NotStarted =>
           written[r - 1] # NotStarted \/ row[r - 1] # NotStarted
  PROVE  ProjectionInv'
<1>1. writes \in [Runs -> [Runs -> Values]]
  BY DEF IInv, TypeOK
<1>2. writes'[d] = written /\ \A e \in Runs \ {d} : writes'[e] = writes[e]
  BY <1>1
<1>3. ProjectionAgrees'
  BY DEF ProjectionInv, ProjectionAgrees, Feedback
<1>4. WritesProject'
  BY <1>2 DEF ProjectionInv, WritesProject, View, Feedback
<1> QED
  BY <1>3, <1>4 DEF ProjectionInv

\* What a step returns fits the projection as its own writes did.
LEMMA ReturnedProjects ==
  ASSUME IInv, ProjectionInv, NEW d \in Runs,
         NEW written \in [Runs -> Values], NEW lifecycle \in Lifecycles,
         NEW progressed \in BOOLEAN, ReturnsWith(d, written, lifecycle, progressed)
  PROVE  /\ written[Feedback] \notin {"completed", "failed"}
         /\ \A r \in Runs \ {1} : written[r] # NotStarted =>
              written[r - 1] # NotStarted \/ row[r - 1] # NotStarted
<1>1. /\ at[d] \in Runs /\ Feedback \in Runs
      /\ \A r \in Runs \ {1} : r - 1 \in Runs
      /\ writes[d] \in [Runs -> Values]
  BY DriverTypes, Chain DEF ReturnsWith, Returnable, Runs
<1>2. /\ writes[d][Feedback] \notin {"completed", "failed"}
      /\ \A r \in Runs \ {1} : writes[d][r] # NotStarted => View(d, r - 1) # NotStarted
  BY DEF ProjectionInv, WritesProject
<1>3. CASE written = writes[d]
  BY <1>1, <1>2, <1>3 DEF View
<1>4. CASE written # writes[d]
  <2> DEFINE r == at[d]
  <2>1. /\ written = Wrote(d, r, lifecycle) /\ WritesLive(d, lifecycle)
        /\ lifecycle # NotStarted
    BY <1>4, NotStartedApart DEF ReturnsWith, Returnable
  <2>2. written[r] = lifecycle /\ \A q \in Runs \ {r} : written[q] = writes[d][q]
    BY <1>1, <2>1 DEF Wrote
  <2>3. View(d, r) # NotStarted
    BY <1>1, <2>1, NotStartedApart DEF IInv, ReadsHold, WritesLive, Read
  <2>4. r # 1 => View(d, r - 1) # NotStarted
    BY <1>1, <1>2, <2>3 DEF View, ProjectionInv, ProjectionAgrees
  <2>5. \A q \in Runs \ {1} : written[q] # NotStarted =>
          written[q - 1] # NotStarted \/ row[q - 1] # NotStarted
    BY <1>1, <1>2, <2>1, <2>2, <2>4 DEF View
  <2>6. written[Feedback] \notin {"completed", "failed"}
    BY <1>1, <1>2, <2>1, <2>2 DEF WritesLive
  <2> QED
    BY <2>5, <2>6
<1> QED
  BY <1>3, <1>4

LEMMA ReturnProjects ==
  ASSUME IInv, ProjectionInv, NEW d \in Runs, ReturnsWell(d), UNCHANGED stepUnchanged
  PROVE  ProjectionInv' /\ RowsStay
<1>1. PICK written \in [Runs -> Values], lifecycle \in Lifecycles, progressed \in BOOLEAN :
        ReturnsWith(d, written, lifecycle, progressed)
  BY DEF ReturnsWell
<1>2. /\ written[Feedback] \notin {"completed", "failed"}
      /\ \A r \in Runs \ {1} : written[r] # NotStarted =>
           written[r - 1] # NotStarted \/ row[r - 1] # NotStarted
  BY <1>1, ReturnedProjects
<1>3. Return(d, written, lifecycle, progressed) /\ cancel' = cancel
  BY <1>1 DEF ReturnsWith, stepUnchanged
<1>4. /\ writes \in [Runs -> [Runs -> Values]] /\ row \in [Runs -> Values]
      /\ Feedback \in Runs /\ \A r \in Runs \ {1} : r - 1 \in Runs
  BY Chain DEF IInv, TypeOK, Runs
<1>5. CASE at[d] # d
  <2>1. writes' = [writes EXCEPT ![d] = written] /\ UNCHANGED <<row, request>>
    BY <1>3, <1>5 DEF Return
  <2> QED
    BY <1>2, <1>3, <2>1, WritesKept DEF RowsStay
<1>6. CASE at[d] = d
  <2>1. /\ row' = [q \in Runs |-> IF written[q] # NotStarted THEN written[q] ELSE row[q]]
        /\ request' = RequestAfter(written)
        /\ writes' = [writes EXCEPT ![d] = Nothing]
    BY <1>3, <1>6 DEF Return, EndTransaction
  <2>2. RowsStay
    BY <2>1 DEF RowsStay
  <2>3. request' = "none" <=> row'[Feedback] = NotStarted
    BY <1>4, <2>1 DEF RequestAfter, ProjectionInv, ProjectionAgrees, NotStarted
  <2>4. request' = "awaiting_response" => row'[Feedback] \notin TerminalLifecycles
    BY <1>2, <1>4, <2>1
       DEF RequestAfter, ProjectionInv, ProjectionAgrees, TerminalLifecycles, NotStarted
  <2>5. \A r \in Runs \ {1} : row'[r] # NotStarted => row'[r - 1] # NotStarted
    BY <1>2, <1>4, <2>1 DEF ProjectionInv, ProjectionAgrees
  <2>6. ProjectionAgrees'
    BY <2>3, <2>4, <2>5 DEF ProjectionAgrees, Feedback
  <2>7. /\ \A q \in Runs : writes'[d][q] = NotStarted
        /\ \A e \in Runs \ {d} : writes'[e] = writes[e]
    BY <1>4, <2>1, NothingType
  <2>8. \A e \in Runs : writes'[e][Feedback] \notin {"completed", "failed"}
    BY <1>4, <2>7 DEF ProjectionInv, WritesProject, NotStarted
  <2>9. \A e \in Runs : \A r \in Runs \ {1} :
          writes'[e][r] # NotStarted => writes'[e][r - 1] # NotStarted \/ row'[r - 1] # NotStarted
    BY <1>4, <2>2, <2>7 DEF ProjectionInv, WritesProject, View, RowsStay
  <2>10. cancel'.run # 0 =>
           \A r \in Runs : cancel'.seen[r] # NotStarted => row'[r] # NotStarted
    BY <1>3, <2>2 DEF ProjectionInv, WritesProject, RowsStay
  <2>11. WritesProject'
    BY <2>8, <2>9, <2>10 DEF WritesProject, View, Feedback
  <2> QED
    BY <2>2, <2>6, <2>11 DEF ProjectionInv
<1> QED
  BY <1>5, <1>6

LEMMA LaunchProjects ==
  ASSUME IInv, ProjectionInv, NEW d \in Runs, LaunchChild(d)
  PROVE  ProjectionInv'
<1> DEFINE child == at[d] + 1
           written == [writes[d] EXCEPT ![child] = "running"]
<1>1. /\ at[d] \in Runs /\ child \in Runs /\ snap[d][at[d]] = "running"
      /\ Feedback \in Runs
      /\ \A r \in Runs \ {1} : r - 1 \in Runs
      /\ child - 1 = at[d]
  BY ChildFacts, Chain DEF LaunchChild, Runs
<1>2. /\ writes[d] \in [Runs -> Values] /\ writes \in [Runs -> [Runs -> Values]]
  BY DriverTypes DEF IInv, TypeOK
<1>3. /\ UNCHANGED <<row, request, cancel>>
      /\ writes' = [writes EXCEPT ![d] = written]
  BY <1>2 DEF LaunchChild, stepUnchanged
<1>4. View(d, at[d]) # NotStarted
  BY <1>1 DEF IInv, ReadsHold, NotStarted
<1>5. written[child] = "running" /\ \A q \in Runs \ {child} : written[q] = writes[d][q]
  BY <1>1, <1>2
<1> HIDE DEF child, written
<1>6. written[Feedback] \notin {"completed", "failed"}
  BY <1>1, <1>5 DEF ProjectionInv, WritesProject
<1>7. \A r \in Runs \ {1} : written[r] # NotStarted =>
        written[r - 1] # NotStarted \/ row[r - 1] # NotStarted
  <2>1. \A r \in Runs \ {1} : writes[d][r] # NotStarted =>
          writes[d][r - 1] # NotStarted \/ row[r - 1] # NotStarted
    BY DEF ProjectionInv, WritesProject, View
  <2>2. \A q \in Runs : writes[d][q] # NotStarted => written[q] # NotStarted
    BY <1>5 DEF NotStarted
  <2>3. ASSUME NEW r \in Runs \ {1}, r = child
        PROVE  written[r - 1] # NotStarted \/ row[r - 1] # NotStarted
    BY <1>1, <1>4, <2>2, <2>3 DEF View
  <2>4. ASSUME NEW r \in Runs \ {1}, r # child, written[r] # NotStarted
        PROVE  written[r - 1] # NotStarted \/ row[r - 1] # NotStarted
    BY <1>1, <1>5, <2>1, <2>2, <2>4
  <2> QED
    BY <2>3, <2>4
<1> QED
  BY <1>3, <1>6, <1>7, WritesKept

LEMMA DriveProjects ==
  ASSUME IInv, ProjectionInv, NEW d \in Runs, Drive(d) \/ GiveUp(d)
  PROVE  ProjectionInv' /\ RowsStay
<1>1. CASE \/ SettleOnEntry(d) \/ AwaitResponse(d) \/ RejectLaunch(d) \/ FinishWithChild(d)
           \/ Park(d) \/ (PassSafePoint(d) /\ SafePointEnds(d, View(d, at[d])))
  BY <1>1, StepReturns, ReturnProjects
<1>2. CASE LaunchChild(d)
  <2>1. row' = row
    BY <1>2 DEF LaunchChild
  <2> QED
    BY <1>2, <2>1, LaunchProjects DEF RowsStay
<1>3. CASE AbortStep(d)
  <2>1. UNCHANGED <<row, request, cancel>> /\ writes' = [writes EXCEPT ![d] = Nothing]
    BY <1>3 DEF AbortStep, EndTransaction
  <2>2. /\ Nothing[Feedback] \notin {"completed", "failed"}
        /\ \A r \in Runs : Nothing[r] = NotStarted
    BY NothingType, Chain DEF NotStarted
  <2> QED
    BY <2>1, <2>2, WritesKept DEF RowsStay
<1>4. CASE \/ PassSafePoint(d) /\ ~SafePointEnds(d, View(d, at[d]))
           \/ ReenterChild(d) \/ Acquire(d) \/ GiveUp(d) \/ BeginStep(d)
  <2>1. UNCHANGED <<row, request, writes, cancel>>
    BY <1>4 DEF PassSafePoint, ReenterChild, Acquire, GiveUp, BeginStep, stepVars, stepUnchanged
  <2> QED
    BY <2>1, RowsProject DEF RowsStay, ProjectionInv, WritesProject
<1> QED
  BY <1>1, <1>2, <1>3, <1>4 DEF Drive, Step

LEMMA ControlProjects ==
  ASSUME IInv, ProjectionInv,
         \/ \E r \in Runs : RequestPause(r) \/ RequestResume(r) \/ BeginCancel(r)
         \/ CommitCancel \/ AbortCancel \/ Respond
  PROVE  ProjectionInv' /\ RowsStay
<1>1. /\ row \in [Runs -> Values] /\ Feedback \in Runs
      /\ cancel.run # 0 => cancel.run \in Runs
      /\ \A r \in Runs \ {1} : r - 1 \in Runs
  BY Chain DEF IInv, TypeOK, Runs
<1>2. ASSUME NEW r \in Runs, RequestPause(r) \/ RequestResume(r)
      PROVE  ProjectionInv' /\ RowsStay
  <2>1. PICK lifecycle \in {"pausing", "resuming"} : Request(r, lifecycle)
    BY <1>2 DEF RequestPause, RequestResume
  <2>2. row[r] # NotStarted
    BY <1>2 DEF RequestPause, RequestResume, CanPause, CanResume, NotStarted
  <2>3. /\ row' = [row EXCEPT ![r] = lifecycle]
        /\ UNCHANGED <<cancel, request, writes>>
    BY <2>1 DEF Request, ControlUnchanged, stepVars
  <2>4. lifecycle # NotStarted /\ lifecycle \notin TerminalLifecycles
    BY DEF NotStarted, TerminalLifecycles
  <2>5. RowsStay
    BY <1>1, <2>3, <2>4 DEF RowsStay
  <2>6. /\ \A q \in Runs : row'[q] # NotStarted => row[q] # NotStarted
        /\ row'[Feedback] \in TerminalLifecycles => row[Feedback] \in TerminalLifecycles
    BY <1>1, <2>2, <2>3, <2>4
  <2>7. cancel'.run # 0 =>
          \A q \in Runs : cancel'.seen[q] # NotStarted => row'[q] # NotStarted
    BY <2>3, <2>5 DEF ProjectionInv, WritesProject, RowsStay
  <2> QED
    BY <2>3, <2>5, <2>6, <2>7, RowsProject
<1>3. ASSUME NEW r \in Runs, BeginCancel(r) PROVE ProjectionInv' /\ RowsStay
  <2>1. /\ UNCHANGED <<row, request, writes>>
        /\ cancel' = [run |-> r, seen |-> [q \in Runs |-> IF q > r THEN row[q] ELSE NotStarted]]
    BY <1>3 DEF BeginCancel, ControlUnchanged, stepVars
  <2> QED
    BY <2>1, RowsProject DEF RowsStay
<1>4. CASE CommitCancel \/ AbortCancel
  <2>1. /\ cancel.run # 0 /\ cancel' = NoCancel /\ UNCHANGED <<request, writes>>
        /\ \A q \in Runs : row'[q] = row[q]
                           \/ (row'[q] = "cancelling" /\ q \in Marked \cup {cancel.run})
    BY <1>4 DEF CommitCancel, AbortCancel, ControlUnchanged, stepVars
  <2>2. \A q \in Marked \cup {cancel.run} : row[q] # NotStarted
    <3>1. row[cancel.run] # NotStarted
      BY <2>1 DEF IInv, LocksHold, CanCancel, NotStarted
    <3>2. \A q \in Marked : q \in Runs /\ cancel.seen[q] # NotStarted
      BY DEF Marked, NotStarted
    <3> QED
      BY <2>1, <3>1, <3>2 DEF ProjectionInv, WritesProject
  <2>3. RowsStay /\ \A q \in Runs : row'[q] # NotStarted => row[q] # NotStarted
    BY <2>1, <2>2 DEF RowsStay, NotStarted
  <2>4. row'[Feedback] \in TerminalLifecycles => row[Feedback] \in TerminalLifecycles
    BY <1>1, <2>1 DEF TerminalLifecycles
  <2>5. cancel'.run = 0
    BY <2>1 DEF NoCancel
  <2> QED
    BY <2>1, <2>3, <2>4, <2>5, RowsProject
<1>5. CASE Respond
  <2>1. /\ request' = "responded" /\ row[Feedback] = "running"
        /\ row' = [row EXCEPT ![Feedback] = "completed"]
        /\ UNCHANGED <<writes, cancel>>
    BY <1>5 DEF Respond, stepVars
  <2>2. /\ row'[Feedback] = "completed" /\ row'[Feedback] # NotStarted
        /\ \A q \in Runs \ {Feedback} : row'[q] = row[q]
    BY <1>1, <2>1 DEF NotStarted
  <2>3. RowsStay
    BY <2>2 DEF RowsStay
  <2>4. \A q \in Runs : row'[q] # NotStarted => row[q] # NotStarted
    BY <2>1, <2>2 DEF NotStarted
  <2>5. \A r \in Runs \ {1} : row'[r] # NotStarted => row'[r - 1] # NotStarted
    BY <1>1, <2>3, <2>4 DEF ProjectionInv, ProjectionAgrees, RowsStay
  <2>6. ProjectionAgrees'
    BY <2>1, <2>2, <2>5 DEF ProjectionAgrees, Feedback
  <2>7. WritesProject'
    BY <1>1, <2>1, <2>3 DEF ProjectionInv, WritesProject, View, RowsStay, Feedback
  <2> QED
    BY <2>3, <2>6, <2>7 DEF ProjectionInv
<1> QED
  BY <1>2, <1>3, <1>4, <1>5

\* The start that creates the root is the first thing that happens to the chain.
LEMMA CreatesFirst ==
  ASSUME IInv, NEW s \in Starters, CreateRun(s)
  PROVE  row = Nothing /\ cancel = NoCancel
<1>1. key = "reserved"
  BY DEF CreateRun, IInv, TypeOK, KeyTells
<1> QED
  BY <1>1 DEF IInv, NothingBeforeStart

LEMMA StartProjects ==
  ASSUME IInv, ProjectionInv, NEW s \in Starters, Start(s)
  PROVE  ProjectionInv' /\ RowsStay
<1>1. UNCHANGED <<request, writes, cancel>>
  BY DEF Start, ReserveKey, CreateRun, StartFails, FindExisting, stepVars
<1>2. CASE row' = row
  BY <1>1, <1>2, RowsProject DEF RowsStay, ProjectionInv, WritesProject
<1>3. CASE CreateRun(s)
  <2>1. row' = [row EXCEPT ![1] = "running"]
    BY <1>3 DEF CreateRun
  <2>2. /\ \A q \in Runs : row[q] = NotStarted
        /\ cancel'.run = 0
        /\ row \in [Runs -> Values]
    BY <1>1, <1>3, CreatesFirst, NothingType DEF NoCancel, IInv, TypeOK
  <2>3. /\ RowsStay
        /\ \A r \in Runs : row'[r] # NotStarted => row[r] # NotStarted \/ r = 1
        /\ row'[Feedback] \notin TerminalLifecycles
    BY <2>1, <2>2, Chain DEF RowsStay, TerminalLifecycles, NotStarted
  <2> QED
    BY <1>1, <2>2, <2>3, RowsProject
<1>4. CASE ~CreateRun(s)
  BY <1>2, <1>4 DEF Start, ReserveKey, StartFails, FindExisting
<1> QED
  BY <1>3, <1>4

LEMMA NextProjects ==
  ASSUME IInv, ProjectionInv, [Next]_vars
  PROVE  ProjectionInv' /\ RowsStay
<1>1. CASE UNCHANGED vars
  <2>1. UNCHANGED <<row, request, writes, cancel>>
    BY <1>1 DEF vars, stepVars
  <2> QED
    BY <2>1, RowsProject DEF RowsStay, ProjectionInv, WritesProject
<1> QED
  BY <1>1, DriveProjects, ControlProjects, StartProjects DEF Next

LEMMA ProjectionHolds == Spec => []ProjectionInv
<1>1. Init => ProjectionInv
  <2> SUFFICES ASSUME Init PROVE ProjectionInv
    OBVIOUS
  <2>1. \A r \in Runs : row[r] = NotStarted /\ \A d \in Runs : writes[d][r] = NotStarted
    BY NothingType DEF Init
  <2>2. cancel.run = 0 /\ request = "none" /\ Feedback \in Runs
    BY Chain DEF Init, NoCancel
  <2>3. ProjectionAgrees
    BY <2>1, <2>2 DEF ProjectionAgrees
  <2>4. WritesProject
    BY <2>1, <2>2 DEF WritesProject, NotStarted
  <2> QED
    BY <2>3, <2>4 DEF ProjectionInv
<1>2. IInv /\ ProjectionInv /\ [Next]_vars => ProjectionInv'
  BY NextProjects
<1> QED
  BY <1>1, <1>2, Invariance, PTL DEF Spec

\* The human_feedback_requests projection never shows an open request of a run
\* that has ended, has one request for each feedback run, and the chain has no
\* run without its parent (launch-child.ts, human-feedback projection).
THEOREM ProjectionMatchesRuns == Spec => []ProjectionAgrees
<1>1. ProjectionInv => ProjectionAgrees
  BY DEF ProjectionInv
<1> QED
  BY <1>1, ProjectionHolds, PTL

LEMMA StartStep ==
  ASSUME IInv, IInv', ProjectionInv, [Next]_vars
  PROVE  [KeyedStart!Next]_(KeyedStart!vars)
<1>1. /\ start \in [Starters -> {"idle", "reserved", "created", "existing", "unknown", "failed"}]
      /\ row \in [Runs -> Values] /\ key \in {"free", "reserved", "committed"} /\ 1 \in Runs
  BY Chain DEF IInv, TypeOK
<1>2. CASE start' = start /\ key' = key
  <2>1. row[1] # NotStarted => row'[1] # NotStarted
    BY <1>1, NextProjects DEF RowsStay
  <2>2. row[1] = NotStarted => row'[1] = NotStarted
    <3>1. SUFFICES ASSUME row[1] = NotStarted PROVE row'[1] = NotStarted
      OBVIOUS
    <3>2. key # "committed"
      BY <3>1 DEF IInv, KeyTells
    <3>3. row' = Nothing
      BY <1>2, <3>2 DEF IInv, NothingBeforeStart, Nothing
    <3> QED
      BY <1>1, <3>3, NothingType
  <2>3. answers' = answers
    BY <1>2 DEF answers
  <2> QED
    BY <2>1, <2>2, <2>3 DEF KeyedStart!vars
<1>3. ASSUME NEW s \in Starters, NEW with \in {"created", "existing", "failed"},
             start[s] \in {"idle", "reserved"}, start' = [start EXCEPT ![s] = with]
      PROVE  KeyedStart!Answer(s, with)
  <2>1. answers[s] = "none"
    BY <1>3 DEF answers
  <2>2. answers' = [answers EXCEPT ![s] = with]
    BY <1>1, <1>3 DEF answers
  <2> QED
    BY <2>1, <2>2 DEF KeyedStart!Answer
<1>4. ASSUME NEW s \in Starters, ReserveKey(s) PROVE UNCHANGED KeyedStart!vars
  <2>1. start[s] = "idle" /\ start' = [start EXCEPT ![s] = "reserved"] /\ row' = row
    BY <1>4 DEF ReserveKey
  <2>2. answers' = answers
    BY <1>1, <2>1 DEF answers
  <2> QED
    BY <2>1, <2>2 DEF KeyedStart!vars
<1>5. ASSUME NEW s \in Starters, CreateRun(s) PROVE KeyedStart!Create(s)
  <2>1. row[1] = NotStarted /\ row'[1] # NotStarted
    BY <1>1, <1>5, CreatesFirst, NothingType DEF CreateRun, NotStarted
  <2>2. KeyedStart!Answer(s, "created")
    BY <1>3, <1>5 DEF CreateRun
  <2> QED
    BY <2>1, <2>2 DEF KeyedStart!Create
<1>6. ASSUME NEW s \in Starters, StartFails(s) PROVE KeyedStart!Fail(s)
  BY <1>3, <1>6 DEF StartFails, KeyedStart!Fail
<1>7. ASSUME NEW s \in Starters, FindExisting(s) PROVE KeyedStart!Find(s)
  <2>1. row[1] # NotStarted /\ row' = row
    BY <1>7 DEF FindExisting, IInv, KeyTells
  <2>2. KeyedStart!Answer(s, "existing")
    BY <1>3, <1>7, <2>1 DEF FindExisting
  <2> QED
    BY <2>1, <2>2 DEF KeyedStart!Find
<1>8. ASSUME NEW d \in Runs, Drive(d) \/ GiveUp(d) PROVE start' = start /\ key' = key
  BY <1>8 DEF Drive, Step, Acquire, GiveUp, BeginStep, SettleOnEntry, AwaitResponse, PassSafePoint,
              RejectLaunch, LaunchChild, ReenterChild, FinishWithChild, Park, AbortStep,
              stepUnchanged, startVars
<1>9. CASE \/ \E r \in Runs : RequestPause(r) \/ RequestResume(r) \/ BeginCancel(r)
           \/ CommitCancel \/ AbortCancel \/ Respond \/ UNCHANGED vars
  <2>1. start' = start /\ key' = key
    BY <1>9 DEF RequestPause, RequestResume, Request, BeginCancel, CommitCancel, AbortCancel,
                Respond, ControlUnchanged, startVars, vars
  <2> QED
    BY <1>2, <2>1
<1> QED
  BY <1>2, <1>4, <1>5, <1>6, <1>7, <1>8, <1>9 DEF Next, Start, KeyedStart!Next

\* To its clients a keyed start is one instant: the first that does not fail
\* creates the run, for good, and every later one finds it (start-run.ts
\* 173-265, the unique index of run_idempotency_keys).
THEOREM KeyedStartsAreInstants == Spec => StartsAtOnce
<1>1. Init => KeyedStart!Init
  <2> SUFFICES ASSUME Init PROVE KeyedStart!Init
    OBVIOUS
  <2>1. row[1] = NotStarted
    BY NothingType, Chain DEF Init
  <2> QED
    BY <2>1 DEF Init, KeyedStart!Init, answers
<1>2. IInv /\ IInv' /\ ProjectionInv /\ [Next]_vars =>
        [KeyedStart!Next]_(KeyedStart!vars)
  BY StartStep
<1> QED
  BY <1>1, <1>2, Invariance, ProjectionHolds, PTL DEF Spec, StartsAtOnce, KeyedStart!Spec
-----------------------------------------------------------------------------
(* After the answer.                                                       *)

\* The returns of a step: it writes its run, and is stepped again unless that
\* has ended; or it leaves its run, which it finds paused or ended; or it waits
\* for the response.
WritesItsRun(d, lifecycle) ==
  /\ lifecycle \in Lifecycles \ Settling
  /\ at[d] = Feedback => lifecycle # "completed"
  /\ Return(d, Wrote(d, at[d], lifecycle), lifecycle, TRUE)

LeavesItsRun(d, lifecycle) ==
  /\ lifecycle \in TerminalLifecycles \cup {"paused"}
  /\ lifecycle = View(d, at[d]) \/ (phase[d] = "entered" /\ lifecycle = Read(d))
  /\ Return(d, writes[d], lifecycle, FALSE)

Waits(d) ==
  /\ at[d] = Feedback \/ phase[d] = "parking"
  /\ Return(d, writes[d], "running", FALSE)

LEMMA SafePointOutcome ==
  ASSUME NEW d \in Runs, NEW found, SafePointEnds(d, found),
         found = View(d, at[d]) \/ (phase[d] = "entered" /\ found = Read(d))
  PROVE  \E lifecycle \in Lifecycles : WritesItsRun(d, lifecycle) \/ LeavesItsRun(d, lifecycle)
<1>1. CASE /\ found \in Settling
           /\ Return(d, Wrote(d, at[d], SettledLifecycle(found)), SettledLifecycle(found), TRUE)
  <2>1. SettledLifecycle(found) \in Lifecycles \ Settling /\ SettledLifecycle(found) # "completed"
    BY <1>1 DEF Settling, SettledLifecycle, Lifecycles
  <2> QED
    BY <1>1, <2>1 DEF WritesItsRun
<1>2. CASE /\ found \in TerminalLifecycles \cup {"paused"}
           /\ Return(d, writes[d], found, FALSE)
  <2>1. found \in Lifecycles
    BY <1>2 DEF TerminalLifecycles, Lifecycles
  <2> QED
    BY <1>2, <2>1 DEF LeavesItsRun
<1> QED
  BY <1>1, <1>2 DEF SafePointEnds

LEMMA ReturnOutcome ==
  ASSUME IInv, NEW d \in Runs,
         \/ SettleOnEntry(d) \/ AwaitResponse(d) \/ RejectLaunch(d) \/ FinishWithChild(d)
         \/ Park(d) \/ (PassSafePoint(d) /\ SafePointEnds(d, View(d, at[d])))
  PROVE  \/ \E lifecycle \in Lifecycles : WritesItsRun(d, lifecycle) \/ LeavesItsRun(d, lifecycle)
         \/ Waits(d)
<1>1. CASE SettleOnEntry(d)
  BY <1>1, SafePointOutcome DEF SettleOnEntry, Stepping
<1>2. CASE AwaitResponse(d)
  BY <1>2 DEF AwaitResponse, Waits
<1>3. CASE RejectLaunch(d)
  <2>1. "failed" \in Lifecycles \ Settling /\ "failed" # "completed"
    BY DEF Lifecycles, Settling
  <2> QED
    BY <1>3, <2>1 DEF RejectLaunch, WritesItsRun
<1>4. CASE FinishWithChild(d)
  <2> DEFINE end == Outcome(snap[d][at[d] + 1])
  <2>1. end \in Lifecycles \ Settling /\ at[d] # Feedback
    BY <1>4 DEF Outcome, Lifecycles, Settling, FinishWithChild, Stepping, IInv, ReadsHold
  <2>2. SafePointEnds(d, View(d, at[d])) \/ Return(d, Wrote(d, at[d], end), end, TRUE)
    BY <1>4 DEF FinishWithChild
  <2> HIDE DEF end
  <2> QED
    BY <2>1, <2>2, SafePointOutcome DEF WritesItsRun
<1>5. CASE Park(d)
  <2>1. SafePointEnds(d, View(d, at[d])) \/ Return(d, writes[d], "running", FALSE)
    BY <1>5 DEF Park
  <2> QED
    BY <1>5, <2>1, SafePointOutcome DEF Park, Stepping, Waits
<1>6. CASE PassSafePoint(d) /\ SafePointEnds(d, View(d, at[d]))
  BY <1>6, SafePointOutcome
<1> QED
  BY <1>1, <1>2, <1>3, <1>4, <1>5, <1>6

LEMMA AnswerRuns ==
  /\ Parent \in Runs /\ Feedback \in Runs /\ Parent # Feedback /\ Parent < Feedback
  /\ Parent + 1 = Feedback /\ Feedback - 1 = Parent /\ Feedback # 1 /\ Parent # 0
  BY Chain DEF Parent, Feedback, Runs

\* What a return does to the driver that makes it, and to the rows, when it writes
\* its run and when it does not.
LEMMA WritingEffect ==
  ASSUME IInv, WritesBelow, NEW d \in Runs, at[d] # 0, NEW lifecycle \in Lifecycles,
         WritesItsRun(d, lifecycle)
  PROVE  /\ at[d] = d =>
              /\ \A q \in Runs \ {d} :
                   row'[q] = IF writes[d][q] # NotStarted THEN writes[d][q] ELSE row[q]
              /\ row'[d] = lifecycle
              /\ \A q \in Runs : writes'[d][q] = NotStarted
              /\ lifecycle \notin TerminalLifecycles => driver'[d] = "ready"
         /\ at[d] # d =>
              /\ row' = row
              /\ \A q \in Runs \ {at[d]} : writes'[d][q] = writes[d][q]
              /\ writes'[d][at[d]] = lifecycle
              /\ lifecycle \notin TerminalLifecycles =>
                   at'[d] = at[d] /\ phase'[d] = "entered" /\ snap'[d][at[d]] = lifecycle
<1> DEFINE written == Wrote(d, at[d], lifecycle)
<1>1. /\ at[d] \in Runs /\ d <= at[d] /\ row \in [Runs -> Values]
      /\ writes[d] \in [Runs -> Values] /\ snap[d] \in [Runs -> Values]
      /\ writes \in [Runs -> [Runs -> Values]] /\ snap \in [Runs -> [Runs -> Values]]
      /\ at \in [Runs -> 0..Depth]
      /\ phase \in [Runs -> {"entered", "checked", "parking", "ended"}]
      /\ driver \in [Runs -> {"idle", "ready", "step"}]
  BY DriverTypes DEF IInv, TypeOK
<1>2. /\ \A q \in Runs \ {at[d]} : written[q] = writes[d][q]
      /\ written[at[d]] = lifecycle
  BY <1>1 DEF Wrote
<1>3. Return(d, written, lifecycle, TRUE) /\ lifecycle # NotStarted
  BY NotStartedApart DEF WritesItsRun
<1> HIDE DEF written
<1>4. CASE at[d] = d
  <2>1. /\ row' = [q \in Runs |-> IF written[q] # NotStarted THEN written[q] ELSE row[q]]
        /\ driver' = [driver EXCEPT ![d] = IF lifecycle \notin TerminalLifecycles
                                           THEN "ready" ELSE "idle"]
        /\ writes' = [writes EXCEPT ![d] = Nothing]
    BY <1>3, <1>4 DEF Return, EndTransaction
  <2> QED
    BY <1>1, <1>2, <1>3, <1>4, <2>1, NothingType
<1>5. CASE at[d] # d
  <2>1. /\ row' = row
        /\ writes' = [writes EXCEPT ![d] = written]
        /\ snap' = [snap EXCEPT ![d][at[d]] = lifecycle]
        /\ lifecycle \notin TerminalLifecycles =>
             /\ at' = [at EXCEPT ![d] = at[d]]
             /\ phase' = [phase EXCEPT ![d] = "entered"]
    BY <1>3, <1>5 DEF Return
  <2>2. writes'[d] = written
    BY <1>1, <2>1
  <2>3. snap'[d][at[d]] = lifecycle
    BY <1>1, <2>1
  <2>4. lifecycle \notin TerminalLifecycles => at'[d] = at[d] /\ phase'[d] = "entered"
    BY <1>1, <2>1
  <2> QED
    BY <1>2, <1>5, <2>1, <2>2, <2>3, <2>4
<1> QED
  BY <1>4, <1>5

LEMMA LeavingEffect ==
  ASSUME IInv, WritesBelow, NEW d \in Runs, at[d] # 0, NEW lifecycle,
         Return(d, writes[d], lifecycle, FALSE)
  PROVE  /\ at[d] = d =>
              /\ \A q \in Runs \ {d} :
                   row'[q] = IF writes[d][q] # NotStarted THEN writes[d][q] ELSE row[q]
              /\ row'[d] = row[d]
              /\ \A q \in Runs : writes'[d][q] = NotStarted
         /\ at[d] # d => row' = row /\ \A q \in Runs : writes'[d][q] = writes[d][q]
<1>1. /\ at[d] \in Runs /\ d <= at[d] /\ row \in [Runs -> Values]
      /\ writes[d] \in [Runs -> Values] /\ snap[d] \in [Runs -> Values]
      /\ writes \in [Runs -> [Runs -> Values]] /\ snap \in [Runs -> [Runs -> Values]]
      /\ at \in [Runs -> 0..Depth]
      /\ phase \in [Runs -> {"entered", "checked", "parking", "ended"}]
      /\ driver \in [Runs -> {"idle", "ready", "step"}]
  BY DriverTypes DEF IInv, TypeOK
<1>2. CASE at[d] = d
  <2>1. /\ row' = [q \in Runs |-> IF writes[d][q] # NotStarted THEN writes[d][q] ELSE row[q]]
        /\ writes' = [writes EXCEPT ![d] = Nothing]
    BY <1>2 DEF Return, EndTransaction
  <2>2. writes[d][d] = NotStarted
    BY Chain DEF WritesBelow, Runs
  <2> QED
    BY <1>1, <1>2, <2>1, <2>2, NothingType
<1>3. CASE at[d] # d
  <2>1. row' = row /\ writes' = [writes EXCEPT ![d] = writes[d]]
    BY <1>3 DEF Return
  <2> QED
    BY <1>1, <1>3, <2>1
<1> QED
  BY <1>2, <1>3

\* A step changes nothing of the other drivers.
LEMMA OtherDrivers ==
  ASSUME IInv, NEW d \in Runs, Step(d), NEW e \in Runs \ {d}
  PROVE  /\ at'[e] = at[e] /\ phase'[e] = phase[e] /\ snap'[e] = snap[e]
         /\ writes'[e] = writes[e] /\ driver'[e] = driver[e]
<1>1. /\ writes \in [Runs -> [Runs -> Values]] /\ snap \in [Runs -> [Runs -> Values]]
      /\ at \in [Runs -> 0..Depth]
      /\ phase \in [Runs -> {"entered", "checked", "parking", "ended"}]
      /\ driver \in [Runs -> {"idle", "ready", "step"}]
  BY DEF IInv, TypeOK
<1>2. ASSUME NEW written, NEW lifecycle, NEW progressed, Return(d, written, lifecycle, progressed)
      PROVE  /\ at'[e] = at[e] /\ phase'[e] = phase[e] /\ snap'[e] = snap[e]
             /\ writes'[e] = writes[e] /\ driver'[e] = driver[e]
  BY <1>1, <1>2 DEF Return, EndTransaction
<1>3. CASE \/ SettleOnEntry(d) \/ AwaitResponse(d) \/ RejectLaunch(d) \/ FinishWithChild(d)
           \/ Park(d) \/ (PassSafePoint(d) /\ SafePointEnds(d, View(d, at[d])))
  BY <1>2, <1>3, ReturnOutcome DEF WritesItsRun, LeavesItsRun, Waits
<1>4. CASE PassSafePoint(d) /\ ~SafePointEnds(d, View(d, at[d]))
  BY <1>1, <1>4 DEF PassSafePoint
<1>5. CASE LaunchChild(d)
  BY <1>1, <1>5 DEF LaunchChild
<1>6. CASE ReenterChild(d)
  BY <1>1, <1>6 DEF ReenterChild
<1>7. CASE AbortStep(d)
  BY <1>1, <1>7 DEF AbortStep, EndTransaction
<1> QED
  BY <1>3, <1>4, <1>5, <1>6, <1>7 DEF Step

LEMMA StepWritesBelow ==
  ASSUME IInv, WritesBelow, NEW d \in Runs, Step(d)
  PROVE  WritesBelow'
<1> SUFFICES ASSUME NEW q \in Runs, writes'[d][q] # NotStarted
             PROVE  d < q /\ writes'[d][q] \notin Settling
  BY OtherDrivers DEF WritesBelow
<1>1. /\ writes \in [Runs -> [Runs -> Values]]
      /\ at[d] # 0 => at[d] \in Runs /\ d <= at[d]
      /\ at \in [Runs -> 0..Depth]
  BY DriverTypes DEF IInv, TypeOK
<1>2. writes[d][q] # NotStarted => d < q /\ writes[d][q] \notin Settling
  BY DEF WritesBelow
<1>3. ASSUME NEW lifecycle \in Lifecycles, at[d] # 0, WritesItsRun(d, lifecycle)
      PROVE  d < q /\ writes'[d][q] \notin Settling
  <2>1. at[d] # d
    BY <1>3, WritingEffect
  <2>2. /\ d < at[d]
        /\ \A r \in Runs \ {at[d]} : writes'[d][r] = writes[d][r]
        /\ writes'[d][at[d]] = lifecycle /\ lifecycle \notin Settling
    <3>1. d < at[d] /\ lifecycle \notin Settling
      BY <1>1, <1>3, <2>1, Chain DEF WritesItsRun, Runs
    <3> QED
      BY <1>3, <2>1, <3>1, WritingEffect
  <2> QED
    BY <1>2, <2>2
<1>4. CASE \/ SettleOnEntry(d) \/ AwaitResponse(d) \/ RejectLaunch(d) \/ FinishWithChild(d)
           \/ Park(d) \/ (PassSafePoint(d) /\ SafePointEnds(d, View(d, at[d])))
  <2>1. at[d] # 0
    BY <1>4 DEF SettleOnEntry, AwaitResponse, RejectLaunch, FinishWithChild, Park,
                PassSafePoint, Stepping
  <2>2. ASSUME NEW lifecycle, Return(d, writes[d], lifecycle, FALSE)
        PROVE  d < q /\ writes'[d][q] \notin Settling
    BY <1>2, <2>1, <2>2, LeavingEffect
  <2> QED
    BY <1>3, <1>4, <2>1, <2>2, ReturnOutcome DEF LeavesItsRun, Waits
<1>5. CASE \/ PassSafePoint(d) /\ ~SafePointEnds(d, View(d, at[d]))
           \/ ReenterChild(d)
  BY <1>2, <1>5 DEF PassSafePoint, ReenterChild
<1>6. CASE LaunchChild(d)
  <2>1. writes' = [writes EXCEPT ![d][at[d] + 1] = "running"]
    BY <1>6 DEF LaunchChild
  <2>2. at[d] + 1 \in Runs /\ d <= at[d] /\ at[d] \in Runs
    BY <1>6, ChildFacts DEF LaunchChild
  <2>3. d < at[d] + 1
    BY <2>2, Chain DEF Runs
  <2>4. writes'[d][q] = IF q = at[d] + 1 THEN "running" ELSE writes[d][q]
    BY <1>1, <2>1, <2>2
  <2> QED
    BY <1>2, <2>3, <2>4 DEF Settling
<1>7. CASE AbortStep(d)
  BY <1>1, <1>7, NothingType DEF AbortStep, EndTransaction
<1> QED
  BY <1>4, <1>5, <1>6, <1>7 DEF Step

LEMMA NextWritesBelow ==
  ASSUME IInv, WritesBelow, [Next]_vars
  PROVE  WritesBelow'
<1>1. CASE writes' = writes
  BY <1>1 DEF WritesBelow
<1>2. CASE \E d \in Runs : Step(d)
  BY <1>2, StepWritesBelow
<1>3. ASSUME NEW d \in Runs,
             Acquire(d) \/ BeginStep(d) \/ GiveUp(d) \/ RequestPause(d) \/ RequestResume(d) \/ BeginCancel(d)
      PROVE  writes' = writes
  BY <1>3 DEF Acquire, BeginStep, GiveUp, RequestPause, RequestResume, BeginCancel, Request,
              ControlUnchanged, stepVars
<1>4. ASSUME \/ \E s \in Starters : Start(s)
             \/ CommitCancel \/ AbortCancel \/ Respond \/ UNCHANGED vars
      PROVE  writes' = writes
  BY <1>4 DEF Start, ReserveKey, CreateRun, StartFails, FindExisting, CommitCancel, AbortCancel,
              Respond, ControlUnchanged, stepVars, vars
<1> QED
  BY <1>1, <1>2, <1>3, <1>4 DEF Next, Drive

\* An answer that stands has stood since it was given.
LEMMA StoodBefore ==
  ASSUME IInv, ProjectionInv, WritesBelow, [Next]_vars, AnswerStands', ~Respond
  PROVE  AnswerStands
<1> USE AnswerRuns
<1>1. /\ row \in [Runs -> Values] /\ writes \in [Runs -> [Runs -> Values]]
      /\ \A d \in Runs : writes[d][Feedback] # "completed" /\ writes[Feedback][Feedback] = NotStarted
      /\ lost \in BOOLEAN
  BY Chain DEF IInv, TypeOK, ProjectionInv, WritesProject, WritesBelow, Runs
<1>2. /\ accepted' = 1 /\ ~lost' /\ row'[Feedback] = "completed"
      /\ \A d \in Runs : writes'[d][Feedback] = NotStarted
  BY DEF AnswerStands, Feedback
<1>3. CASE UNCHANGED <<accepted, lost, writes>> /\ row'[Feedback] \in {row[Feedback], "pausing", "resuming", "cancelling"}
  BY <1>2, <1>3 DEF AnswerStands
<1>4. ASSUME NEW s \in Starters, Start(s) PROVE AnswerStands
  <2>1. /\ UNCHANGED <<accepted, lost, writes>>
        /\ row' = row \/ row' = [row EXCEPT ![1] = "running"]
    BY <1>4 DEF Start, ReserveKey, CreateRun, StartFails, FindExisting, stepVars
  <2> QED
    BY <1>1, <1>3, <2>1
<1>5. ASSUME NEW d \in Runs, Acquire(d) \/ BeginStep(d) PROVE AnswerStands
  BY <1>3, <1>5 DEF Acquire, BeginStep, stepVars
<1>6. ASSUME NEW d \in Runs, GiveUp(d) \/ AbortStep(d) PROVE AnswerStands
  BY <1>2, <1>6 DEF GiveUp, AbortStep
<1>7. ASSUME NEW d \in Runs, RequestPause(d) \/ RequestResume(d) \/ BeginCancel(d)
      PROVE  AnswerStands
  <2>1. UNCHANGED <<accepted, lost, writes>>
    BY <1>7 DEF RequestPause, RequestResume, Request, BeginCancel, ControlUnchanged, stepVars
  <2>2. \/ row' = [row EXCEPT ![d] = "pausing"] \/ row' = [row EXCEPT ![d] = "resuming"]
        \/ row' = row
    BY <1>7 DEF RequestPause, RequestResume, Request, BeginCancel
  <2> QED
    BY <1>1, <1>3, <2>1, <2>2
<1>8. CASE CommitCancel \/ AbortCancel \/ UNCHANGED vars
  <2>1. UNCHANGED <<accepted, lost, writes>>
    BY <1>8 DEF CommitCancel, AbortCancel, ControlUnchanged, stepVars, vars
  <2>2. row'[Feedback] \in {row[Feedback], "cancelling"}
    BY <1>8 DEF CommitCancel, AbortCancel, vars
  <2> QED
    BY <1>3, <2>1, <2>2
<1>9. ASSUME NEW d \in Runs, Step(d), ~AbortStep(d) PROVE AnswerStands
  <2>1. UNCHANGED <<accepted, lost>>
    BY <1>9, StepReturns DEF Step, LaunchChild, ReenterChild, PassSafePoint, stepUnchanged
  <2>2. \A e \in Runs \ {d} : writes[e][Feedback] = NotStarted
    BY <1>2, <1>9, OtherDrivers
  <2>3. CASE \/ SettleOnEntry(d) \/ AwaitResponse(d) \/ RejectLaunch(d) \/ FinishWithChild(d)
             \/ Park(d) \/ (PassSafePoint(d) /\ SafePointEnds(d, View(d, at[d])))
    <3>1. at[d] # 0
      BY <2>3 DEF SettleOnEntry, AwaitResponse, RejectLaunch, FinishWithChild, Park,
                  PassSafePoint, Stepping
    <3>2. ASSUME NEW lifecycle \in Lifecycles, WritesItsRun(d, lifecycle)
          PROVE  row[Feedback] = "completed" /\ writes[d][Feedback] = NotStarted
      <4>1. CASE at[d] = d
        <5>1. d # Feedback
          <6>1. row'[d] = lifecycle
            BY <3>1, <3>2, <4>1, WritingEffect
          <6> QED
            BY <1>2, <3>2, <4>1, <6>1 DEF WritesItsRun
        <5> QED
          <6>1. row'[Feedback] = IF writes[d][Feedback] # NotStarted THEN writes[d][Feedback]
                                 ELSE row[Feedback]
            BY <3>1, <3>2, <4>1, <5>1, WritingEffect
          <6> QED
            BY <1>1, <1>2, <6>1
      <4>2. CASE at[d] # d
        <5>1. at[d] # Feedback
          BY <1>2, <3>1, <3>2, <4>2, NotStartedApart, WritingEffect
        <5> QED
          BY <1>2, <3>1, <3>2, <4>2, <5>1, WritingEffect
      <4> QED
        BY <4>1, <4>2
    <3>3. ASSUME NEW lifecycle, Return(d, writes[d], lifecycle, FALSE)
          PROVE  row[Feedback] = "completed" /\ writes[d][Feedback] = NotStarted
      <4>1. CASE at[d] = d /\ d # Feedback
        <5>1. row'[Feedback] = IF writes[d][Feedback] # NotStarted THEN writes[d][Feedback]
                               ELSE row[Feedback]
          BY <3>1, <3>3, <4>1, LeavingEffect
        <5> QED
          BY <1>1, <1>2, <5>1
      <4>2. CASE at[d] = d /\ d = Feedback
        BY <1>1, <1>2, <3>1, <3>3, <4>2, LeavingEffect
      <4>3. CASE at[d] # d
        BY <1>2, <3>1, <3>3, <4>3, LeavingEffect
      <4> QED
        BY <4>1, <4>2, <4>3
    <3>4. row[Feedback] = "completed" /\ writes[d][Feedback] = NotStarted
      BY <2>3, <3>2, <3>3, ReturnOutcome DEF LeavesItsRun, Waits
    <3> QED
      BY <1>2, <2>1, <2>2, <3>4 DEF AnswerStands
  <2>4. CASE \/ PassSafePoint(d) /\ ~SafePointEnds(d, View(d, at[d]))
             \/ ReenterChild(d)
    <3>1. UNCHANGED <<row, writes>>
      BY <2>4 DEF PassSafePoint, ReenterChild
    <3> QED
      BY <1>2, <2>1, <3>1 DEF AnswerStands
  <2>5. CASE LaunchChild(d)
    <3>1. row' = row /\ writes' = [writes EXCEPT ![d][at[d] + 1] = "running"]
      BY <2>5 DEF LaunchChild
    <3>2. at[d] + 1 \in Runs
      BY <2>5, ChildFacts DEF LaunchChild
    <3>3. writes'[d][Feedback] = writes[d][Feedback] \/ writes'[d][Feedback] = "running"
      BY <1>1, <3>1, <3>2
    <3> QED
      BY <1>2, <2>1, <2>2, <3>1, <3>3 DEF AnswerStands, NotStarted
  <2> QED
    BY <1>9, <2>3, <2>4, <2>5 DEF Step
<1> QED
  BY <1>4, <1>5, <1>6, <1>7, <1>8, <1>9 DEF Next, Drive

FindsNext(d) ==
  /\ at'[d] = Parent
  /\ \/ phase'[d] = "entered" /\ snap'[d][Parent] \notin TerminalLifecycles \cup {"paused"}
     \/ phase'[d] = "checked"
     \/ phase'[d] = "ended" /\ snap'[d][Feedback] = "completed"

RestsNext ==
  /\ row'[Parent] \in TerminalLifecycles \cup {"paused", "cancelling"}
  /\ \A d \in Runs : writes'[d][Parent] = "running" => FindsNext(d)

\* The call of the answer after a step, said of the state the step leaves.
LEMMA CallNext ==
  /\ HasACall' <=> \/ Parent \in wanted' \/ driver'[Parent] = "ready"
                   \/ FindsNext(Parent) \/ RestsNext
  /\ AnswerStands' => /\ accepted' = 1 /\ ~lost' /\ row'[Feedback] = "completed"
                      /\ \A d \in Runs : writes'[d][Feedback] = NotStarted
<1>1. ASSUME NEW d PROVE FindsAnswer(d)' <=> FindsNext(d)
  BY DEF FindsAnswer, FindsNext, Read, Parent, Feedback
<1>2. ParentRests' <=> RestsNext
  BY <1>1 DEF ParentRests, RestsNext, Parent, Feedback
<1>3. FindsAnswer(Parent)' <=> FindsNext(Parent)
  BY DEF FindsAnswer, FindsNext, Read, Parent, Feedback
<1> QED
  BY <1>2, <1>3 DEF HasACall, AnswerStands, Parent, Feedback

\* A parent whose row is paused or ended rests.
LEMMA QuietRests ==
  ASSUME WritesBelow', ~ParentOvertaken', AnswerStands',
         row'[Parent] \in TerminalLifecycles \cup {"paused"}
  PROVE  HasACall'
<1>1. /\ accepted' = 1
      /\ \A d \in Runs : ~(d < Parent /\ writes'[d][Parent] = "running")
  BY DEF ParentOvertaken, AnswerStands, Parent, Feedback
<1>2. \A d \in Runs : writes'[d][Parent] # NotStarted => d < Parent
  BY AnswerRuns DEF WritesBelow
<1>3. \A d \in Runs : writes'[d][Parent] # "running"
  BY <1>1, <1>2 DEF NotStarted
<1> QED
  BY <1>3, CallNext DEF RestsNext

\* What stands with the answer: the row of the feedback run, as every step sees it.
LEMMA AnswerSeen ==
  ASSUME IInv, WritesBelow, AnswerStands
  PROVE  /\ row[Feedback] = "completed"
         /\ \A d \in Runs : writes[d][Feedback] = NotStarted /\ View(d, Feedback) = "completed"
         /\ writes[Parent][Parent] = NotStarted /\ View(Parent, Parent) = row[Parent]
  BY AnswerRuns, Chain DEF AnswerStands, WritesBelow, View, Runs

\* The parent's own step keeps the call: it reads its child, or its row, again.
LEMMA ParentStepKeepsCall ==
  ASSUME IInv, WritesBelow, WritesBelow', ~ParentOvertaken', AnswerStands, AnswerStands',
         HasACall, Step(Parent)
  PROVE  HasACall'
<1> USE AnswerRuns
<1>1. /\ \A d \in Runs : writes[d][Feedback] = NotStarted /\ View(d, Feedback) = "completed"
      /\ writes[Parent][Parent] = NotStarted /\ View(Parent, Parent) = row[Parent]
  BY AnswerSeen
<1>2. ~lost' /\ \A d \in Runs : writes'[d][Feedback] = NotStarted
  BY CallNext
<1>3. at[Parent] \in {Parent, Feedback} /\ driver[Parent] = "step" /\ at[Parent] # 0
  <2>1. at[Parent] # 0
    BY <1>2 DEF Step, SettleOnEntry, AwaitResponse, RejectLaunch, FinishWithChild, Park, LaunchChild,
                ReenterChild, PassSafePoint, AbortStep, Stepping
  <2>2. at[Parent] \in Runs /\ Parent <= at[Parent] /\ driver[Parent] = "step"
    BY <2>1, DriverTypes
  <2> QED
    BY <2>1, <2>2, Chain DEF Runs, Parent, Feedback
<1>4. \A e \in Runs \ {Parent} :
         /\ at'[e] = at[e] /\ phase'[e] = phase[e] /\ snap'[e] = snap[e] /\ writes'[e] = writes[e]
  BY OtherDrivers
<1>5. \A e \in Runs \ {Parent} : FindsAnswer(e) => FindsNext(e)
  BY <1>4 DEF FindsAnswer, FindsNext, Read
<1>6. UNCHANGED wanted \/ AbortStep(Parent)
  BY DEF Step, SettleOnEntry, AwaitResponse, RejectLaunch, FinishWithChild, Park, LaunchChild,
         ReenterChild, PassSafePoint, stepUnchanged
<1>7. ~AbortStep(Parent)
  BY <1>2 DEF AbortStep
<1>8. ASSUME ~FindsAnswer(Parent), row'[Parent] = row[Parent], writes'[Parent][Parent] = NotStarted
      PROVE  HasACall'
  <2>1. Parent \in wanted \/ ParentRests
    BY <1>3, <1>8 DEF HasACall
  <2>2. ParentRests => RestsNext
    BY <1>4, <1>5, <1>8 DEF ParentRests, RestsNext, NotStarted
  <2> QED
    BY <1>6, <1>7, <2>1, <2>2, CallNext
<1>9. ASSUME NEW lifecycle \in Lifecycles, WritesItsRun(Parent, lifecycle) PROVE HasACall'
  <2>1. lifecycle # NotStarted
    BY NotStartedApart
  <2>2. CASE at[Parent] = Feedback
    <3>1. writes'[Parent][at[Parent]] = lifecycle
      BY <1>3, <1>9, <2>2, WritingEffect
    <3> QED
      BY <1>2, <2>1, <2>2, <3>1
  <2>3. CASE at[Parent] = Parent
    <3>1. /\ row'[Parent] = lifecycle
          /\ lifecycle \notin TerminalLifecycles => driver'[Parent] = "ready"
      BY <1>3, <1>9, <2>3, WritingEffect
    <3>2. CASE lifecycle \in TerminalLifecycles
      BY <3>1, <3>2, QuietRests
    <3> QED
      BY <3>1, <3>2, CallNext
  <2> QED
    BY <1>3, <2>2, <2>3
<1>10. ASSUME NEW lifecycle, Return(Parent, writes[Parent], lifecycle, FALSE)
       PROVE  row'[Parent] = row[Parent] /\ writes'[Parent][Parent] = NotStarted
  BY <1>1, <1>3, <1>10, LeavingEffect
<1>11. ASSUME NEW lifecycle \in Lifecycles, LeavesItsRun(Parent, lifecycle) PROVE HasACall'
  <2>1. row'[Parent] = row[Parent] /\ writes'[Parent][Parent] = NotStarted
    BY <1>10, <1>11 DEF LeavesItsRun
  <2>2. CASE at[Parent] = Parent /\ lifecycle = View(Parent, Parent)
    BY <1>1, <1>11, <2>1, <2>2, QuietRests DEF LeavesItsRun
  <2>3. CASE ~(at[Parent] = Parent /\ lifecycle = View(Parent, Parent))
    <3>1. ~FindsAnswer(Parent)
      BY <1>11, <2>3 DEF LeavesItsRun, FindsAnswer
    <3> QED
      BY <1>8, <2>1, <3>1
  <2> QED
    BY <2>2, <2>3
<1>12. CASE Waits(Parent)
  <2>1. row'[Parent] = row[Parent] /\ writes'[Parent][Parent] = NotStarted
    BY <1>10, <1>12 DEF Waits
  <2>2. ~FindsAnswer(Parent)
    BY <1>12 DEF Waits, FindsAnswer
  <2> QED
    BY <1>8, <2>1, <2>2
<1>13. CASE PassSafePoint(Parent) /\ ~SafePointEnds(Parent, View(Parent, at[Parent]))
  <2>1. at[Parent] = Parent /\ phase' = [phase EXCEPT ![Parent] = "checked"] /\ at' = at
    BY <1>3, <1>13 DEF PassSafePoint
  <2>2. phase'[Parent] = "checked"
    BY <2>1 DEF IInv, TypeOK
  <2>3. FindsNext(Parent)
    BY <2>1, <2>2 DEF FindsNext
  <2> QED
    BY <2>3, CallNext
<1>14. ASSUME LaunchChild(Parent) \/ ReenterChild(Parent)
       PROVE  at[Parent] = Parent /\ View(Parent, at[Parent] + 1) = "completed"
  <2>1. at[Parent] # Feedback
    BY <1>14, ChildFacts DEF LaunchChild, ReenterChild
  <2> QED
    BY <1>1, <1>3, <2>1
<1>15. ~LaunchChild(Parent)
  BY <1>14 DEF LaunchChild, NotStarted
<1>16. CASE ReenterChild(Parent)
  <2>1. /\ at' = [at EXCEPT ![Parent] = Parent]
        /\ phase' = [phase EXCEPT ![Parent] = "ended"]
        /\ snap' = [snap EXCEPT ![Parent][Feedback] = "completed"]
    BY <1>14, <1>16 DEF ReenterChild, TerminalLifecycles
  <2>2. at'[Parent] = Parent /\ phase'[Parent] = "ended"
    BY <2>1 DEF IInv, TypeOK
  <2>3. snap'[Parent][Feedback] = "completed"
    BY <2>1 DEF IInv, TypeOK
  <2>4. FindsNext(Parent)
    BY <2>2, <2>3 DEF FindsNext
  <2> QED
    BY <2>4, CallNext
<1>17. CASE \/ SettleOnEntry(Parent) \/ AwaitResponse(Parent) \/ RejectLaunch(Parent)
            \/ FinishWithChild(Parent) \/ Park(Parent)
            \/ (PassSafePoint(Parent) /\ SafePointEnds(Parent, View(Parent, at[Parent])))
  BY <1>9, <1>11, <1>12, <1>17, ReturnOutcome
<1> QED
  BY <1>7, <1>13, <1>15, <1>16, <1>17 DEF Step

\* A step of another run keeps it: what it has written of the parent is an end
\* or a pause, or that it runs, and then the step is about to find the answer.
LEMMA OtherStepKeepsCall ==
  ASSUME IInv, WritesBelow, WritesBelow', ~ParentOvertaken', AnswerStands, AnswerStands',
         HasACall, NEW d \in Runs, d # Parent, Step(d)
  PROVE  HasACall'
<1> USE AnswerRuns
<1>1. \A e \in Runs : writes[e][Feedback] = NotStarted /\ View(e, Feedback) = "completed"
  BY AnswerSeen
<1>2. ~AbortStep(d)
  BY CallNext DEF AbortStep
<1>3. UNCHANGED wanted
  BY <1>2 DEF Step, SettleOnEntry, AwaitResponse, RejectLaunch, FinishWithChild, Park, LaunchChild,
              ReenterChild, PassSafePoint, stepUnchanged
<1>4. \A e \in Runs \ {d} : /\ at'[e] = at[e] /\ phase'[e] = phase[e] /\ snap'[e] = snap[e]
                            /\ writes'[e] = writes[e] /\ driver'[e] = driver[e]
  BY OtherDrivers
<1>5. \A e \in Runs \ {d} : FindsAnswer(e) => FindsNext(e)
  BY <1>4 DEF FindsAnswer, FindsNext, Read
<1>6. CASE ~ParentRests
  BY <1>3, <1>4, <1>5, <1>6, CallNext DEF HasACall
<1>7. ASSUME ParentRests, row'[Parent] = row[Parent], writes'[d][Parent] = "running" => FindsNext(d)
      PROVE  HasACall'
  <2>1. \A e \in Runs \ {d} : writes'[e][Parent] = "running" => FindsNext(e)
    BY <1>4, <1>5, <1>7 DEF ParentRests
  <2> QED
    BY <1>7, <2>1, CallNext DEF ParentRests, RestsNext
<1> SUFFICES ASSUME ParentRests PROVE HasACall'
  BY <1>6
<1>8. /\ row[Parent] # NotStarted
      /\ writes[d][Parent] = "running" => FindsAnswer(d) /\ at[d] = Parent
      /\ writes[d][Parent] # NotStarted => writes[d][Parent] \notin Settling
      /\ writes[d][Parent] \in Values
  BY DriverTypes DEF ParentRests, FindsAnswer, TerminalLifecycles, NotStarted, WritesBelow
<1>9. at[d] # 0
  BY <1>2 DEF Step, SettleOnEntry, AwaitResponse, RejectLaunch, FinishWithChild, Park, LaunchChild,
              ReenterChild, PassSafePoint, Stepping
<1>10. ASSUME at[d] = d, \A q \in Runs : writes'[d][q] = NotStarted,
              row'[Parent] = IF writes[d][Parent] # NotStarted THEN writes[d][Parent] ELSE row[Parent]
       PROVE  HasACall'
  <2>1. CASE writes[d][Parent] = NotStarted
    BY <1>7, <1>10, <2>1 DEF NotStarted
  <2>2. CASE writes[d][Parent] # NotStarted
    <3>1. writes[d][Parent] \in TerminalLifecycles \cup {"paused"}
      BY <1>8, <1>10, <2>2 DEF Values, Lifecycles, Settling, TerminalLifecycles
    <3> QED
      BY <1>10, <2>2, <3>1, QuietRests
  <2> QED
    BY <2>1, <2>2
<1>11. ASSUME NEW lifecycle \in Lifecycles, WritesItsRun(d, lifecycle) PROVE HasACall'
  <2>1. CASE at[d] = d
    <3>1. /\ row'[Parent] = IF writes[d][Parent] # NotStarted THEN writes[d][Parent] ELSE row[Parent]
          /\ \A q \in Runs : writes'[d][q] = NotStarted
      BY <1>9, <1>11, <2>1, WritingEffect
    <3> QED
      BY <1>10, <2>1, <3>1
  <2>2. CASE at[d] # d /\ at[d] = Parent
    <3>1. /\ row' = row /\ writes'[d][Parent] = lifecycle
          /\ lifecycle \notin TerminalLifecycles =>
               at'[d] = Parent /\ phase'[d] = "entered" /\ snap'[d][Parent] = lifecycle
      BY <1>9, <1>11, <2>2, WritingEffect
    <3>2. lifecycle = "running" => FindsNext(d)
      BY <3>1 DEF FindsNext, TerminalLifecycles
    <3> QED
      BY <1>7, <3>1, <3>2
  <2>3. CASE at[d] # d /\ at[d] # Parent
    <3>1. row' = row /\ writes'[d][Parent] = writes[d][Parent]
      BY <1>9, <1>11, <2>3, WritingEffect
    <3> QED
      BY <1>7, <1>8, <2>3, <3>1
  <2> QED
    BY <2>1, <2>2, <2>3
<1>12. ASSUME NEW lifecycle, Return(d, writes[d], lifecycle, FALSE), ~FindsAnswer(d) \/ at[d] = d
       PROVE  HasACall'
  <2>1. CASE at[d] = d
    <3>1. /\ row'[Parent] = IF writes[d][Parent] # NotStarted THEN writes[d][Parent] ELSE row[Parent]
          /\ \A q \in Runs : writes'[d][q] = NotStarted
      BY <1>9, <1>12, <2>1, LeavingEffect
    <3> QED
      BY <1>10, <2>1, <3>1
  <2>2. CASE at[d] # d
    <3>1. row' = row /\ writes'[d][Parent] = writes[d][Parent]
      BY <1>9, <1>12, <2>2, LeavingEffect
    <3> QED
      BY <1>7, <1>8, <1>12, <2>2, <3>1
  <2> QED
    BY <2>1, <2>2
<1>13. ASSUME NEW lifecycle \in Lifecycles, LeavesItsRun(d, lifecycle) PROVE HasACall'
  <2>1. lifecycle \in TerminalLifecycles \cup {"paused"} /\ Return(d, writes[d], lifecycle, FALSE)
    BY <1>13 DEF LeavesItsRun
  <2>2. CASE phase[d] = "entered" /\ lifecycle = Read(d)
    <3>1. ~FindsAnswer(d)
      BY <2>1, <2>2 DEF FindsAnswer
    <3> QED
      BY <1>12, <2>1, <3>1
  <2>3. CASE lifecycle = View(d, at[d]) /\ writes[d][Parent] # "running"
    <3>1. CASE at[d] = d
      BY <1>12, <2>1, <3>1
    <3>2. CASE at[d] # d
      <4>1. row' = row /\ writes'[d][Parent] = writes[d][Parent]
        BY <1>9, <2>1, <3>2, LeavingEffect
      <4> QED
        BY <1>7, <2>3, <4>1
    <3> QED
      BY <3>1, <3>2
  <2>4. CASE lifecycle = View(d, at[d]) /\ writes[d][Parent] = "running"
    <3>1. View(d, at[d]) = "running"
      BY <1>8, <2>4 DEF View, NotStarted
    <3> QED
      BY <2>1, <2>4, <3>1 DEF TerminalLifecycles
  <2> QED
    BY <1>13, <2>2, <2>3, <2>4 DEF LeavesItsRun
<1>14. CASE Waits(d)
  <2>1. Return(d, writes[d], "running", FALSE) /\ ~FindsAnswer(d)
    BY <1>14 DEF Waits, FindsAnswer
  <2> QED
    BY <1>12, <2>1
<1>15. CASE PassSafePoint(d) /\ ~SafePointEnds(d, View(d, at[d]))
  <2>1. phase' = [phase EXCEPT ![d] = "checked"] /\ UNCHANGED <<row, at, writes>>
    BY <1>15 DEF PassSafePoint
  <2>2. phase'[d] = "checked"
    BY <2>1 DEF IInv, TypeOK
  <2>3. writes'[d][Parent] = "running" => FindsNext(d)
    BY <1>8, <2>1, <2>2 DEF FindsNext
  <2> QED
    BY <1>7, <2>1, <2>3
<1>16. CASE LaunchChild(d)
  <2>1. /\ row' = row /\ writes' = [writes EXCEPT ![d][at[d] + 1] = "running"]
        /\ View(d, at[d] + 1) = NotStarted
    BY <1>16 DEF LaunchChild
  <2>2. at[d] + 1 # Feedback
    BY <1>1, <2>1 DEF NotStarted
  <2>3. at[d] + 1 # Parent
    BY <1>8, <2>1 DEF View
  <2>4. writes'[d][Parent] = writes[d][Parent]
    BY <2>1, <2>3 DEF IInv, TypeOK
  <2>5. at[d] # Parent
    BY <2>2
  <2> QED
    BY <1>7, <1>8, <2>1, <2>4, <2>5
<1>17. CASE ReenterChild(d)
  <2>1. UNCHANGED <<row, writes>>
    BY <1>17 DEF ReenterChild
  <2>2. ASSUME at[d] = Parent PROVE FindsNext(d)
    <3>1. View(d, at[d] + 1) = "completed"
      BY <1>1, <2>2
    <3>2. /\ at' = [at EXCEPT ![d] = Parent]
          /\ phase' = [phase EXCEPT ![d] = "ended"]
          /\ snap' = [snap EXCEPT ![d][Feedback] = "completed"]
      BY <1>17, <2>2, <3>1 DEF ReenterChild, TerminalLifecycles
    <3>3. at'[d] = Parent /\ phase'[d] = "ended"
      BY <3>2 DEF IInv, TypeOK
    <3>4. snap'[d][Feedback] = "completed"
      BY <3>2 DEF IInv, TypeOK
    <3> QED
      BY <3>3, <3>4 DEF FindsNext
  <2> QED
    BY <1>7, <1>8, <2>1, <2>2
<1>18. CASE \/ SettleOnEntry(d) \/ AwaitResponse(d) \/ RejectLaunch(d)
            \/ FinishWithChild(d) \/ Park(d)
            \/ (PassSafePoint(d) /\ SafePointEnds(d, View(d, at[d])))
  BY <1>11, <1>13, <1>14, <1>18, ReturnOutcome
<1> QED
  BY <1>2, <1>15, <1>16, <1>17, <1>18 DEF Step

\* The loop of resumeRun keeps it: a call that begins a step reads the row anew.
LEMMA LoopKeepsCall ==
  ASSUME IInv, WritesBelow, WritesBelow', ~ParentOvertaken', AnswerStands', HasACall,
         NEW d \in Runs, Acquire(d) \/ BeginStep(d)
  PROVE  HasACall'
<1> USE AnswerRuns
<1>1. CASE Acquire(d) /\ d = Parent
  <2>1. driver'[Parent] = "ready"
    BY <1>1 DEF Acquire, IInv, TypeOK
  <2> QED
    BY <2>1, CallNext
<1>2. ASSUME UNCHANGED <<row, writes>>,
             Parent \in wanted => Parent \in wanted',
             driver[Parent] = "ready" => driver'[Parent] = "ready",
             \A e \in Runs : FindsAnswer(e) => FindsNext(e)
      PROVE  HasACall'
  BY <1>2, CallNext DEF HasACall, ParentRests, RestsNext
<1>3. CASE Acquire(d) /\ d # Parent
  <2>1. /\ UNCHANGED <<row, writes, at, phase, snap>>
        /\ wanted' = wanted \ {d}
        /\ driver' = [driver EXCEPT ![d] = "ready"]
    BY <1>3 DEF Acquire, stepVars
  <2>2. driver'[Parent] = driver[Parent]
    BY <1>3, <2>1 DEF IInv, TypeOK
  <2>3. \A e \in Runs : FindsAnswer(e) => FindsNext(e)
    BY <2>1 DEF FindsAnswer, FindsNext, Read
  <2> QED
    BY <1>2, <1>3, <2>1, <2>2, <2>3
<1>4. CASE BeginStep(d)
  <2>1. /\ UNCHANGED <<row, writes, wanted>> /\ driver[d] = "ready"
        /\ driver' = [driver EXCEPT ![d] = "step"]
        /\ at' = [at EXCEPT ![d] = d]
        /\ phase' = [phase EXCEPT ![d] = "entered"]
        /\ snap' = [snap EXCEPT ![d][d] = row[d]]
    BY <1>4 DEF BeginStep
  <2>2. /\ \A e \in Runs \ {d} : at'[e] = at[e] /\ phase'[e] = phase[e] /\ snap'[e] = snap[e]
                                 /\ driver'[e] = driver[e]
        /\ at'[d] = d /\ phase'[d] = "entered"
    BY <2>1 DEF IInv, TypeOK
  <2>3. snap'[d][d] = row[d]
    BY <2>1 DEF IInv, TypeOK
  <2>4. at[d] = 0
    BY <2>1, DriverTypes
  <2>5. CASE d # Parent
    <3>1. \A e \in Runs : FindsAnswer(e) => FindsNext(e)
      BY <2>2, <2>4 DEF FindsAnswer, FindsNext, Read
    <3> QED
      BY <1>2, <2>1, <2>2, <2>5, <3>1
  <2>6. CASE d = Parent
    <3>1. CASE row[Parent] \in TerminalLifecycles \cup {"paused"}
      BY <2>1, <3>1, QuietRests
    <3>2. CASE row[Parent] \notin TerminalLifecycles \cup {"paused"}
      <4>1. FindsNext(Parent)
        BY <2>2, <2>3, <2>6, <3>2 DEF FindsNext
      <4> QED
        BY <4>1, CallNext
    <3> QED
      BY <3>1, <3>2
  <2> QED
    BY <2>5, <2>6
<1> QED
  BY <1>1, <1>3, <1>4

\* So do the requests: one on the parent makes a call of its own, or, as a
\* descendant of the run that is cancelled, leaves it to its next step.
LEMMA RequestKeepsCall ==
  ASSUME IInv, AnswerStands, HasACall,
         \/ \E s \in Starters : Start(s)
         \/ \E d \in Runs : RequestPause(d) \/ RequestResume(d) \/ BeginCancel(d)
         \/ CommitCancel \/ AbortCancel \/ UNCHANGED vars
  PROVE  HasACall'
<1> USE AnswerRuns
<1>1. ASSUME UNCHANGED <<writes, driver, at, phase, snap>>, wanted \subseteq wanted',
             row'[Parent] = row[Parent] \/ Parent \in wanted'
      PROVE  HasACall'
  <2>1. \A e \in Runs : FindsAnswer(e) => FindsNext(e)
    BY <1>1 DEF FindsAnswer, FindsNext, Read
  <2> QED
    BY <1>1, <2>1, CallNext DEF HasACall, ParentRests, RestsNext
<1>2. row[Feedback] # NotStarted /\ row \in [Runs -> Values]
  BY DEF AnswerStands, NotStarted, IInv, TypeOK
<1>3. ASSUME NEW s \in Starters, Start(s) PROVE HasACall'
  <2>1. ~CreateRun(s)
    BY <1>2, CreatesFirst, NothingType
  <2> QED
    BY <1>1, <1>3, <2>1 DEF Start, ReserveKey, StartFails, FindExisting, stepVars
<1>4. ASSUME NEW r \in Runs, NEW lifecycle, Request(r, lifecycle) PROVE HasACall'
  <2>1. /\ UNCHANGED <<writes, driver, at, phase, snap>>
        /\ wanted' = wanted \cup {r} /\ row' = [row EXCEPT ![r] = lifecycle]
    BY <1>4 DEF Request, ControlUnchanged, stepVars
  <2>2. row'[Parent] = row[Parent] \/ Parent = r
    BY <1>2, <2>1
  <2> QED
    BY <1>1, <2>1, <2>2
<1>5. CASE (\E r \in Runs : BeginCancel(r)) \/ AbortCancel \/ UNCHANGED vars
  BY <1>1, <1>5 DEF BeginCancel, AbortCancel, ControlUnchanged, stepVars, vars
<1>6. CASE CommitCancel
  <2>1. /\ UNCHANGED <<writes, driver, at, phase, snap>>
        /\ wanted' = wanted \cup {cancel.run}
        /\ row'[Parent] = IF Parent \in Marked \cup {cancel.run} THEN "cancelling" ELSE row[Parent]
    BY <1>6 DEF CommitCancel, ControlUnchanged, stepVars
  <2>2. CASE Parent \in Marked
    <3>1. \A e \in Runs : Parent \notin held[e]
      BY <1>6, <2>2, Chain DEF CommitCancel, RowFree
    <3>2. \A e \in Runs : writes[e][Parent] = NotStarted
      BY <3>1 DEF IInv, LocksHold
    <3> QED
      BY <2>1, <2>2, <3>2, CallNext DEF RestsNext, NotStarted
  <2>3. CASE Parent \notin Marked
    BY <1>1, <2>1, <2>3
  <2> QED
    BY <2>2, <2>3
<1> QED
  BY <1>3, <1>4, <1>5, <1>6 DEF RequestPause, RequestResume

LEMMA NextKeepsCall ==
  ASSUME IInv, ProjectionInv, WritesBelow, WritesBelow', ~ParentOvertaken', AnswerHasACall,
         [Next]_vars
  PROVE  AnswerHasACall'
<1> USE AnswerRuns
<1> SUFFICES ASSUME AnswerStands' PROVE HasACall'
  BY DEF AnswerHasACall
<1>1. CASE Respond
  BY <1>1, CallNext DEF Respond, Parent
<1>2. CASE ~Respond
  <2>1. AnswerStands
    BY <1>2, StoodBefore
  <2>2. HasACall
    BY <2>1 DEF AnswerHasACall
  <2>3. ASSUME NEW d \in Runs PROVE ~GiveUp(d)
    BY CallNext DEF GiveUp
  <2>4. ASSUME NEW d \in Runs, Step(d) PROVE HasACall'
    <3>1. CASE d = Parent
      BY <2>1, <2>2, <2>4, <3>1, ParentStepKeepsCall
    <3>2. CASE d # Parent
      BY <2>1, <2>2, <2>4, <3>2, OtherStepKeepsCall
    <3> QED
      BY <3>1, <3>2
  <2>5. ASSUME NEW d \in Runs, Acquire(d) \/ BeginStep(d) PROVE HasACall'
    BY <2>2, <2>5, LoopKeepsCall
  <2>6. CASE \/ \E s \in Starters : Start(s)
             \/ \E d \in Runs : RequestPause(d) \/ RequestResume(d) \/ BeginCancel(d)
             \/ CommitCancel \/ AbortCancel \/ UNCHANGED vars
    BY <2>1, <2>2, <2>3, <2>6, RequestKeepsCall
  <2> QED
    BY <1>2, <2>3, <2>4, <2>5, <2>6 DEF Next, Drive
<1> QED
  BY <1>1, <1>2

LEMMA WritesBelowHolds == Spec => []WritesBelow
<1>1. Init => WritesBelow
  BY NothingType DEF Init, WritesBelow
<1>2. IInv /\ WritesBelow /\ [Next]_vars => WritesBelow'
  BY NextWritesBelow
<1> QED
  BY <1>1, <1>2, Invariance, PTL DEF Spec

\* Once the human has answered, and as long as no call is lost, nobody writes
\* the answered run and nobody overtakes the parent, a parent that runs has a
\* resumeRun call that is due or under way: no answer is left lying, however
\* long the chain and whatever is asked of its runs (human-feedback.ts, the
\* resumeRun call after the response; launch-child.ts, await-child.ts).
THEOREM AnsweredParentsAreDriven == Spec => AnswerIsTakenUp
<1>1. Init => AnswerHasACall
  BY DEF Init, AnswerHasACall, AnswerStands
<1>2. /\ IInv /\ ProjectionInv /\ WritesBelow /\ WritesBelow' /\ ~ParentOvertaken'
      /\ AnswerHasACall /\ [Next]_vars
      => AnswerHasACall'
  BY NextKeepsCall
<1>3. IInv /\ AnswerHasACall =>
        (AnswerStands /\ row[Parent] = "running" => Parent \in wanted \/ driver[Parent] # "idle")
  <2> SUFFICES ASSUME IInv, AnswerHasACall, AnswerStands, row[Parent] = "running"
               PROVE  Parent \in wanted \/ driver[Parent] # "idle"
    OBVIOUS
  <2>1. FindsAnswer(Parent) => driver[Parent] # "idle"
    BY AnswerRuns, DriverTypes DEF FindsAnswer
  <2> QED
    BY <2>1 DEF AnswerHasACall, HasACall, ParentRests, TerminalLifecycles
<1> QED
  BY <1>1, <1>2, <1>3, Invariance, ProjectionHolds, WritesBelowHolds, PTL
     DEF Spec, AnswerIsTakenUp

=============================================================================
