---------------------------- MODULE SpecDocProofs ----------------------------
(***************************************************************************)
(* Proofs about SpecDoc, for any questions, follow-ups and human texts and *)
(* any number of checks, attempts and answers.                             *)
(***************************************************************************)
EXTENDS SpecDoc, RankLemmas

Items == [id : Ids, answered : BOOLEAN]

LEMMA Constants ==
  /\ Questions \subseteq Nat /\ FollowUps \subseteq Nat
  /\ MaxChecks \in Nat /\ MaxAttempts \in Nat /\ MaxAnswers \in Nat
  /\ Completion \in Ids /\ Questions \subseteq Ids /\ FollowUps \subseteq Ids /\ Ids \subseteq Nat
  BY QuestionAssumption, BoundAssumption DEF Ids

-----------------------------------------------------------------------------
(* Helpers on sequences.                                                   *)

LEMMA FunctionIsSeq ==
  ASSUME NEW S, NEW n \in Nat, NEW f \in [1..n -> S]
  PROVE  f \in Seq(S) /\ Len(f) = n
  OBVIOUS

LEMMA FirstExists ==
  ASSUME NEW n \in Nat, NEW S \in SUBSET (1..n), S # {}
  PROVE  \E s \in S : \A t \in S : s <= t
<1>1. 1 \in Int /\ n \in Int
  OBVIOUS
<1>2. IsFiniteSet(S) /\ S \in SUBSET Nat
  <2>1. IsFiniteSet(1..n)
    BY <1>1, FS_Interval
  <2>2. IsFiniteSet(S)
    BY <2>1, FS_Subset
  <2>3. S \in SUBSET Nat
    BY SMT
  <2> QED
    BY <2>2, <2>3
<1>3. Cardinality(S) \in Nat /\ Cardinality(S) # 0
  BY <1>2, FS_CardinalityType, FS_EmptySet
<1>4. PICK s \in S : Cardinality({t \in S : t < s}) = 0
  BY <1>2, <1>3, RankExists
<1> DEFINE below == {t \in S : t < s}
<1>5. below = {}
  <2>1. IsFiniteSet(below)
    BY <1>2, FS_Subset
  <2> QED
    BY <1>4, <2>1, FS_EmptySet
<1>6. \A t \in S : ~(t < s)
  BY <1>5
<1>7. \A t \in S : s <= t
  BY <1>2, <1>6
<1> QED
  BY <1>7

LEMMA IndexOfFacts ==
  ASSUME NEW q \in Seq(Items), NEW id
  PROVE  /\ IndexOf(q, id) \in 0..Len(q)
         /\ (\E i \in 1..Len(q) : q[i].id = id) =>
              /\ IndexOf(q, id) + 1 \in 1..Len(q)
              /\ q[IndexOf(q, id) + 1].id = id
              /\ \A j \in 1..IndexOf(q, id) : q[j].id # id
         /\ ~(\E i \in 1..Len(q) : q[i].id = id) => IndexOf(q, id) = Len(q)
<1> DEFINE S == {i \in 1..Len(q) : q[i].id = id}
           P(i) == q[i].id = id /\ \A j \in 1..(i - 1) : q[j].id # id
<1>1. Len(q) \in Nat
  OBVIOUS
<1>2. CASE \E i \in 1..Len(q) : q[i].id = id
  <2>1. S # {} /\ S \in SUBSET (1..Len(q))
    BY <1>2
  <2>2. PICK s \in S : \A t \in S : s <= t
    BY <1>1, <2>1, FirstExists
  <2>3. s \in 1..Len(q) /\ P(s)
    <3>1. \A j \in 1..(s - 1) : j \in 1..Len(q) /\ ~(s <= j)
      BY <1>1, <2>2
    <3> QED
      BY <2>2, <3>1
  <2> DEFINE c == CHOOSE i \in 1..Len(q) : P(i)
  <2>4. c \in 1..Len(q) /\ P(c)
    BY <2>3
  <2>5. IndexOf(q, id) = c - 1
    BY <1>2 DEF IndexOf
  <2> HIDE DEF c
  <2>6. c - 1 + 1 = c /\ c - 1 \in 0..Len(q)
    BY <1>1, <2>4
  <2> QED
    BY <1>2, <2>4, <2>5, <2>6
<1>3. CASE ~(\E i \in 1..Len(q) : q[i].id = id)
  <2>1. IndexOf(q, id) = Len(q)
    BY <1>3 DEF IndexOf
  <2> QED
    BY <1>1, <1>3, <2>1
<1> QED
  BY <1>2, <1>3

LEMMA InsertFacts ==
  ASSUME NEW q \in Seq(Items), NEW index \in 0..Len(q), NEW item \in Items
  PROVE  /\ InsertAt(q, index, item) \in Seq(Items)
         /\ Len(InsertAt(q, index, item)) = Len(q) + 1
         /\ \A i \in 1..index : InsertAt(q, index, item)[i] = q[i]
         /\ InsertAt(q, index, item)[index + 1] = item
         /\ \A i \in (index + 1)..Len(q) : InsertAt(q, index, item)[i + 1] = q[i]
<1> DEFINE n == Len(q)
           a == SubSeq(q, 1, index)
           b == SubSeq(q, index + 1, n)
<1>1. n \in Nat /\ index \in 0..n
  OBVIOUS
<1>2. a \in Seq(Items) /\ Len(a) = index /\ (\A i \in 1..index : a[i] = q[i])
  BY <1>1
<1>3. b \in Seq(Items) /\ Len(b) = n - index
      /\ (\A i \in 1..(n - index) : b[i] = q[index + i])
  BY <1>1
<1>4. InsertAt(q, index, item) = (a \o <<item>>) \o b
  BY DEF InsertAt
<1> HIDE DEF a, b, n
<1> DEFINE ai == a \o <<item>>
<1>5. ai \in Seq(Items) /\ Len(ai) = index + 1 /\ ai[index + 1] = item
      /\ (\A i \in 1..index : ai[i] = q[i])
  BY <1>1, <1>2
<1> HIDE DEF ai
<1> DEFINE all == ai \o b
<1>6. /\ all \in Seq(Items) /\ Len(all) = n + 1
      /\ \A i \in 1..(n + 1) : all[i] = IF i <= index + 1 THEN ai[i] ELSE b[i - (index + 1)]
  <2>1. all \in Seq(Items)
    BY <1>3, <1>5
  <2>2. Len(all) = (index + 1) + (n - index)
    <3>1. Len(all) = Len(ai) + Len(b)
      <4>1. ai \in Seq(Items) /\ b \in Seq(Items)
        BY <1>3, <1>5
      <4> QED
        BY <4>1
    <3> QED
      BY <1>3, <1>5, <3>1
  <2>3. \A i \in 1..(Len(ai) + Len(b)) : all[i] = IF i <= Len(ai) THEN ai[i] ELSE b[i - Len(ai)]
    BY <1>3, <1>5
  <2>4. (index + 1) + (n - index) = n + 1
    BY <1>1
  <2> HIDE DEF all
  <2> QED
    BY <1>3, <1>5, <2>1, <2>2, <2>3, <2>4
<1>7. InsertAt(q, index, item) = all
  BY <1>4 DEF ai
<1> HIDE DEF all
<1>8. \A i \in 1..index : all[i] = q[i]
  BY <1>1, <1>5, <1>6
<1>9. all[index + 1] = item
  BY <1>1, <1>5, <1>6
<1>10. \A i \in (index + 1)..n : all[i + 1] = q[i]
  <2> TAKE i \in (index + 1)..n
  <2>1. i + 1 \in 1..(n + 1) /\ ~(i + 1 <= index + 1) /\ i - index \in 1..(n - index)
        /\ (i + 1) - (index + 1) = i - index /\ index + (i - index) = i
    BY <1>1
  <2> QED
    BY <1>3, <1>6, <2>1
<1> QED
  BY <1>6, <1>7, <1>8, <1>9, <1>10 DEF n

\* A sequence without its last element.
LEMMA FrontFacts ==
  ASSUME NEW S, NEW s \in Seq(S), s # <<>>
  PROVE  /\ SubSeq(s, 1, Len(s) - 1) \in Seq(S)
         /\ Len(SubSeq(s, 1, Len(s) - 1)) = Len(s) - 1
         /\ \A i \in 1..(Len(s) - 1) : SubSeq(s, 1, Len(s) - 1)[i] = s[i]
         /\ Len(s) \in Nat \ {0} /\ s[Len(s)] \in S
<1> DEFINE n == Len(s)
<1>1. n \in Nat /\ n # 0
  OBVIOUS
<1>2. n - 1 \in Nat /\ n - 1 <= n /\ n \in 1..n
  BY <1>1
<1>3. SubSeq(s, 1, n - 1) = [i \in 1..(n - 1) |-> s[i]]
  BY <1>2
<1>4. s[n] \in S /\ (\A i \in 1..n : s[i] \in S)
  BY <1>2
<1> HIDE DEF n
<1>5. SubSeq(s, 1, n - 1) \in [1..(n - 1) -> S]
  <2>1. \A i \in 1..(n - 1) : s[i] \in S
    BY <1>1, <1>4
  <2>2. [i \in 1..(n - 1) |-> s[i]] \in [1..(n - 1) -> S]
    BY <2>1
  <2> QED
    BY <1>3, <2>2
<1>6. SubSeq(s, 1, n - 1) \in Seq(S) /\ Len(SubSeq(s, 1, n - 1)) = n - 1
  BY <1>2, <1>5, FunctionIsSeq
<1> QED
  BY <1>1, <1>3, <1>4, <1>6 DEF n

\* What a check returns, as a queue.
LEMMA QueueOfFacts ==
  ASSUME NEW ids \in SortedLists
  PROVE  /\ QueueOf(ids) \in Seq(Items) /\ Len(QueueOf(ids)) >= 1 /\ QueueOf(ids) # <<>>
         /\ ids # <<>> /\ Completion \notin Range(ids) =>
              \A i \in 1..Len(QueueOf(ids)) : QueueOf(ids)[i].id # Completion
         /\ ids = <<>> => Len(QueueOf(ids)) = 1
<1>1. CASE ids = <<>>
  <2> DEFINE item == [id |-> Completion, answered |-> FALSE]
  <2>1. QueueOf(ids) = <<item>>
    BY <1>1 DEF QueueOf
  <2>2. item \in Items
    BY Constants DEF Items
  <2> HIDE DEF item
  <2>3. <<item>> \in Seq(Items) /\ Len(<<item>>) = 1 /\ <<item>> # <<>>
    BY <2>2
  <2> DEFINE only == <<item>>
  <2> HIDE DEF only
  <2>4. only \in Seq(Items) /\ Len(only) = 1 /\ only # <<>> /\ QueueOf(ids) = only
    BY <2>1, <2>3 DEF only
  <2> QED
    BY <1>1, <2>4
<1>2. CASE ids # <<>>
  <2>1. PICK n \in 0..MaxQuestions : ids \in [1..n -> Questions]
    BY DEF SortedLists
  <2>2. n \in Nat /\ ids \in Seq(Questions) /\ Len(ids) = n
    <3>1. n \in Nat
      BY <2>1, BoundAssumption
    <3> QED
      BY <2>1, <3>1, FunctionIsSeq
  <2>3. n # 0
    BY <1>2, <2>2
  <2>4. QueueOf(ids) = [i \in 1..n |-> [id |-> ids[i], answered |-> FALSE]]
    BY <1>2, <2>2 DEF QueueOf
  <2>5. QueueOf(ids) \in [1..n -> Items]
    <3>1. \A i \in 1..n : ids[i] \in Ids
      BY <2>1, Constants
    <3>2. \A i \in 1..n : [id |-> ids[i], answered |-> FALSE] \in Items
      BY <3>1 DEF Items
    <3> QED
      BY <2>4, <3>2
  <2>6. QueueOf(ids) \in Seq(Items) /\ Len(QueueOf(ids)) = n
    BY <2>2, <2>5, FunctionIsSeq
  <2>7. Completion \notin Range(ids) => \A i \in 1..n : QueueOf(ids)[i].id # Completion
    <3>1. \A i \in 1..n : ids[i] \in Range(ids)
      BY <2>1 DEF Range
    <3> QED
      BY <2>4, <3>1
  <2> DEFINE q == QueueOf(ids)
  <2>8. q \in Seq(Items) /\ Len(q) = n
        /\ (Completion \notin Range(ids) => \A i \in 1..n : q[i].id # Completion)
    BY <2>6, <2>7
  <2> HIDE DEF q
  <2>9. Len(q) >= 1 /\ q # <<>>
    BY <2>2, <2>3, <2>8
  <2> QED
    BY <1>2, <2>8, <2>9 DEF q
<1> QED
  BY <1>1, <1>2

-----------------------------------------------------------------------------
(* The part of the invariant that does not look at the stack.              *)

Core == TypeOK /\ IndexInQueue /\ AnswersGiven /\ ItemsKept

\* A step after which the queue, the answers and their responses are as before.
SameWork ==
  UNCHANGED <<queue, answers, attempts, notes, feedback, askedBy, reserved>>

LEMMA TypeFacts ==
  ASSUME TypeOK
  PROVE  /\ queue \in Seq(Items) /\ Len(queue) \in Nat /\ queueIndex \in Nat
         /\ answers \in Seq(Answers) /\ Len(answers) \in Nat
         /\ deferred \in Seq(Ids) /\ Len(deferred) \in Nat
         /\ checks \in Nat /\ stash \in Nat /\ items \in Nat
  BY Constants DEF TypeOK, Items

LEMMA CurrentFacts ==
  ASSUME Core, Asking, ~Exhausted
  PROVE  /\ queueIndex + 1 \in 1..Len(queue) /\ Current \in Ids
         /\ queueIndex + 1 <= Len(queue)
         /\ queue # <<>>
         /\ CurrentKey \in Keys
         /\ CurrentKey.question = Current
<1>1. queueIndex + 1 \in 1..Len(queue)
  BY TypeFacts DEF Core, Exhausted
<1>2. queue[queueIndex + 1] \in Items
  BY <1>1, TypeFacts DEF Core
<1>3. Current \in Ids
  BY <1>2 DEF Current, Items
<1>4. checks \in 0..MaxChecks /\ attempts[Current] \in 0..MaxAttempts
  BY <1>3 DEF Core, TypeOK
<1>5. queue # <<>>
  BY DEF Core, IndexInQueue, Asking, InDetours
<1> QED
  BY <1>1, <1>3, <1>4, <1>5, TypeFacts DEF Core, CurrentKey, Keys

\* AnswersGiven depends on the answers and the responses only.
LEMMA AnswersKept ==
  ASSUME AnswersGiven, answers' = answers, feedback' = feedback
  PROVE  AnswersGiven'
  BY DEF AnswersGiven

LEMMA StateOnlyKeepsCore ==
  ASSUME Core,
         UNCHANGED <<queue, queueIndex, workVars, itemVars, feedback, askedBy, reserved>>,
         \/ passed' = passed /\ state' \in {"Done"} \cup Ended
         \/ passed' = passed /\ state = "start" /\ state' = "IntegrateIntoSpec"
            /\ ~found /\ source = "unset"
         \/ passed' = Len(answers)
            /\ state' = "LogicalConsistencyCheckCreateFollowUpQuestions"
  PROVE  Core'
<1>1. TypeOK'
  BY TypeFacts DEF Core, TypeOK, workVars, itemVars, States, Ended
<1>2. IndexInQueue'
  BY DEF IndexInQueue, InDetours, Ended
<1>3. AnswersGiven'
  BY AnswersKept DEF Core, workVars
<1>4. ItemsKept'
  BY DEF Core, ItemsKept, InDetours, Ended, workVars, itemVars
<1> QED
  BY <1>1, <1>2, <1>3, <1>4 DEF Core

LEMMA CheckAsksKeepsCore ==
  ASSUME Core, NEW ids \in SortedLists, NEW withItems \in BOOLEAN,
         CheckAsks(ids, withItems)
  PROVE  Core'
<1> DEFINE sorted == QueueOf(ids)
<1>1. /\ sorted \in Seq(Items) /\ sorted # <<>> /\ Len(sorted) \in Nat
      /\ ids # <<>> /\ Completion \notin Range(ids) =>
           \A i \in 1..Len(sorted) : sorted[i].id # Completion
  BY QueueOfFacts
<1> HIDE DEF sorted
<1>2. /\ state' = "NumberedOptionsHumanRequest" /\ queue' = sorted /\ queueIndex' = 0
      /\ checks' = checks + 1 /\ checks < MaxChecks
      /\ stash' = (IF withItems THEN checks + 1 ELSE stash) /\ found' = withItems
      /\ withItems => ids # <<>>
      /\ UNCHANGED <<workVars, source, items, feedback, passed, askedBy>>
      /\ reserved' = (reserved \/ Completion \in Range(ids))
  BY DEF CheckAsks, sorted
<1>3. checks \in 0..MaxChecks /\ MaxChecks \in Nat /\ stash \in 0..MaxChecks /\ items \in 0..MaxChecks
  BY Constants DEF Core, TypeOK
<1>4. checks' \in 0..MaxChecks /\ stash' \in 0..MaxChecks /\ checks' # 0 /\ checks < checks'
  BY <1>2, <1>3
<1>5. TypeOK'
  BY <1>1, <1>2, <1>4 DEF Core, TypeOK, workVars, States, Items, CheckAsks
<1>6. IndexInQueue'
  BY <1>1, <1>2 DEF IndexInQueue, InDetours
<1>7. AnswersGiven'
  BY <1>2, AnswersKept DEF Core, workVars
<1>8. withItems /\ InQueue(Completion)' => reserved'
  BY <1>1, <1>2 DEF InQueue
<1>9. source = "consistency-action-items" => items # 0 /\ items < checks'
  BY <1>2, <1>3 DEF Core, ItemsKept
<1>10. ItemsKept'
  <2>1. source' = source /\ items' = items
    BY <1>2
  <2>2. source = "consistency-action-items" => items <= checks'
    BY <1>3, <1>4, <1>9
  <2> QED
    BY <1>2, <1>4, <1>8, <1>9, <2>1, <2>2 DEF ItemsKept, InDetours
<1> QED
  BY <1>5, <1>6, <1>7, <1>10 DEF Core

LEMMA CheckActsKeepsCore ==
  ASSUME Core, CheckActs
  PROVE  Core'
<1>1. /\ state = "LogicalConsistencyCheckCreateFollowUpQuestions"
      /\ state' = "IntegrateIntoSpec" /\ queue' = <<>> /\ queueIndex' = 0
      /\ checks' = checks + 1 /\ checks < MaxChecks
      /\ source' = "consistency-action-items" /\ items' = checks + 1 /\ found' = TRUE
      /\ UNCHANGED <<workVars, stash, feedback, passed, askedBy, reserved>>
  BY DEF CheckActs
<1>2. checks \in 0..MaxChecks /\ MaxChecks \in Nat
  BY Constants DEF Core, TypeOK
<1>3. checks' \in 0..MaxChecks /\ checks' # 0 /\ items' = checks' /\ items' <= checks'
  BY <1>1, <1>2
<1>4. TypeOK'
  <2>1. <<>> \in Seq(Items)
    OBVIOUS
  <2> QED
    BY <1>1, <1>3, <2>1 DEF Core, TypeOK, workVars, States, Items
<1>5. IndexInQueue'
  BY <1>1 DEF IndexInQueue, InDetours
<1>6. AnswersGiven'
  BY <1>1, AnswersKept DEF Core, workVars
<1>7. CarriedItems' = checks'
  BY <1>1, <1>3 DEF CarriedItems, ResolvedSource
<1>8. Len(answers') = passed'
  BY <1>1 DEF Core, ItemsKept, workVars
<1>9. ItemsKept'
  BY <1>1, <1>3, <1>7, <1>8 DEF ItemsKept, InDetours
<1> QED
  BY <1>4, <1>5, <1>6, <1>9 DEF Core

\* Leaving the questions: what is stashed goes with it.
LEMMA ToIntegrationKeepsItems ==
  ASSUME Core, InDetours, ToIntegration, answers' \in Seq(Answers)
  PROVE  ItemsKept' /\ state' = "IntegrateIntoSpec"
         /\ stash' \in 0..MaxChecks /\ items' \in 0..MaxChecks /\ checks' = checks /\ found' = found
         /\ source' \in {"unset", "consistency-action-items", "consistency-action-items-with-feedback"}
<1>1. checks' = checks /\ found' = found /\ state' = "IntegrateIntoSpec"
  BY DEF ToIntegration
<1>2. CASE stash # 0
  <2>1. source' = "consistency-action-items-with-feedback" /\ items' = stash /\ stash' = 0
    BY <1>2 DEF ToIntegration
  <2>2. CarriedItems' = stash
    BY <2>1 DEF CarriedItems, ResolvedSource
  <2>3. found => stash = checks
    BY DEF Core, ItemsKept
  <2>4. ItemsKept'
    BY <1>1, <2>1, <2>2, <2>3 DEF ItemsKept, InDetours
  <2> QED
    BY <1>1, <2>1, <2>4, Constants DEF Core, TypeOK
<1>3. CASE stash = 0
  <2>1. UNCHANGED <<source, items, stash>>
    BY <1>3 DEF ToIntegration
  <2>2. ~found
    BY <1>3 DEF Core, ItemsKept
  <2>3. ItemsKept'
    BY <1>1, <2>1, <2>2 DEF Core, ItemsKept, InDetours
  <2> QED
    BY <1>1, <2>1, <2>3 DEF Core, TypeOK
<1> QED
  BY <1>2, <1>3

LEMMA RevisitKeepsCore ==
  ASSUME Core, RevisitDeferred
  PROVE  Core'
<1>1. /\ Asking /\ state' = state /\ queueIndex' = IndexOf(queue, Peek(deferred))
      /\ UNCHANGED <<queue, workVars, itemVars, feedback, passed, askedBy, reserved>>
  BY DEF RevisitDeferred
<1>2. queueIndex' \in 0..Len(queue)
  BY <1>1, IndexOfFacts, TypeFacts DEF Core
<1>3. queueIndex' \in Nat /\ queueIndex' <= Len(queue)
  BY <1>2, TypeFacts DEF Core
<1>4. TypeOK'
  BY <1>1, <1>3 DEF Core, TypeOK, workVars, itemVars
<1>5. IndexInQueue'
  BY <1>1, <1>3 DEF Core, IndexInQueue, InDetours, Asking
<1>6. AnswersGiven'
  BY <1>1, AnswersKept DEF Core, workVars
<1>7. ItemsKept'
  BY <1>1 DEF Core, ItemsKept, InDetours, Asking, InQueue, workVars, itemVars
<1> QED
  BY <1>4, <1>5, <1>6, <1>7 DEF Core

LEMMA LeaveKeepsCore ==
  ASSUME Core, LeaveExhausted
  PROVE  Core'
<1>1. Asking /\ UNCHANGED <<queue, queueIndex, workVars, feedback, passed, askedBy, reserved>>
  BY DEF LeaveExhausted
<1>2. CASE ConfirmedIn(answers)
  BY <1>1, <1>2, StateOnlyKeepsCore DEF LeaveExhausted
<1>3. CASE ~ConfirmedIn(answers)
  <2>1. ToIntegration /\ InDetours /\ answers' \in Seq(Answers)
    BY <1>1, <1>3 DEF LeaveExhausted, InDetours, Asking, Core, TypeOK, workVars
  <2>2. ItemsKept' /\ state' = "IntegrateIntoSpec"
        /\ stash' \in 0..MaxChecks /\ items' \in 0..MaxChecks /\ checks' = checks /\ found' = found
        /\ source' \in {"unset", "consistency-action-items", "consistency-action-items-with-feedback"}
    BY <2>1, ToIntegrationKeepsItems
  <2>3. TypeOK'
    BY <1>1, <2>2 DEF Core, TypeOK, workVars, States
  <2>4. IndexInQueue'
    BY <2>2 DEF IndexInQueue, InDetours
  <2>5. AnswersGiven'
    BY <1>1, AnswersKept DEF Core, workVars
  <2> QED
    BY <2>2, <2>3, <2>4, <2>5 DEF Core
<1> QED
  BY <1>2, <1>3

LEMMA AskKeepsCore ==
  ASSUME Core, Ask
  PROVE  Core'
<1>1. /\ Asking /\ ~Exhausted /\ CurrentKey \notin DOMAIN feedback
      /\ feedback' = [key \in DOMAIN feedback \cup {CurrentKey} |->
                        IF key = CurrentKey THEN Awaiting ELSE feedback[key]]
      /\ UNCHANGED <<state, queue, queueIndex, workVars, itemVars, passed, askedBy, reserved>>
  BY DEF Ask
<1>2. CurrentKey \in Keys
  BY <1>1, CurrentFacts
<1> DEFINE k == CurrentKey
<1>3. k \in Keys /\ k \notin DOMAIN feedback
      /\ feedback' = [key \in DOMAIN feedback \cup {k} |->
                        IF key = k THEN Awaiting ELSE feedback[key]]
  BY <1>1, <1>2
<1> HIDE DEF k
<1>4. /\ DOMAIN feedback' = DOMAIN feedback \cup {k} /\ feedback'[k] = Awaiting
      /\ \A key \in DOMAIN feedback : feedback'[key] = feedback[key]
  BY <1>3
<1>5. TypeOK'
  <2>1. DOMAIN feedback' \subseteq Keys
    BY <1>3, <1>4 DEF Core, TypeOK
  <2>2. \A key \in DOMAIN feedback' : feedback'[key] \in Responses \cup {Awaiting}
    BY <1>4 DEF Core, TypeOK
  <2> QED
    BY <1>1, <2>1, <2>2 DEF Core, TypeOK, workVars, itemVars
<1>6. IndexInQueue'
  BY <1>1 DEF Core, IndexInQueue, InDetours, Asking
<1>7. AnswersGiven'
  BY <1>1, <1>4 DEF Core, AnswersGiven, workVars
<1>8. ItemsKept'
  BY <1>1 DEF Core, ItemsKept, InDetours, Asking, InQueue, workVars, itemVars
<1> QED
  BY <1>5, <1>6, <1>7, <1>8 DEF Core

\* A response is none that was there before and is not taken back.
LEMMA RespondKeepsCore ==
  ASSUME Core, NEW key \in DOMAIN feedback, NEW response \in Responses, Respond(key, response)
  PROVE  Core'
<1>1. /\ feedback[key] = Awaiting /\ feedback' = [feedback EXCEPT ![key] = response]
      /\ UNCHANGED <<state, queue, queueIndex, workVars, itemVars, passed, askedBy, reserved>>
  BY DEF Respond
<1>2. /\ DOMAIN feedback' = DOMAIN feedback
      /\ \A k \in DOMAIN feedback : feedback[k] # Awaiting => feedback'[k] = feedback[k]
      /\ \A k \in DOMAIN feedback : feedback'[k] \in {feedback[k], response}
  BY <1>1
<1>3. TypeOK'
  BY <1>1, <1>2 DEF Core, TypeOK, workVars, itemVars
<1>4. IndexInQueue'
  BY <1>1 DEF Core, IndexInQueue, InDetours, ClassifiedQuestion, LastAnswer, workVars, itemVars
<1>5. AnswersGiven'
  BY <1>1, <1>2 DEF Core, AnswersGiven, workVars
<1>6. ItemsKept'
  BY <1>1 DEF Core, ItemsKept, InDetours, CarriedItems, ResolvedSource, InQueue, workVars, itemVars
<1> QED
  BY <1>3, <1>4, <1>5, <1>6 DEF Core

\* What recording a response comes to.
LEMMA RecordFacts ==
  ASSUME Core, Answered, Record
  PROVE  /\ Asking /\ ~Exhausted /\ queueIndex + 1 \in 1..Len(queue) /\ Current \in Ids
         /\ queueIndex + 1 \in Nat /\ queueIndex + 1 <= Len(queue)
         /\ answers' \in Seq(Answers) /\ answers' # <<>>
         /\ Len(answers') = Len(answers) + 1
         /\ \A i \in 1..Len(answers) : answers'[i] = answers[i]
         /\ LastAnswer' = [question |-> Current, options |-> Response.options,
                           text |-> Response.text]
         /\ queue' \in Seq(Items) /\ Len(queue') = Len(queue) /\ queue' # <<>>
         /\ \A i \in 1..Len(queue) : queue'[i].id = queue[i].id
         /\ \A i \in 1..Len(queue) : queue[i].answered => queue'[i].answered
         /\ queue'[queueIndex + 1].answered
         /\ AnswersGiven'
         /\ UNCHANGED <<attempts, notes, pending, feedback, passed, askedBy, reserved>>
<1> DEFINE record == [question |-> Current, options |-> Response.options,
                      text |-> Response.text]
           n == Len(answers)
<1>1. /\ Asking /\ ~Exhausted /\ CurrentKey \in DOMAIN feedback /\ Response # Awaiting
      /\ answers' = Append(answers, record)
      /\ queue' = [queue EXCEPT ![queueIndex + 1].answered = TRUE]
      /\ UNCHANGED <<attempts, notes, pending, feedback, passed, askedBy, reserved>>
  BY DEF Answered, Record, Response
<1>2. /\ queueIndex + 1 \in 1..Len(queue) /\ Current \in Ids /\ CurrentKey.question = Current
      /\ queueIndex + 1 \in Nat /\ queueIndex + 1 <= Len(queue)
  BY <1>1, CurrentFacts, TypeFacts DEF Core
<1>3. Response \in Responses
  BY <1>1 DEF Core, TypeOK, Response
<1>4. record \in Answers /\ record.question = Current /\ record.options = Response.options
      /\ record.text = Response.text
  BY <1>2, <1>3 DEF Answers, Responses
<1>5. answers \in Seq(Answers) /\ queue \in Seq(Items) /\ n \in Nat
  BY TypeFacts DEF Core
<1> HIDE DEF record
<1>6. /\ answers' \in Seq(Answers) /\ Len(answers') = n + 1 /\ answers' # <<>>
      /\ (\A i \in 1..n : answers'[i] = answers[i]) /\ answers'[n + 1] = record
  BY <1>1, <1>4, <1>5
<1>7. LastAnswer' = record
  BY <1>6 DEF LastAnswer
<1>8. /\ queue' \in Seq(Items) /\ Len(queue') = Len(queue)
      /\ \A i \in 1..Len(queue) :
           /\ queue'[i].id = queue[i].id
           /\ queue'[i].answered = IF i = queueIndex + 1 THEN TRUE ELSE queue[i].answered
  <2> DEFINE m == queueIndex + 1
  <2>1. m \in 1..Len(queue) /\ queue' = [queue EXCEPT ![m].answered = TRUE]
    BY <1>1, <1>2
  <2> HIDE DEF m
  <2>2. \A i \in 1..Len(queue) : queue[i] \in Items
    BY <1>5
  <2>3. DOMAIN queue' = 1..Len(queue) /\ DOMAIN queue = 1..Len(queue) /\ Len(queue) \in Nat
    BY <1>5, <2>1
  <2>4. \A i \in 1..Len(queue) :
           /\ queue'[i] = IF i = m THEN [queue[i] EXCEPT !.answered = TRUE] ELSE queue[i]
    BY <2>1, <2>3
  <2>5. \A i \in 1..Len(queue) :
           /\ queue'[i] \in Items /\ queue'[i].id = queue[i].id
           /\ queue'[i].answered = IF i = m THEN TRUE ELSE queue[i].answered
    BY <2>2, <2>4 DEF Items
  <2>6. queue' \in [1..Len(queue) -> Items]
    BY <2>1, <2>3, <2>5
  <2>7. queue' \in Seq(Items) /\ Len(queue') = Len(queue)
    BY <2>3, <2>6, FunctionIsSeq
  <2> QED
    BY <2>5, <2>7 DEF m
<1>9. queue' # <<>>
  BY <1>2, <1>5, <1>8
<1>10. AnswersGiven'
  <2> SUFFICES ASSUME NEW i \in 1..Len(answers')
               PROVE  \E key \in DOMAIN feedback :
                        /\ feedback[key] # Awaiting
                        /\ key.question = answers'[i].question
                        /\ feedback[key].options = answers'[i].options
                        /\ feedback[key].text = answers'[i].text
    BY <1>1 DEF AnswersGiven
  <2>1. CASE i \in 1..n
    BY <1>6, <2>1 DEF Core, AnswersGiven
  <2>2. CASE i = n + 1
    BY <1>1, <1>2, <1>4, <1>6, <2>2 DEF Response
  <2> QED
    BY <1>5, <1>6, <2>1, <2>2
<1> QED
  BY <1>1, <1>2, <1>6, <1>7, <1>8, <1>9, <1>10 DEF record

\* The stack after an answer without text.
LEMMA StillDeferredFacts ==
  ASSUME TypeOK
  PROVE  StillDeferred \in Seq(Ids)
<1>1. CASE deferred # <<>> /\ Peek(deferred) = Current
  BY <1>1, TypeFacts, FrontFacts DEF StillDeferred, Pop
<1>2. CASE ~(deferred # <<>> /\ Peek(deferred) = Current)
  BY <1>2, TypeFacts DEF StillDeferred
<1> QED
  BY <1>1, <1>2

LEMMA RecordTextKeepsCore ==
  ASSUME Core, RecordText
  PROVE  Core'
<1>1. /\ Answered /\ Response.text /\ Record /\ queueIndex' = queueIndex + 1
      /\ state' = "ClassifyCustomPrompt" /\ UNCHANGED <<deferred, itemVars>>
  BY DEF RecordText
<1>2. /\ queueIndex + 1 \in Nat /\ queueIndex + 1 <= Len(queue) /\ Asking
      /\ queueIndex + 1 \in 1..Len(queue)
      /\ answers' \in Seq(Answers) /\ answers' # <<>>
      /\ LastAnswer' = [question |-> Current, options |-> Response.options,
                        text |-> Response.text]
      /\ queue' \in Seq(Items) /\ Len(queue') = Len(queue) /\ queue' # <<>>
      /\ \A i \in 1..Len(queue) : queue'[i].id = queue[i].id
      /\ AnswersGiven'
      /\ UNCHANGED <<attempts, notes, pending, feedback, passed, askedBy, reserved>>
  BY <1>1, RecordFacts
<1>3. TypeOK'
  BY <1>1, <1>2 DEF Core, TypeOK, itemVars, States, Items
<1>4. IndexInQueue'
  <2>1. ClassifiedQuestion' = Current
    BY <1>1, <1>2 DEF ClassifiedQuestion, Current
  <2>2. queueIndex' # 0
    BY <1>1, <1>2, TypeFacts DEF Core
  <2>3. LastAnswer'.question = Current /\ LastAnswer'.text
    BY <1>1, <1>2
  <2>4. queueIndex' <= Len(queue')
    BY <1>1, <1>2
  <2> QED
    BY <1>1, <1>2, <2>1, <2>2, <2>3, <2>4 DEF IndexInQueue, InDetours
<1>5. InQueue(Completion)' <=> InQueue(Completion)
  BY <1>2 DEF InQueue
<1>6. ItemsKept'
  BY <1>1, <1>2, <1>5 DEF Core, ItemsKept, InDetours, Asking, itemVars
<1> QED
  BY <1>2, <1>3, <1>4, <1>6 DEF Core

\* An answer without text after which the human is asked on.
LEMMA RecordAndAskKeepsCore ==
  ASSUME Core, Answered, Record, deferred' = StillDeferred, state' = state,
         UNCHANGED itemVars, queueIndex' \in Nat, queueIndex' <= Len(queue)
  PROVE  Core'
<1>1. /\ Asking
      /\ answers' \in Seq(Answers) /\ answers' # <<>>
      /\ queue' \in Seq(Items) /\ Len(queue') = Len(queue) /\ queue' # <<>>
      /\ \A i \in 1..Len(queue) : queue'[i].id = queue[i].id
      /\ AnswersGiven'
      /\ UNCHANGED <<attempts, notes, pending, feedback, passed, askedBy, reserved>>
  BY RecordFacts
<1>2. deferred' \in Seq(Ids)
  BY StillDeferredFacts DEF Core
<1>3. TypeOK'
  BY <1>1, <1>2 DEF Core, TypeOK, itemVars, Items
<1>4. IndexInQueue'
  BY <1>1 DEF IndexInQueue, InDetours, Asking
<1>5. InQueue(Completion)' <=> InQueue(Completion)
  BY <1>1 DEF InQueue
<1>6. ItemsKept'
  BY <1>1, <1>5 DEF Core, ItemsKept, InDetours, Asking, itemVars
<1> QED
  BY <1>1, <1>3, <1>4, <1>6 DEF Core

\* An answer without text after which the questions are left.
LEMMA RecordAndLeaveKeepsCore ==
  ASSUME Core, Answered, Record, deferred' = StillDeferred, queueIndex' = queueIndex + 1,
         \/ ToIntegration
         \/ UNCHANGED itemVars /\ state' = "Done"
         \/ UNCHANGED itemVars /\ state' = "IntegrateIntoSpec" /\ Current = Completion
  PROVE  Core'
<1>1. /\ Asking /\ queueIndex + 1 \in Nat /\ queueIndex + 1 \in 1..Len(queue)
      /\ answers' \in Seq(Answers) /\ answers' # <<>>
      /\ queue' \in Seq(Items)
      /\ AnswersGiven'
      /\ UNCHANGED <<attempts, notes, pending, feedback, passed, askedBy, reserved>>
  BY RecordFacts
<1>2. deferred' \in Seq(Ids)
  BY StillDeferredFacts DEF Core
<1>3. InDetours
  BY <1>1 DEF InDetours, Asking
<1>4. /\ ItemsKept' /\ state' \in {"Done", "IntegrateIntoSpec"}
      /\ stash' \in 0..MaxChecks /\ items' \in 0..MaxChecks /\ checks' = checks /\ found' = found
      /\ source' \in {"unset", "consistency-action-items", "consistency-action-items-with-feedback"}
  <2>1. CASE ToIntegration
    BY <1>1, <1>3, <2>1, ToIntegrationKeepsItems
  <2>2. CASE UNCHANGED itemVars /\ state' = "Done"
    BY <2>2 DEF Core, TypeOK, ItemsKept, InDetours, itemVars
  <2>3. CASE UNCHANGED itemVars /\ state' = "IntegrateIntoSpec" /\ Current = Completion
    <3>1. InQueue(Completion)
      BY <1>1, <2>3 DEF InQueue, Current
    <3>2. found => reserved' /\ stash' = checks'
      BY <1>1, <1>3, <2>3, <3>1 DEF Core, ItemsKept, itemVars
    <3>3. ItemsKept'
      BY <1>3, <2>3, <3>2 DEF Core, ItemsKept, InDetours, itemVars
    <3> QED
      BY <2>3, <3>3 DEF Core, TypeOK, itemVars
  <2> QED
    BY <2>1, <2>2, <2>3
<1>5. TypeOK'
  BY <1>1, <1>2, <1>4 DEF Core, TypeOK, States, Items
<1>6. IndexInQueue'
  BY <1>4 DEF IndexInQueue, InDetours
<1> QED
  BY <1>1, <1>4, <1>5, <1>6 DEF Core

LEMMA RecordingKeepsCore ==
  ASSUME Core, RecordText \/ RecordAndGoBack \/ RecordConfirmation \/ RecordAndGoOn
  PROVE  Core'
<1>1. CASE RecordText
  BY <1>1, RecordTextKeepsCore
<1>2. CASE RecordAndGoBack
  <2>1. Answered /\ Record /\ deferred' = StillDeferred /\ UNCHANGED <<state, itemVars>>
        /\ queueIndex' = IndexOf(queue, Peek(StillDeferred))
    BY <1>2 DEF RecordAndGoBack
  <2>2. queueIndex' \in 0..Len(queue) /\ Len(queue) \in Nat
    BY <2>1, IndexOfFacts, TypeFacts DEF Core
  <2> QED
    BY <2>1, <2>2, RecordAndAskKeepsCore
<1>3. CASE RecordConfirmation
  BY <1>3, RecordAndLeaveKeepsCore DEF RecordConfirmation
<1>4. CASE RecordAndGoOn
  <2>1. Answered /\ Record /\ deferred' = StillDeferred /\ queueIndex' = queueIndex + 1
    BY <1>4 DEF RecordAndGoOn
  <2>2. queueIndex + 1 \in Nat /\ queueIndex + 1 <= Len(queue)
    BY <2>1, RecordFacts
  <2>3. CASE queueIndex + 1 < Len(queue)
    BY <1>4, <2>1, <2>2, <2>3, RecordAndAskKeepsCore DEF RecordAndGoOn
  <2>4. CASE ~(queueIndex + 1 < Len(queue))
    BY <1>4, <2>1, <2>4, RecordAndLeaveKeepsCore DEF RecordAndGoOn
  <2> QED
    BY <2>3, <2>4
<1> QED
  BY <1>1, <1>2, <1>3, <1>4

\* The question whose text was classified is the item before the index.
LEMMA ClassifiedFacts ==
  ASSUME Core, state \in {"ClassifyCustomPrompt", "ExpandQuestionWithClarification"}
  PROVE  /\ queueIndex \in 1..Len(queue) /\ queueIndex \in 0..Len(queue) /\ queueIndex <= Len(queue)
         /\ ClassifiedQuestion \in Ids /\ InDetours /\ queue # <<>> /\ queueIndex # 0
<1>1. InDetours /\ queueIndex # 0 /\ queueIndex <= Len(queue) /\ queue # <<>>
  BY DEF Core, IndexInQueue, InDetours
<1>2. queueIndex \in 1..Len(queue) /\ queueIndex \in 0..Len(queue)
  BY <1>1, TypeFacts DEF Core
<1>3. queue[queueIndex] \in Items
  BY <1>2, TypeFacts DEF Core
<1> QED
  BY <1>1, <1>2, <1>3 DEF ClassifiedQuestion, Items

LEMMA CustomAnswerKeepsCore ==
  ASSUME Core, CustomAnswer
  PROVE  Core'
<1> DEFINE record == [question |-> ClassifiedQuestion, options |-> LastAnswer.options, text |-> TRUE]
           n == Len(answers)
<1>1. /\ state = "ClassifyCustomPrompt" /\ answers' = Append(answers, record)
      /\ state' = "NumberedOptionsHumanRequest"
      /\ UNCHANGED <<queue, queueIndex, deferred, attempts, notes, pending, itemVars,
                     feedback, passed, askedBy, reserved>>
  BY DEF CustomAnswer
<1>2. /\ answers # <<>> /\ LastAnswer.question = ClassifiedQuestion /\ LastAnswer.text
      /\ n \in Nat /\ answers \in Seq(Answers)
  BY <1>1, TypeFacts DEF Core, IndexInQueue
<1>3. n \in 1..n /\ LastAnswer \in Answers
  <2>1. n # 0
    BY <1>2
  <2> QED
    BY <1>2, <2>1 DEF LastAnswer
<1>4. record = LastAnswer
  BY <1>2, <1>3 DEF Answers
<1> HIDE DEF record
<1>5. /\ answers' \in Seq(Answers) /\ Len(answers') = n + 1
      /\ (\A i \in 1..n : answers'[i] = answers[i]) /\ answers'[n + 1] = answers[n]
  BY <1>1, <1>2, <1>3, <1>4 DEF LastAnswer
<1>6. TypeOK'
  BY <1>1, <1>5 DEF Core, TypeOK, itemVars, States
<1>7. IndexInQueue'
  BY <1>1, ClassifiedFacts DEF IndexInQueue, InDetours
<1>8. AnswersGiven'
  <2> SUFFICES ASSUME NEW i \in 1..Len(answers')
               PROVE  \E key \in DOMAIN feedback :
                        /\ feedback[key] # Awaiting
                        /\ key.question = answers'[i].question
                        /\ feedback[key].options = answers'[i].options
                        /\ feedback[key].text = answers'[i].text
    BY <1>1 DEF AnswersGiven
  <2>1. PICK j \in 1..n : answers'[i] = answers[j]
    <3>1. i \in 1..n \/ i = n + 1
      BY <1>2, <1>5
    <3> QED
      BY <1>3, <1>5, <3>1
  <2> QED
    BY <2>1 DEF Core, AnswersGiven
<1>9. ItemsKept'
  BY <1>1 DEF Core, ItemsKept, InDetours, InQueue, itemVars
<1> QED
  BY <1>6, <1>7, <1>8, <1>9 DEF Core

Unanswered(q, m) == [q EXCEPT ![m].answered = FALSE]

\* An item of the queue is marked unanswered.
LEMMA UnansweredFacts ==
  ASSUME NEW q \in Seq(Items), NEW m \in 1..Len(q)
  PROVE  /\ Unanswered(q, m) \in Seq(Items) /\ Len(Unanswered(q, m)) = Len(q)
         /\ \A i \in 1..Len(q) : Unanswered(q, m)[i].id = q[i].id
         /\ \A i \in 1..Len(q) : i # m => Unanswered(q, m)[i] = q[i]
<1> SUFFICES ASSUME NEW q2, q2 = Unanswered(q, m)
             PROVE  /\ q2 \in Seq(Items) /\ Len(q2) = Len(q)
                    /\ \A i \in 1..Len(q) : q2[i].id = q[i].id
                    /\ \A i \in 1..Len(q) : i # m => q2[i] = q[i]
  OBVIOUS
<1>0. q2 = [q EXCEPT ![m].answered = FALSE]
  BY DEF Unanswered
<1>1. \A i \in 1..Len(q) : q[i] \in Items
  OBVIOUS
<1>2. DOMAIN q2 = 1..Len(q) /\ Len(q) \in Nat
      /\ \A i \in 1..Len(q) : q2[i] = IF i = m THEN [q[i] EXCEPT !.answered = FALSE] ELSE q[i]
  <2>1. DOMAIN q = 1..Len(q) /\ Len(q) \in Nat
    OBVIOUS
  <2>2. DOMAIN q2 = DOMAIN q
    BY <1>0
  <2>3. \A i \in DOMAIN q : q2[i] = IF i = m THEN [q[i] EXCEPT !.answered = FALSE] ELSE q[i]
    BY <1>0, <2>1
  <2> QED
    BY <2>1, <2>2, <2>3
<1>3. \A i \in 1..Len(q) : q2[i] \in Items /\ q2[i].id = q[i].id
  BY <1>1, <1>2 DEF Items
<1>4. q2 \in [1..Len(q) -> Items]
  <2>1. q2 = [i \in DOMAIN q |-> q2[i]]
    BY <1>0
  <2>2. q2 = [i \in 1..Len(q) |-> q2[i]]
    BY <2>1
  <2> QED
    BY <1>3, <2>2
<1>5. q2 \in Seq(Items) /\ Len(q2) = Len(q)
  BY <1>2, <1>4, FunctionIsSeq
<1> QED
  BY <1>2, <1>3, <1>5

LEMMA CustomQuestionKeepsCore ==
  ASSUME Core, NEW text \in QuestionTexts, CustomQuestion(text)
  PROVE  Core'
<1> DEFINE id == ClassifiedQuestion
<1>1. /\ state = "ClassifyCustomPrompt" /\ attempts[id] < MaxAttempts
      /\ queue' = [queue EXCEPT ![queueIndex].answered = FALSE]
      /\ answers' = SubSeq(answers, 1, Len(answers) - 1)
      /\ deferred' = Defer(deferred, id)
      /\ attempts' = [attempts EXCEPT ![id] = @ + 1]
      /\ pending' = [question |-> id, text |-> text]
      /\ state' = "ExpandQuestionWithClarification"
      /\ UNCHANGED <<queueIndex, notes, itemVars, feedback, passed, askedBy, reserved>>
  BY DEF CustomQuestion
<1>2. /\ queueIndex \in 1..Len(queue) /\ id \in Ids /\ InDetours /\ queueIndex # 0
      /\ queueIndex <= Len(queue) /\ answers # <<>>
  BY <1>1, ClassifiedFacts DEF Core, IndexInQueue
<1>3. /\ queue' \in Seq(Items) /\ Len(queue') = Len(queue)
      /\ \A i \in 1..Len(queue) : queue'[i].id = queue[i].id
  <2>1. queue \in Seq(Items) /\ queueIndex \in 1..Len(queue)
    BY <1>2, TypeFacts DEF Core
  <2>2. queue' = Unanswered(queue, queueIndex)
    BY <1>1 DEF Unanswered
  <2> QED
    BY <2>1, <2>2, UnansweredFacts
<1>4. /\ answers' \in Seq(Answers) /\ Len(answers') = Len(answers) - 1
      /\ Len(answers) \in Nat \ {0}
      /\ \A i \in 1..(Len(answers) - 1) : answers'[i] = answers[i]
  BY <1>1, <1>2, TypeFacts, FrontFacts DEF Core
<1>5. ClassifiedQuestion' = id
  BY <1>1, <1>2, <1>3 DEF ClassifiedQuestion
<1> HIDE DEF id
<1>6. deferred' \in Seq(Ids)
  BY <1>1, <1>2, TypeFacts DEF Core, Defer
<1>7. attempts' \in [Ids -> 0..MaxAttempts]
  <2>1. attempts \in [Ids -> 0..MaxAttempts] /\ MaxAttempts \in Nat
    BY Constants DEF Core, TypeOK
  <2>2. attempts[id] + 1 \in 0..MaxAttempts
    BY <1>1, <1>2, <2>1
  <2> QED
    BY <1>1, <1>2, <2>1, <2>2
<1>8. pending' \in [question : Ids, text : QuestionTexts] \cup {None}
  BY <1>1, <1>2
<1>9. TypeOK'
  BY <1>1, <1>3, <1>4, <1>6, <1>7, <1>8 DEF Core, TypeOK, itemVars, States, Items
<1>10. IndexInQueue'
  <2>1. queue' # <<>>
    BY <1>2, <1>3, TypeFacts DEF Core
  <2>2. pending'.question = id /\ pending'.text \in QuestionTexts
    BY <1>1
  <2> QED
    BY <1>1, <1>2, <1>3, <1>5, <2>1, <2>2 DEF IndexInQueue
<1>11. AnswersGiven'
  <2> SUFFICES ASSUME NEW i \in 1..Len(answers')
               PROVE  \E key \in DOMAIN feedback :
                        /\ feedback[key] # Awaiting
                        /\ key.question = answers'[i].question
                        /\ feedback[key].options = answers'[i].options
                        /\ feedback[key].text = answers'[i].text
    BY <1>1 DEF AnswersGiven
  <2>1. i \in 1..(Len(answers) - 1) /\ i \in 1..Len(answers)
    BY <1>4
  <2> QED
    BY <1>4, <2>1 DEF Core, AnswersGiven
<1>12. InQueue(Completion)' <=> InQueue(Completion)
  BY <1>3 DEF InQueue
<1>13. ItemsKept'
  BY <1>1, <1>2, <1>12 DEF Core, ItemsKept, InDetours, itemVars
<1> QED
  BY <1>9, <1>10, <1>11, <1>13 DEF Core

LEMMA ResearchKeepsCore ==
  ASSUME Core, Research
  PROVE  Core' /\ queueIndex' \in 0..Len(queue)
<1>1. /\ state = "ExpandQuestionWithClarification"
      /\ queueIndex' = ResumeIndex(pending.question)
      /\ notes' = notes \cup {pending} /\ pending' = None
      /\ state' = "NumberedOptionsHumanRequest"
      /\ UNCHANGED <<queue, answers, deferred, attempts, itemVars, feedback, passed, askedBy, reserved>>
  BY DEF Research
<1>2. /\ queueIndex \in 0..Len(queue) /\ InDetours /\ queue # <<>>
      /\ pending.question = ClassifiedQuestion /\ pending.text \in QuestionTexts
      /\ ClassifiedQuestion \in Ids
  BY <1>1, ClassifiedFacts DEF Core, IndexInQueue
<1>3. queueIndex' \in 0..Len(queue)
  BY <1>1, <1>2, IndexOfFacts, TypeFacts DEF Core, ResumeIndex
<1>4. queueIndex' \in Nat /\ queueIndex' <= Len(queue)
  BY <1>3, TypeFacts DEF Core
<1>5. notes' \subseteq [question : Ids, text : QuestionTexts]
  <2>1. pending \in [question : Ids, text : QuestionTexts]
    <3>1. CASE pending = None
      BY <1>2, <3>1 DEF None
    <3>2. CASE pending # None
      BY <3>2 DEF Core, TypeOK
    <3> QED
      BY <3>1, <3>2
  <2> QED
    BY <1>1, <2>1 DEF Core, TypeOK
<1>6. TypeOK'
  BY <1>1, <1>4, <1>5 DEF Core, TypeOK, itemVars, States
<1>7. IndexInQueue'
  BY <1>1, <1>2, <1>4 DEF IndexInQueue, InDetours
<1>8. AnswersGiven'
  BY <1>1, AnswersKept DEF Core
<1>9. ItemsKept'
  BY <1>1, <1>2 DEF Core, ItemsKept, InDetours, InQueue, itemVars
<1> QED
  BY <1>3, <1>6, <1>7, <1>8, <1>9 DEF Core

\* The queue with a follow-up in it.
LEMMA FollowUpFacts ==
  ASSUME Core, NEW id \in FollowUps, FollowUp(id)
  PROVE  /\ queueIndex \in 1..Len(queue)
         /\ queue' \in Seq(Items) /\ Len(queue') = Len(queue) + 1
         /\ \A i \in 1..queueIndex : queue'[i] = queue[i]
         /\ queue'[queueIndex + 1] = [id |-> id, answered |-> FALSE]
         /\ \A i \in (queueIndex + 1)..Len(queue) : queue'[i + 1] = queue[i]
         /\ id \in Ids
<1>1. state = "ExpandQuestionWithClarification"
      /\ queue' = InsertAt(queue, queueIndex, [id |-> id, answered |-> FALSE])
  BY DEF FollowUp
<1>2. queueIndex \in 1..Len(queue) /\ queueIndex \in 0..Len(queue)
  BY <1>1, ClassifiedFacts
<1>3. id \in Ids /\ [id |-> id, answered |-> FALSE] \in Items
  BY Constants DEF Items
<1> QED
  BY <1>1, <1>2, <1>3, InsertFacts, TypeFacts DEF Core

LEMMA FollowUpKeepsCore ==
  ASSUME Core, NEW id \in FollowUps, FollowUp(id)
  PROVE  Core'
<1>1. /\ state = "ExpandQuestionWithClarification"
      /\ askedBy' = [askedBy EXCEPT ![id] = pending.question]
      /\ pending' = None /\ state' = "NumberedOptionsHumanRequest"
      /\ UNCHANGED <<queueIndex, answers, deferred, attempts, notes, itemVars, feedback, passed>>
      /\ reserved' = (reserved \/ id = Completion)
  BY DEF FollowUp
<1>2. /\ queueIndex \in 1..Len(queue)
      /\ queue' \in Seq(Items) /\ Len(queue') = Len(queue) + 1
      /\ \A i \in 1..queueIndex : queue'[i] = queue[i]
      /\ queue'[queueIndex + 1] = [id |-> id, answered |-> FALSE]
      /\ \A i \in (queueIndex + 1)..Len(queue) : queue'[i + 1] = queue[i]
  BY FollowUpFacts
<1>3. Len(queue) \in Nat /\ InDetours
  BY <1>1, TypeFacts DEF Core, InDetours
<1>4. askedBy' \in [FollowUps -> Ids]
  <2>1. pending.question \in Ids
    BY <1>1, ClassifiedFacts DEF Core, IndexInQueue
  <2> QED
    BY <1>1, <2>1 DEF Core, TypeOK
<1>5. TypeOK'
  BY <1>1, <1>2, <1>4 DEF Core, TypeOK, itemVars, States, Items
<1>6. IndexInQueue'
  <2>1. queue' # <<>> /\ queueIndex' <= Len(queue')
    BY <1>1, <1>2, <1>3
  <2> QED
    BY <1>1, <2>1 DEF IndexInQueue
<1>7. AnswersGiven'
  BY <1>1, AnswersKept DEF Core
<1>8. ~InQueue(Completion) /\ ~reserved' => ~InQueue(Completion)'
  <2> SUFFICES ASSUME ~InQueue(Completion), ~reserved', NEW i \in 1..Len(queue')
               PROVE  queue'[i].id # Completion
    BY DEF InQueue
  <2>1. CASE i \in 1..queueIndex
    <3>1. i \in 1..Len(queue)
      BY <1>2, <1>3, <2>1
    <3> QED
      BY <1>2, <2>1, <3>1 DEF InQueue
  <2>2. CASE i = queueIndex + 1
    <3>1. id # Completion
      BY <1>1, Zenon
    <3> QED
      BY <1>2, <2>2, <3>1
  <2>3. CASE i > queueIndex + 1
    <3>1. i - 1 \in (queueIndex + 1)..Len(queue) /\ (i - 1) + 1 = i /\ i - 1 \in 1..Len(queue)
      BY <1>2, <1>3, <2>3
    <3>2. queue'[i] = queue[i - 1]
      BY <1>2, <3>1
    <3> QED
      BY <3>1, <3>2 DEF InQueue
  <2> QED
    BY <1>2, <1>3, <2>1, <2>2, <2>3
<1>9. ItemsKept'
  BY <1>1, <1>3, <1>8 DEF Core, ItemsKept, InDetours, itemVars
<1> QED
  BY <1>5, <1>6, <1>7, <1>9 DEF Core

LEMMA InitCore ==
  ASSUME Init
  PROVE  Core
<1>1. TypeOK
  <2>1. <<>> \in Seq(Items) /\ <<>> \in Seq(Answers) /\ <<>> \in Seq(Ids)
    OBVIOUS
  <2>2. 0 \in 0..MaxChecks /\ 0 \in 0..MaxAttempts
    BY Constants
  <2>3. DOMAIN feedback = {}
    BY DEF Init
  <2>4. attempts \in [Ids -> 0..MaxAttempts] /\ askedBy \in [FollowUps -> Ids]
    BY <2>2, Constants DEF Init
  <2> QED
    BY <2>1, <2>2, <2>3, <2>4 DEF Init, TypeOK, States, Items
<1>2. IndexInQueue /\ AnswersGiven /\ ItemsKept
  BY DEF Init, IndexInQueue, AnswersGiven, ItemsKept, InDetours
<1> QED
  BY <1>1, <1>2 DEF Core

LEMMA NextKeepsCore ==
  ASSUME Core, [Next]_vars
  PROVE  Core'
<1>1. CASE Start
  BY <1>1, StateOnlyKeepsCore DEF Start, Core, IndexInQueue
<1>2. CASE Integrate
  BY <1>2, StateOnlyKeepsCore DEF Integrate
<1>3. CASE CheckActs
  BY <1>3, CheckActsKeepsCore
<1>4. CASE DelegationFails
  BY <1>4, StateOnlyKeepsCore DEF DelegationFails, Ended
<1>5. CASE \E ids \in SortedLists, withItems \in BOOLEAN : CheckAsks(ids, withItems)
  BY <1>5, CheckAsksKeepsCore
<1>6. CASE RevisitDeferred
  BY <1>6, RevisitKeepsCore
<1>7. CASE LeaveExhausted
  BY <1>7, LeaveKeepsCore
<1>8. CASE Ask
  BY <1>8, AskKeepsCore
<1>9. CASE \E key \in DOMAIN feedback, response \in Responses : Respond(key, response)
  BY <1>9, RespondKeepsCore
<1>10. CASE RecordText \/ RecordAndGoBack \/ RecordConfirmation \/ RecordAndGoOn
  BY <1>10, RecordingKeepsCore
<1>11. CASE CustomAnswer
  BY <1>11, CustomAnswerKeepsCore
<1>12. CASE \E text \in QuestionTexts : CustomQuestion(text)
  BY <1>12, CustomQuestionKeepsCore
<1>13. CASE Research
  BY <1>13, ResearchKeepsCore
<1>14. CASE \E id \in FollowUps : FollowUp(id)
  BY <1>14, FollowUpKeepsCore
<1>15. CASE Finish
  BY <1>15, StateOnlyKeepsCore DEF Finish, Ended
<1>16. CASE UNCHANGED vars
  <2>1. UNCHANGED <<state, queue, queueIndex, workVars, itemVars, feedback, passed, askedBy, reserved>>
    BY <1>16 DEF vars, workVars, itemVars
  <2>2. TypeOK'
    BY <2>1 DEF Core, TypeOK, workVars, itemVars
  <2>3. IndexInQueue'
    BY <2>1 DEF Core, IndexInQueue, InDetours, ClassifiedQuestion, LastAnswer, workVars, itemVars
  <2>4. ItemsKept'
    BY <2>1 DEF Core, ItemsKept, InDetours, CarriedItems, ResolvedSource, InQueue, workVars, itemVars
  <2> QED
    BY <2>1, <2>2, <2>3, <2>4, AnswersKept DEF Core, workVars
<1> QED
  BY <1>1, <1>2, <1>3, <1>4, <1>5, <1>6, <1>7, <1>8, <1>9, <1>10, <1>11, <1>12,
     <1>13, <1>14, <1>15, <1>16 DEF Next

-----------------------------------------------------------------------------
(* The queue and the stack: nothing is skipped, as long as no model has     *)
(* returned the id of the completion question.                             *)

Detours == StackInQueue /\ CompletionFirst /\ LeavesNothing

LEMMA InvariantParts == IInv <=> Core /\ (~reserved => Detours /\ DetourAccount)
  BY DEF IInv, Core, Detours

\* What the invariant says while the queue is being worked on.
LEMMA DetourFacts ==
  ASSUME Core, Detours, InDetours
  PROVE  /\ queue \in Seq(Items) /\ Len(queue) \in Nat /\ queue # <<>> /\ 1 \in 1..Len(queue)
         /\ queueIndex \in Nat /\ queueIndex <= Len(queue)
         /\ deferred \in Seq(Ids) /\ Len(deferred) \in Nat
         /\ \A id : OnStack(id) => InQueue(id)
         /\ \A i, j \in 1..Len(deferred) : deferred[i] = deferred[j] => i = j
         /\ \A i \in 1..Len(queue) : Behind(i) => Settled(queue[i].id) \/ AtHand(i)
         /\ \A i \in 2..Len(queue) : queue[i].id # Completion
         /\ queue[1].id = Completion =>
              /\ \A i \in 1..Len(queue) : Settled(queue[i].id) \/ AtHand(i)
              /\ deferred = <<>> => Len(queue) = 1
              /\ deferred # <<>> => deferred[1] = Completion
              /\ Asking /\ queueIndex = 0 /\ deferred # <<>> => Peek(deferred) = Completion
<1>1. queue # <<>> /\ queueIndex <= Len(queue)
  BY DEF Core, IndexInQueue
<1>2. queue \in Seq(Items) /\ Len(queue) \in Nat /\ queueIndex \in Nat
      /\ deferred \in Seq(Ids) /\ Len(deferred) \in Nat
  BY TypeFacts DEF Core
<1>3. 1 \in 1..Len(queue)
  BY <1>1, <1>2
<1>4. /\ \A id : OnStack(id) => InQueue(id)
      /\ \A i, j \in 1..Len(deferred) : deferred[i] = deferred[j] => i = j
      /\ \A i \in 1..Len(queue) : Behind(i) => Settled(queue[i].id) \/ AtHand(i)
  BY DEF Detours, StackInQueue, OnStack
<1>5. /\ \A i \in 2..Len(queue) : queue[i].id # Completion
      /\ queue[1].id = Completion =>
           /\ \A i \in 1..Len(queue) : Settled(queue[i].id) \/ AtHand(i)
           /\ deferred = <<>> => Len(queue) = 1
           /\ deferred # <<>> => deferred[1] = Completion
           /\ Asking /\ queueIndex = 0 /\ deferred # <<>> => Peek(deferred) = Completion
  BY DEF Detours, CompletionFirst
<1> QED
  BY <1>1, <1>2, <1>3, <1>4, <1>5

\* A step that keeps the ids of the queue keeps the account of what is settled,
\* when it settles the question at hand and puts nothing else behind the index.
LEMMA SameQueue ==
  ASSUME Core, Detours, InDetours, InDetours',
         Len(queue') = Len(queue),
         \A i \in 1..Len(queue) : queue'[i].id = queue[i].id,
         queueIndex' \in Nat, queueIndex' <= Len(queue),
         \A id : OnStack(id)' => InQueue(id),
         \A i, j \in 1..Len(deferred') : deferred'[i] = deferred'[j] => i = j,
         \A i \in 1..Len(queue) :
           Settled(queue[i].id) \/ AtHand(i) => Settled(queue[i].id)',
         \A i \in 1..Len(queue) : Behind(i)' => Behind(i) \/ AtHand(i),
         state' = "ExpandQuestionWithClarification" => OnStack(pending.question)',
         queue[1].id = Completion =>
           /\ deferred' = <<>> => Len(queue) = 1
           /\ deferred' # <<>> => deferred'[1] = Completion
           /\ Asking' /\ queueIndex' = 0 /\ deferred' # <<>> => Peek(deferred)' = Completion
  PROVE  Detours'
<1>1. \A i \in 1..Len(queue') : Behind(i)' => Settled(queue[i].id)'
  BY DetourFacts
<1>2. StackInQueue'
  <2>1. \A j \in 1..Len(deferred') : InQueue(deferred[j])'
    <3> SUFFICES ASSUME NEW j \in 1..Len(deferred')
                 PROVE  InQueue(deferred[j])'
      OBVIOUS
    <3>1. \E i \in 1..Len(queue) : queue[i].id = deferred'[j]
      BY DEF OnStack, InQueue
    <3> QED
      BY <3>1 DEF InQueue
  <2> QED
    BY <1>1, <2>1 DEF StackInQueue
<1>3. CompletionFirst'
  <2>1. 1 \in 1..Len(queue) /\ \A i \in 2..Len(queue) : i \in 1..Len(queue) /\ queue[i].id # Completion
    BY DetourFacts
  <2>2. queue'[1].id = queue[1].id /\ \A i \in 2..Len(queue') : queue'[i].id # Completion
    BY <2>1
  <2>3. queue[1].id = Completion => \A i \in 1..Len(queue') : Settled(queue[i].id)'
    BY DetourFacts
  <2> QED
    BY <2>2, <2>3 DEF CompletionFirst
<1>4. LeavesNothing'
  <2>1. \A i \in 1..queueIndex' : i \in 1..Len(queue') /\ Behind(i)'
    BY DetourFacts DEF Behind
  <2>2. \A i \in 1..queueIndex' : Settled(queue[i].id)'
    BY <1>1, <2>1
  <2> QED
    BY <2>2 DEF LeavesNothing, InDetours, Settled, OnStack
<1> QED
  BY <1>2, <1>3, <1>4 DEF Detours

\* A step that leaves the queue has settled it, and nothing is on the stack.
LEMMA LeavesSettled ==
  ASSUME state' \in {"Done", "IntegrateIntoSpec"}, deferred' = <<>>,
         \A i \in 1..Len(queue') : Settled(queue[i].id)'
  PROVE  Detours'
<1>1. \A i \in 1..Len(queue') : AnsweredIn(queue[i].id)'
  <2>1. \A id : ~OnStack(id)'
    BY DEF OnStack
  <2> QED
    BY <2>1 DEF Settled
<1> QED
  BY <1>1 DEF Detours, StackInQueue, CompletionFirst, LeavesNothing, InDetours, Asking, Ended

LEMMA FirstSame ==
  ASSUME Len(queue') = Len(queue), Len(queue) \in Nat,
         \A i \in 1..Len(queue) : queue'[i].id = queue[i].id
  PROVE  /\ \A k \in 1..Len(queue) : First(k)' <=> First(k)
         /\ \A id : InQueue(id)' <=> InQueue(id)
<1>1. \A k \in 1..Len(queue) : \A j \in 1..(k - 1) : j \in 1..Len(queue)
  OBVIOUS
<1> QED
  BY <1>1 DEF First, InQueue

\* How far back the stack reaches depends on what is on it.
LEMMA BehindGrows ==
  ASSUME Len(queue') = Len(queue), Len(queue) \in Nat,
         \A i \in 1..Len(queue) : queue'[i].id = queue[i].id,
         \A id : OnStack(id)' => OnStack(id),
         NEW i \in 1..Len(queue), Behind(i)'
  PROVE  Behind(i) \/ i <= queueIndex'
<1>1. CASE \E k \in i..Len(queue') : First(k)' /\ OnStack(queue[k].id)'
  <2>1. PICK k \in i..Len(queue) : First(k)' /\ OnStack(queue[k].id)'
    BY <1>1
  <2>2. k \in 1..Len(queue)
    OBVIOUS
  <2>3. \E j \in 1..Len(deferred') : deferred'[j] = queue[k].id
    BY <2>1, <2>2 DEF OnStack
  <2>4. OnStack(queue[k].id)
    BY <2>3 DEF OnStack
  <2>5. First(k)
    BY <2>1, <2>2, FirstSame
  <2> QED
    BY <2>4, <2>5 DEF Behind
<1> QED
  BY <1>1 DEF Behind

\* Where the first item with a question is.
LEMMA FirstAt ==
  ASSUME queue \in Seq(Items), NEW id, InQueue(id)
  PROVE  /\ IndexOf(queue, id) + 1 \in 1..Len(queue)
         /\ queue[IndexOf(queue, id) + 1].id = id
         /\ First(IndexOf(queue, id) + 1)
         /\ \A j \in 1..IndexOf(queue, id) : queue[j].id # id
<1>1. /\ IndexOf(queue, id) + 1 \in 1..Len(queue)
      /\ queue[IndexOf(queue, id) + 1].id = id
      /\ \A j \in 1..IndexOf(queue, id) : queue[j].id # id
      /\ IndexOf(queue, id) \in 0..Len(queue) /\ Len(queue) \in Nat
  BY IndexOfFacts DEF InQueue
<1> DEFINE n == IndexOf(queue, id)
<1>2. n \in Nat
  BY <1>1
<1> HIDE DEF n
<1>3. (n + 1) - 1 = n
  BY <1>2
<1>4. First(n + 1)
  BY <1>1, <1>3 DEF First, n
<1> QED
  BY <1>1, <1>4 DEF n

LEMMA TopOnStack ==
  ASSUME NEW stack \in Seq(Ids), stack # <<>>
  PROVE  /\ Len(stack) \in 1..Len(stack) /\ 1 \in 1..Len(stack) /\ Peek(stack) = stack[Len(stack)]
         /\ \E j \in 1..Len(stack) : stack[j] = Peek(stack)
  BY DEF Peek

LEMMA RevisitKeepsDetours ==
  ASSUME Core, Detours, Core', RevisitDeferred
  PROVE  Detours'
<1>1. /\ Asking /\ InDetours /\ Exhausted /\ deferred # <<>> /\ InQueue(Peek(deferred))
      /\ queueIndex' = IndexOf(queue, Peek(deferred))
      /\ UNCHANGED <<state, queue, deferred>> /\ InDetours' /\ Asking'
      /\ pending' = pending
  BY DEF RevisitDeferred, TopInQueue, Asking, InDetours, workVars
<1>2. queue \in Seq(Items) /\ Len(queue) \in Nat /\ queueIndex = Len(queue)
  BY <1>1, DetourFacts DEF Exhausted
<1>3. \A i \in 1..Len(queue) : Behind(i) /\ ~AtHand(i)
  BY <1>2 DEF Behind, AtHand
<1>4. \A i \in 1..Len(queue) : Settled(queue[i].id)'
  <2>1. \A i \in 1..Len(queue) : Settled(queue[i].id)
    BY <1>1, <1>3, DetourFacts
  <2> QED
    BY <1>1, <2>1 DEF Settled, AnsweredIn, OnStack
<1>5. \A id : OnStack(id)' => InQueue(id)
  BY <1>1, DetourFacts DEF OnStack
<1>6. queueIndex' + 1 \in 1..Len(queue) /\ queue[queueIndex' + 1].id = Peek(deferred)
  BY <1>1, <1>2, FirstAt
<1>7. queueIndex' \in Nat /\ queueIndex' <= Len(queue)
  BY <1>1 DEF Core, TypeOK, IndexInQueue
<1>8. queueIndex' = 0 => queue[1].id = Peek(deferred)
  BY <1>6
<1>9. queue[1].id = Completion =>
        /\ deferred' = <<>> => Len(queue) = 1
        /\ deferred' # <<>> => deferred'[1] = Completion
        /\ Asking' /\ queueIndex' = 0 /\ deferred' # <<>> => Peek(deferred)' = Completion
  BY <1>1, <1>8, DetourFacts DEF Peek
<1>10. \A i, j \in 1..Len(deferred') : deferred'[i] = deferred'[j] => i = j
  BY <1>1, DetourFacts
<1>11. state' # "ExpandQuestionWithClarification"
  BY <1>1 DEF Asking
<1> QED
  BY <1>1, <1>3, <1>4, <1>5, <1>7, <1>9, <1>10, <1>11, SameQueue

LEMMA LeaveKeepsDetours ==
  ASSUME Core, Detours, LeaveExhausted
  PROVE  Detours'
<1>1. /\ Asking /\ InDetours /\ Exhausted /\ ~TopInQueue(deferred)
      /\ UNCHANGED <<queue, deferred>> /\ state' \in {"Done", "IntegrateIntoSpec"}
  BY DEF LeaveExhausted, ToIntegration, Asking, InDetours, workVars
<1>2. queue \in Seq(Items) /\ Len(queue) \in Nat /\ queueIndex = Len(queue)
      /\ deferred \in Seq(Ids)
  BY <1>1, DetourFacts DEF Exhausted
<1>3. \A i \in 1..Len(queue) : Behind(i) /\ ~AtHand(i)
  BY <1>2 DEF Behind, AtHand
<1>4. \A i \in 1..Len(queue') : Settled(queue[i].id)'
  <2>1. \A i \in 1..Len(queue) : Settled(queue[i].id)
    BY <1>1, <1>3, DetourFacts
  <2> QED
    BY <1>1, <2>1 DEF Settled, AnsweredIn, OnStack
<1>5. deferred' = <<>>
  <2> SUFFICES ASSUME deferred # <<>> PROVE FALSE
    BY <1>1
  <2>1. OnStack(Peek(deferred))
    BY <1>2, TopOnStack DEF OnStack
  <2> QED
    BY <1>1, <2>1, DetourFacts DEF TopInQueue
<1> QED
  BY <1>1, <1>4, <1>5, LeavesSettled

\* Recording an answer settles its question, whether it stays on the stack or
\* is popped, and settles nothing else.
LEMMA RecordSettles ==
  ASSUME Core, Detours, Answered, Record, deferred' \in {deferred, StillDeferred}
  PROVE  /\ Asking /\ InDetours /\ queueIndex + 1 \in 1..Len(queue)
         /\ queueIndex + 1 \in Nat
         /\ Len(queue') = Len(queue) /\ \A i \in 1..Len(queue) : queue'[i].id = queue[i].id
         /\ deferred' \in Seq(Ids)
         /\ \A id : OnStack(id)' => OnStack(id)
         /\ \A i, j \in 1..Len(deferred') : deferred'[i] = deferred'[j] => i = j
         /\ deferred' # <<>> => deferred # <<>> /\ deferred'[1] = deferred[1]
         /\ \A i \in 1..Len(queue) :
              Settled(queue[i].id) \/ AtHand(i) => Settled(queue[i].id)'
<1>1. /\ Asking /\ queueIndex + 1 \in 1..Len(queue) /\ queueIndex + 1 \in Nat
      /\ Len(queue') = Len(queue) /\ \A i \in 1..Len(queue) : queue'[i].id = queue[i].id
      /\ \A i \in 1..Len(queue) : queue[i].answered => queue'[i].answered
      /\ queue'[queueIndex + 1].answered
  BY RecordFacts
<1>2. InDetours
  BY <1>1 DEF Asking, InDetours
<1>3. deferred \in Seq(Ids) /\ Len(deferred) \in Nat
      /\ \A i, j \in 1..Len(deferred) : deferred[i] = deferred[j] => i = j
  BY <1>2, DetourFacts
<1>4. \E i \in 1..Len(queue') : queue'[i].id = Current /\ queue'[i].answered
  BY <1>1 DEF Current
<1>5. \A i \in 1..Len(queue) : AnsweredIn(queue[i].id) => AnsweredIn(queue[i].id)'
  BY <1>1 DEF AnsweredIn
<1>6. CASE deferred' = deferred
  <2>1. \A id : OnStack(id)' <=> OnStack(id)
    BY <1>6 DEF OnStack
  <2>2. \A i \in 1..Len(queue) : Settled(queue[i].id) \/ AtHand(i) => Settled(queue[i].id)'
    <3> SUFFICES ASSUME NEW i \in 1..Len(queue), Settled(queue[i].id) \/ AtHand(i)
                 PROVE  Settled(queue[i].id)'
      OBVIOUS
    <3>1. CASE AtHand(i)
      <4>1. queue'[i].id = Current
        BY <1>1, <3>1 DEF AtHand, Current
      <4> QED
        BY <1>4, <4>1 DEF Settled, AnsweredIn
    <3>2. CASE AnsweredIn(queue[i].id)
      BY <1>5, <3>2 DEF Settled
    <3>3. CASE OnStack(queue[i].id)
      BY <1>1, <1>6, <3>3 DEF Settled, OnStack
    <3> QED
      BY <3>1, <3>2, <3>3 DEF Settled
  <2> QED
    BY <1>1, <1>2, <1>3, <1>6, <2>1, <2>2
<1>7. CASE deferred # <<>> /\ Peek(deferred) = Current /\ deferred' = Pop(deferred)
  <2>1. /\ deferred' \in Seq(Ids) /\ Len(deferred') = Len(deferred) - 1
        /\ \A i \in 1..(Len(deferred) - 1) : deferred'[i] = deferred[i]
        /\ Len(deferred) \in Nat \ {0}
    BY <1>3, <1>7, FrontFacts DEF Pop
  <2>2. \A id : OnStack(id)' => OnStack(id)
    BY <2>1 DEF OnStack
  <2>3. \A id : OnStack(id) => OnStack(id)' \/ id = Current
    <3> SUFFICES ASSUME NEW j \in 1..Len(deferred), deferred[j] # Current
                 PROVE  \E i \in 1..Len(deferred') : deferred'[i] = deferred[j]
      BY DEF OnStack
    <3>1. j # Len(deferred)
      BY <1>7 DEF Peek
    <3>2. j \in 1..Len(deferred')
      BY <2>1, <3>1
    <3> QED
      BY <2>1, <3>2
  <2>4. Current = queue[queueIndex + 1].id
    BY DEF Current
  <2>5. \A i \in 1..Len(queue) : Settled(queue[i].id) \/ AtHand(i) => Settled(queue[i].id)'
    <3> SUFFICES ASSUME NEW i \in 1..Len(queue), Settled(queue[i].id) \/ AtHand(i)
                 PROVE  Settled(queue[i].id)'
      OBVIOUS
    <3>1. CASE queue[i].id = Current
      <4>1. queue'[i].id = Current
        BY <1>1, <3>1
      <4> QED
        BY <1>4, <4>1 DEF Settled, AnsweredIn
    <3>2. CASE AnsweredIn(queue[i].id)
      BY <1>5, <3>2 DEF Settled
    <3>3. CASE OnStack(queue[i].id) /\ queue[i].id # Current
      <4>1. \E j \in 1..Len(deferred') : deferred'[j] = queue[i].id
        BY <2>3, <3>3 DEF OnStack
      <4> QED
        BY <1>1, <4>1 DEF Settled, OnStack
    <3> QED
      BY <2>4, <3>1, <3>2, <3>3 DEF Settled, AtHand
  <2>6. \A i, j \in 1..Len(deferred') : deferred'[i] = deferred'[j] => i = j
    BY <1>3, <2>1
  <2>7. deferred' # <<>> => deferred'[1] = deferred[1]
    BY <2>1
  <2> QED
    BY <1>1, <1>2, <1>7, <2>1, <2>2, <2>5, <2>6, <2>7
<1> QED
  BY <1>6, <1>7 DEF StillDeferred

LEMMA RecordTextKeepsDetours ==
  ASSUME Core, Detours, RecordText
  PROVE  Detours'
<1>1. /\ Answered /\ Record /\ queueIndex' = queueIndex + 1
      /\ state' = "ClassifyCustomPrompt" /\ deferred' = deferred
  BY DEF RecordText
<1>2. /\ InDetours /\ Len(queue') = Len(queue) /\ \A i \in 1..Len(queue) : queue'[i].id = queue[i].id
      /\ queueIndex + 1 \in 1..Len(queue) /\ queueIndex + 1 \in Nat
      /\ \A id : OnStack(id)' => OnStack(id)
      /\ \A i, j \in 1..Len(deferred') : deferred'[i] = deferred'[j] => i = j
      /\ \A i \in 1..Len(queue) : Settled(queue[i].id) \/ AtHand(i) => Settled(queue[i].id)'
      /\ Asking
  BY <1>1, RecordSettles
<1>3. Len(queue) \in Nat /\ queueIndex \in Nat
  BY <1>2, DetourFacts
<1>4. \A i \in 1..Len(queue) : Behind(i)' => Behind(i) \/ AtHand(i)
  <2> SUFFICES ASSUME NEW i \in 1..Len(queue), Behind(i)'
               PROVE  Behind(i) \/ AtHand(i)
    OBVIOUS
  <2>1. Behind(i) \/ i <= queueIndex + 1
    BY <1>1, <1>2, <1>3, BehindGrows
  <2> QED
    BY <1>2, <1>3, <2>1 DEF Behind, AtHand
<1>5. InDetours' /\ ~Asking' /\ state' # "ExpandQuestionWithClarification"
  BY <1>1 DEF InDetours, Asking
<1>6. queue[1].id = Completion =>
        /\ deferred' = <<>> => Len(queue) = 1
        /\ deferred' # <<>> => deferred'[1] = Completion
  BY <1>1, <1>2, DetourFacts
<1>7. \A id : OnStack(id)' => InQueue(id)
  BY <1>2, DetourFacts
<1> QED
  BY <1>1, <1>2, <1>3, <1>4, <1>5, <1>6, <1>7, SameQueue

LEMMA GoBackKeepsDetours ==
  ASSUME Core, Detours, RecordAndGoBack
  PROVE  Detours'
<1> DEFINE top == Peek(StillDeferred)
<1>1. /\ Answered /\ Record /\ queueIndex' = IndexOf(queue, top)
      /\ state' = state /\ deferred' = StillDeferred
      /\ StillDeferred # <<>> /\ InQueue(top)
  BY DEF RecordAndGoBack, GoesBack, TopInQueue
<1>2. /\ InDetours /\ Len(queue') = Len(queue) /\ \A i \in 1..Len(queue) : queue'[i].id = queue[i].id
      /\ deferred' \in Seq(Ids)
      /\ \A id : OnStack(id)' => OnStack(id)
      /\ \A i, j \in 1..Len(deferred') : deferred'[i] = deferred'[j] => i = j
      /\ deferred' # <<>> => deferred # <<>> /\ deferred'[1] = deferred[1]
      /\ \A i \in 1..Len(queue) : Settled(queue[i].id) \/ AtHand(i) => Settled(queue[i].id)'
      /\ Asking
  BY <1>1, RecordSettles
<1>3. Len(queue) \in Nat /\ queue \in Seq(Items)
  BY <1>2, DetourFacts
<1>4. /\ queueIndex' + 1 \in 1..Len(queue) /\ queue[queueIndex' + 1].id = top
      /\ First(queueIndex' + 1) /\ queueIndex' \in 0..Len(queue)
  BY <1>1, <1>3, FirstAt, IndexOfFacts
<1>5. OnStack(top)
  <2>1. \E j \in 1..Len(deferred') : deferred'[j] = top
    BY <1>1, <1>2, TopOnStack
  <2> QED
    BY <1>2, <2>1 DEF OnStack
<1>6. top = Peek(deferred)'
  BY <1>1 DEF Peek
<1> HIDE DEF top
<1>7. queueIndex' \in Nat /\ queueIndex' <= Len(queue)
  BY <1>3, <1>4
<1>8. \A i \in 1..Len(queue) : Behind(i)' => Behind(i) \/ AtHand(i)
  <2> SUFFICES ASSUME NEW i \in 1..Len(queue), Behind(i)'
               PROVE  Behind(i)
    OBVIOUS
  <2>1. CASE i <= queueIndex'
    <3> DEFINE n == queueIndex'
    <3>1. n \in Nat /\ n + 1 \in 1..Len(queue) /\ i <= n /\ i \in Nat
      <4>1. n + 1 \in 1..Len(queue)
        BY <1>4
      <4>2. i \in Nat
        BY <1>3
      <4> QED
        BY <1>7, <2>1, <4>1, <4>2
    <3>2. First(n + 1) /\ OnStack(queue[n + 1].id)
      BY <1>4, <1>5
    <3> HIDE DEF n
    <3>3. n + 1 \in i..Len(queue)
      BY <1>3, <3>1
    <3> QED
      BY <3>2, <3>3 DEF Behind
  <2> QED
    BY <1>2, <1>3, <2>1, BehindGrows
<1>9. queue[1].id = Completion =>
        /\ deferred' = <<>> => Len(queue) = 1
        /\ deferred' # <<>> => deferred'[1] = Completion
        /\ Asking' /\ queueIndex' = 0 /\ deferred' # <<>> => Peek(deferred)' = Completion
  <2>1. queueIndex' = 0 => top = queue[1].id
    BY <1>4
  <2> QED
    BY <1>1, <1>2, <1>6, <2>1, DetourFacts
<1>10. \A id : OnStack(id)' => InQueue(id)
  BY <1>2, DetourFacts
<1>11. InDetours' /\ state' # "ExpandQuestionWithClarification"
  BY <1>1, <1>2 DEF InDetours, Asking
<1> QED
  BY <1>2, <1>7, <1>8, <1>9, <1>10, <1>11, SameQueue

\* When the queue does not go back, what is left on the stack is at hand next.
LEMMA NotGoingBack ==
  ASSUME Core, Detours, Answered, Record, deferred' = StillDeferred, ~GoesBack, deferred' # <<>>
  PROVE  queueIndex + 2 <= Len(queue)
<1>1. /\ InDetours /\ deferred' \in Seq(Ids) /\ \A id : OnStack(id)' => OnStack(id)
      /\ queueIndex + 1 \in Nat
  BY RecordSettles
<1>2. queue \in Seq(Items) /\ \A id : OnStack(id) => InQueue(id)
  BY <1>1, DetourFacts
<1>3. InQueue(Peek(StillDeferred))
  <2>1. \E j \in 1..Len(deferred') : deferred'[j] = Peek(StillDeferred)
    BY <1>1, TopOnStack
  <2>2. OnStack(Peek(StillDeferred))
    BY <1>1, <2>1 DEF OnStack
  <2> QED
    BY <1>2, <2>2
<1>4. IndexOf(queue, Peek(StillDeferred)) = queueIndex + 1
  BY <1>3 DEF GoesBack, TopInQueue
<1>5. (queueIndex + 1) + 1 \in 1..Len(queue)
  BY <1>2, <1>3, <1>4, FirstAt
<1> QED
  BY <1>1, <1>2, <1>5 DEF Core, TypeOK

LEMMA ConfirmationKeepsDetours ==
  ASSUME Core, Detours, RecordConfirmation
  PROVE  Detours'
<1>1. /\ Answered /\ Record /\ ~GoesBack /\ Current = Completion
      /\ deferred' = StillDeferred /\ state' \in {"Done", "IntegrateIntoSpec"}
  BY DEF RecordConfirmation
<1>2. /\ InDetours /\ Len(queue') = Len(queue) /\ \A i \in 1..Len(queue) : queue'[i].id = queue[i].id
      /\ Asking /\ queueIndex + 1 \in 1..Len(queue)
      /\ \A i \in 1..Len(queue) : Settled(queue[i].id) \/ AtHand(i) => Settled(queue[i].id)'
  BY <1>1, RecordSettles
<1>3. queueIndex = 0 /\ queue[1].id = Completion
  <2>1. queue[queueIndex + 1].id = Completion /\ queueIndex \in Nat
    BY <1>1, <1>2, DetourFacts DEF Current
  <2>2. queueIndex + 1 \notin 2..Len(queue)
    BY <1>2, <2>1, DetourFacts
  <2> QED
    BY <1>2, <2>1, <2>2
<1>4. /\ \A i \in 1..Len(queue) : Settled(queue[i].id) \/ AtHand(i)
      /\ deferred # <<>> => deferred[1] = Completion /\ Peek(deferred) = Completion
      /\ deferred \in Seq(Ids) /\ Len(deferred) \in Nat
      /\ \A i, j \in 1..Len(deferred) : deferred[i] = deferred[j] => i = j
  BY <1>2, <1>3, DetourFacts
<1>5. deferred' = <<>>
  <2>1. CASE deferred = <<>>
    BY <1>1, <2>1 DEF StillDeferred
  <2>2. CASE deferred # <<>>
    <3>1. Len(deferred) = 1
      BY <1>4, <2>2, TopOnStack
    <3>2. deferred' = Pop(deferred)
      BY <1>1, <1>4, <2>2 DEF StillDeferred
    <3>3. Pop(deferred) \in Seq(Ids) /\ Len(Pop(deferred)) = 0
      BY <1>4, <2>2, <3>1, FrontFacts DEF Pop
    <3> QED
      BY <3>2, <3>3
  <2> QED
    BY <2>1, <2>2
<1>6. \A i \in 1..Len(queue') : Settled(queue[i].id)'
  BY <1>2, <1>4
<1> QED
  BY <1>1, <1>5, <1>6, LeavesSettled

LEMMA GoOnKeepsDetours ==
  ASSUME Core, Detours, RecordAndGoOn
  PROVE  Detours'
<1>1. /\ Answered /\ Record /\ ~GoesBack /\ Current # Completion
      /\ deferred' = StillDeferred /\ queueIndex' = queueIndex + 1
      /\ IF queueIndex + 1 < Len(queue) THEN state' = state ELSE state' = "IntegrateIntoSpec"
  BY DEF RecordAndGoOn, ToIntegration
<1>2. /\ InDetours /\ Len(queue') = Len(queue) /\ \A i \in 1..Len(queue) : queue'[i].id = queue[i].id
      /\ Asking /\ queueIndex + 1 \in 1..Len(queue) /\ queueIndex + 1 \in Nat
      /\ deferred' \in Seq(Ids)
      /\ \A id : OnStack(id)' => OnStack(id)
      /\ \A i, j \in 1..Len(deferred') : deferred'[i] = deferred'[j] => i = j
      /\ deferred' # <<>> => deferred # <<>> /\ deferred'[1] = deferred[1]
      /\ \A i \in 1..Len(queue) : Settled(queue[i].id) \/ AtHand(i) => Settled(queue[i].id)'
  BY <1>1, RecordSettles
<1>3. Len(queue) \in Nat /\ queueIndex \in Nat
  BY <1>2, DetourFacts
<1>4. CASE queueIndex + 1 < Len(queue)
  <2>1. \A i \in 1..Len(queue) : Behind(i)' => Behind(i) \/ AtHand(i)
    <3> SUFFICES ASSUME NEW i \in 1..Len(queue), Behind(i)'
                 PROVE  Behind(i) \/ AtHand(i)
      OBVIOUS
    <3>1. Behind(i) \/ i <= queueIndex + 1
      BY <1>1, <1>2, <1>3, BehindGrows
    <3> QED
      BY <1>2, <1>3, <3>1 DEF Behind, AtHand
  <2>2. queue[1].id = Completion =>
          /\ deferred' = <<>> => Len(queue) = 1
          /\ deferred' # <<>> => deferred'[1] = Completion
    <3> SUFFICES ASSUME queue[1].id = Completion, deferred' = <<>>
                 PROVE  FALSE
      BY <1>2, DetourFacts
    <3>1. deferred # <<>> /\ deferred[1] = Completion /\ deferred \in Seq(Ids)
          /\ Len(deferred) \in Nat
      BY <1>2, <1>3, <1>4, DetourFacts
    <3>2. Peek(deferred) = Current /\ deferred' = Pop(deferred)
      BY <1>1, <3>1 DEF StillDeferred
    <3>3. Len(deferred) = 1
      <4>1. /\ Len(Pop(deferred)) = Len(deferred) - 1 /\ Len(deferred) \in Nat \ {0}
        BY <3>1, FrontFacts DEF Pop
      <4>2. Len(Pop(deferred)) = 0
        BY <3>2
      <4> QED
        BY <4>1, <4>2
    <3> QED
      BY <1>1, <3>1, <3>2, <3>3 DEF Peek
  <2>3. InDetours' /\ state' # "ExpandQuestionWithClarification"
    BY <1>1, <1>2, <1>4 DEF InDetours, Asking
  <2>4. queueIndex' \in Nat /\ queueIndex' <= Len(queue) /\ queueIndex' # 0
    BY <1>1, <1>2, <1>3
  <2>5. \A id : OnStack(id)' => InQueue(id)
    BY <1>2, DetourFacts
  <2> QED
    BY <1>2, <2>1, <2>2, <2>3, <2>4, <2>5, SameQueue
<1>5. CASE ~(queueIndex + 1 < Len(queue))
  <2>1. deferred' = <<>>
    BY <1>1, <1>3, <1>5, NotGoingBack
  <2>2. \A i \in 1..Len(queue) : Behind(i) \/ AtHand(i)
    BY <1>2, <1>3, <1>5 DEF Behind, AtHand
  <2>3. \A i \in 1..Len(queue) : Settled(queue[i].id) \/ AtHand(i)
    BY <1>2, <2>2, DetourFacts
  <2>4. \A i \in 1..Len(queue') : Settled(queue[i].id)'
    BY <1>2, <2>3
  <2> QED
    BY <1>1, <1>5, <2>1, <2>4, LeavesSettled
<1> QED
  BY <1>4, <1>5

LEMMA CheckAsksKeepsDetours ==
  ASSUME Core, Detours, NEW ids \in SortedLists, NEW withItems \in BOOLEAN,
         CheckAsks(ids, withItems), ~reserved'
  PROVE  Detours'
<1>1. /\ state' = "NumberedOptionsHumanRequest" /\ queue' = QueueOf(ids) /\ queueIndex' = 0
      /\ deferred' = <<>> /\ Completion \notin Range(ids)
  BY DEF CheckAsks, Detours, StackInQueue, InDetours, Ended, workVars
<1>2. /\ ids # <<>> => \A i \in 1..Len(queue') : queue'[i].id # Completion
      /\ ids = <<>> => Len(queue') = 1
      /\ queue' \in Seq(Items) /\ Len(queue') >= 1
  BY <1>1, QueueOfFacts
<1>3. 1 \in 1..Len(queue') /\ Len(queue') \in Nat
  BY <1>2
<1>4. \A id : ~OnStack(id)'
  BY <1>1 DEF OnStack
<1>5. \A i \in 1..Len(queue') : ~Behind(i)'
  BY <1>1, <1>4 DEF Behind, OnStack
<1>6. StackInQueue'
  BY <1>1, <1>5 DEF StackInQueue, InDetours
<1>7. CompletionFirst'
  <2>1. CASE ids = <<>>
    BY <1>1, <1>2, <2>1 DEF CompletionFirst, AtHand, Asking
  <2>2. CASE ids # <<>>
    BY <1>2, <1>3, <2>2 DEF CompletionFirst
  <2> QED
    BY <2>1, <2>2
<1>8. LeavesNothing'
  BY <1>1 DEF LeavesNothing
<1> QED
  BY <1>6, <1>7, <1>8 DEF Detours

LEMMA CustomAnswerKeepsDetours ==
  ASSUME Core, Detours, CustomAnswer
  PROVE  Detours'
<1>1. /\ state = "ClassifyCustomPrompt" /\ state' = "NumberedOptionsHumanRequest"
      /\ UNCHANGED <<queue, queueIndex, deferred>>
  BY DEF CustomAnswer
<1>2. InDetours /\ InDetours' /\ queueIndex # 0
  BY <1>1 DEF InDetours, Core, IndexInQueue
<1>3. queueIndex' \in Nat /\ queueIndex' <= Len(queue)
  BY <1>1, <1>2, DetourFacts
<1>4. \A i \in 1..Len(queue) : Settled(queue[i].id) \/ AtHand(i) => Settled(queue[i].id)'
  BY <1>1 DEF Settled, AnsweredIn, OnStack, AtHand, Asking
<1>5. \A i \in 1..Len(queue) : Behind(i)' => Behind(i)
  BY <1>1 DEF Behind, First, OnStack
<1>6. \A id : OnStack(id)' => InQueue(id)
  BY <1>1, <1>2, DetourFacts DEF OnStack
<1>7. \A i, j \in 1..Len(deferred') : deferred'[i] = deferred'[j] => i = j
  BY <1>1, <1>2, DetourFacts
<1>8. queue[1].id = Completion =>
        /\ deferred' = <<>> => Len(queue) = 1
        /\ deferred' # <<>> => deferred'[1] = Completion
        /\ Asking' /\ queueIndex' = 0 /\ deferred' # <<>> => Peek(deferred)' = Completion
  BY <1>1, <1>2, DetourFacts
<1> QED
  BY <1>1, <1>2, <1>3, <1>4, <1>5, <1>6, <1>7, <1>8, SameQueue

\* A question is on top of the stack, once.
DeferredOnce(stack, id, deeper) ==
  /\ deeper \in Seq(Ids) /\ deeper # <<>>
  /\ \A i, j \in 1..Len(deeper) : deeper[i] = deeper[j] => i = j
  /\ \A other : (\E j \in 1..Len(deeper) : deeper[j] = other) <=>
                  other = id \/ (\E j \in 1..Len(stack) : stack[j] = other)
  /\ stack # <<>> => deeper[1] = stack[1]
  /\ stack = <<>> => deeper[1] = id

LEMMA DeferFacts ==
  ASSUME NEW stack \in Seq(Ids), NEW id \in Ids,
         \A i, j \in 1..Len(stack) : stack[i] = stack[j] => i = j
  PROVE  DeferredOnce(stack, id, Defer(stack, id))
<1>1. CASE \E i \in 1..Len(stack) : stack[i] = id
  BY <1>1 DEF Defer, DeferredOnce
<1>2. CASE ~(\E i \in 1..Len(stack) : stack[i] = id)
  <2> DEFINE deeper == Append(stack, id)
             n == Len(stack)
  <2>1. n \in Nat /\ deeper \in Seq(Ids) /\ Len(deeper) = n + 1 /\ deeper[n + 1] = id
        /\ \A i \in 1..n : deeper[i] = stack[i]
    OBVIOUS
  <2>3. \A i \in 1..n : stack[i] # id
    BY <1>2
  <2>4. stack # <<>> => n # 0
    OBVIOUS
  <2>5. stack = <<>> => n = 0
    OBVIOUS
  <2>6. Defer(stack, id) = deeper
    BY <1>2 DEF Defer
  <2> HIDE DEF deeper, n
  <2>2. deeper # <<>>
    BY <2>1
  <2>7. \A i, j \in 1..Len(deeper) : deeper[i] = deeper[j] => i = j
    BY <2>1, <2>3 DEF n
  <2>8. \A other : (\E j \in 1..Len(deeper) : deeper[j] = other) <=>
                     other = id \/ (\E j \in 1..n : stack[j] = other)
    BY <2>1
  <2>9. (stack # <<>> => deeper[1] = stack[1]) /\ (stack = <<>> => deeper[1] = id)
    BY <2>1, <2>4, <2>5
  <2> QED
    BY <2>1, <2>2, <2>6, <2>7, <2>8, <2>9 DEF n, DeferredOnce
<1> QED
  BY <1>1, <1>2

LEMMA CustomQuestionKeepsDetours ==
  ASSUME Core, Detours, NEW text \in QuestionTexts, CustomQuestion(text)
  PROVE  Detours'
<1> DEFINE id == ClassifiedQuestion
<1>1. /\ state = "ClassifyCustomPrompt" /\ state' = "ExpandQuestionWithClarification"
      /\ queue' = Unanswered(queue, queueIndex)
      /\ deferred' = Defer(deferred, id)
      /\ pending' = [question |-> id, text |-> text]
      /\ queueIndex' = queueIndex
  BY DEF CustomQuestion, Unanswered
<1>2. /\ InDetours /\ InDetours' /\ ~Asking /\ ~Asking' /\ id \in Ids /\ queueIndex # 0
      /\ queueIndex \in 1..Len(queue) /\ id = queue[queueIndex].id
  BY <1>1, ClassifiedFacts DEF InDetours, Asking, ClassifiedQuestion
<1>3. queue \in Seq(Items) /\ Len(queue) \in Nat /\ deferred \in Seq(Ids)
      /\ queueIndex \in Nat /\ queueIndex <= Len(queue)
  BY <1>2, DetourFacts
<1> HIDE DEF id
<1>4. /\ Len(queue') = Len(queue) /\ \A i \in 1..Len(queue) : queue'[i].id = queue[i].id
      /\ \A i \in 1..Len(queue) : i # queueIndex => queue'[i] = queue[i]
  BY <1>1, <1>2, <1>3, UnansweredFacts
<1>5. /\ \A i, j \in 1..Len(deferred') : deferred'[i] = deferred'[j] => i = j
      /\ \A other : OnStack(other)' <=> other = id \/ OnStack(other)
      /\ deferred' # <<>>
      /\ deferred # <<>> => deferred'[1] = deferred[1]
      /\ deferred = <<>> => deferred'[1] = id
  <2>1. \A i, j \in 1..Len(deferred) : deferred[i] = deferred[j] => i = j
    BY <1>2, DetourFacts
  <2>2. DeferredOnce(deferred, id, deferred')
    BY <1>1, <1>2, <1>3, <2>1, DeferFacts
  <2> QED
    BY <2>2 DEF OnStack, DeferredOnce
<1>6. \A i \in 1..Len(queue) : Settled(queue[i].id) \/ AtHand(i) => Settled(queue[i].id)'
  <2> SUFFICES ASSUME NEW i \in 1..Len(queue), Settled(queue[i].id)
               PROVE  AnsweredIn(queue[i].id)' \/ OnStack(queue[i].id)'
    BY <1>2 DEF AtHand, Settled
  <2>1. CASE OnStack(queue[i].id) \/ queue[i].id = id
    <3>1. \E j \in 1..Len(deferred') : deferred'[j] = queue[i].id
      BY <1>5, <2>1 DEF OnStack
    <3> QED
      BY <1>4, <3>1 DEF OnStack
  <2>2. CASE AnsweredIn(queue[i].id) /\ queue[i].id # id
    <3>1. PICK m \in 1..Len(queue) : queue[m].id = queue[i].id /\ queue[m].answered
      BY <2>2 DEF AnsweredIn
    <3>2. queue'[m] = queue[m]
      BY <1>2, <1>4, <2>2, <3>1
    <3> QED
      BY <1>4, <3>1, <3>2 DEF AnsweredIn
  <2> QED
    BY <2>1, <2>2 DEF Settled
<1>7. \A i \in 1..Len(queue) : Behind(i)' => Behind(i)
  <2> SUFFICES ASSUME NEW i \in 1..Len(queue), Behind(i)'
               PROVE  Behind(i)
    OBVIOUS
  <2>1. CASE i <= queueIndex
    BY <2>1 DEF Behind
  <2>2. CASE ~(i <= queueIndex)
    <3>1. PICK k \in i..Len(queue') : First(k)' /\ OnStack(queue[k].id)'
      BY <1>1, <2>2 DEF Behind
    <3>2. k \in 1..Len(queue) /\ k \in i..Len(queue)
      BY <1>4
    <3>3. First(k)
      BY <1>3, <1>4, <3>1, <3>2, FirstSame
    <3>4. queue[k].id = id \/ OnStack(queue[k].id)
      <4>1. \E j \in 1..Len(deferred') : deferred'[j] = queue[k].id
        BY <1>4, <3>1, <3>2 DEF OnStack
      <4> QED
        BY <1>5, <4>1 DEF OnStack
    <3>5. queue[k].id # id
      <4>1. queueIndex \in 1..(k - 1)
        BY <1>2, <1>3, <2>2, <3>2
      <4> QED
        BY <1>2, <3>3, <4>1 DEF First
    <3> QED
      BY <3>2, <3>3, <3>4, <3>5 DEF Behind
  <2> QED
    BY <2>1, <2>2
<1>8. queue[1].id = Completion => deferred'[1] = Completion
  <2> SUFFICES ASSUME queue[1].id = Completion PROVE deferred'[1] = Completion
    OBVIOUS
  <2>1. CASE deferred = <<>>
    <3>1. Len(queue) = 1
      BY <1>2, <2>1, DetourFacts
    <3>2. queueIndex = 1
      BY <1>2, <3>1
    <3> QED
      BY <1>2, <1>5, <2>1, <3>2
  <2>2. CASE deferred # <<>>
    BY <1>2, <1>5, <2>2, DetourFacts
  <2> QED
    BY <2>1, <2>2
<1>9. \A other : OnStack(other)' => InQueue(other)
  <2>1. InQueue(id)
    BY <1>2 DEF InQueue
  <2> QED
    BY <1>2, <1>5, <2>1, DetourFacts
<1>10. OnStack(pending.question)'
  <2>1. \E j \in 1..Len(deferred') : deferred'[j] = id
    BY <1>5 DEF OnStack
  <2> QED
    BY <1>1, <2>1 DEF OnStack
<1>11. queueIndex' \in Nat /\ queueIndex' <= Len(queue)
  BY <1>1, <1>3
<1> QED
  BY <1>2, <1>4, <1>5, <1>6, <1>7, <1>8, <1>9, <1>10, <1>11, SameQueue

LEMMA ResearchKeepsDetours ==
  ASSUME Core, Detours, Research
  PROVE  Detours'
<1> DEFINE id == pending.question
<1>1. /\ state = "ExpandQuestionWithClarification" /\ state' = "NumberedOptionsHumanRequest"
      /\ queueIndex' = ResumeIndex(id)
      /\ UNCHANGED <<queue, deferred>>
  BY DEF Research
<1>2. /\ InDetours /\ InDetours' /\ ~Asking /\ queueIndex # 0
      /\ queueIndex \in 1..Len(queue) /\ id = queue[queueIndex].id
  BY <1>1, ClassifiedFacts DEF InDetours, Asking, ClassifiedQuestion, Core, IndexInQueue
<1>3. queue \in Seq(Items) /\ Len(queue) \in Nat /\ queueIndex \in Nat /\ queueIndex <= Len(queue)
  BY <1>2, DetourFacts
<1>4. /\ queueIndex' \in Nat /\ queueIndex' <= queueIndex
      /\ queueIndex' = 0 => queue[1].id = id /\ Peek(deferred) = id
  <2>1. CASE deferred # <<>> /\ Peek(deferred) = id
    <3>1. queueIndex' = IndexOf(queue, id)
      BY <1>1, <2>1 DEF ResumeIndex
    <3>2. InQueue(id)
      BY <1>2 DEF InQueue
    <3> HIDE DEF id
    <3>3. /\ IndexOf(queue, id) + 1 \in 1..Len(queue) /\ queue[IndexOf(queue, id) + 1].id = id
          /\ \A j \in 1..IndexOf(queue, id) : queue[j].id # id
          /\ IndexOf(queue, id) \in 0..Len(queue)
      BY <1>3, <3>2, FirstAt, IndexOfFacts
    <3> DEFINE n == IndexOf(queue, id)
    <3>4. n \in Nat /\ queue[n + 1].id = id /\ \A j \in 1..n : queue[j].id # id
      BY <1>3, <3>3
    <3> HIDE DEF n
    <3>5. n <= queueIndex
      BY <1>2, <1>3, <3>4
    <3>6. n = 0 => queue[1].id = id
      BY <3>4
    <3> QED
      BY <2>1, <3>1, <3>4, <3>5, <3>6 DEF n
  <2>2. CASE ~(deferred # <<>> /\ Peek(deferred) = id)
    BY <1>1, <1>2, <1>3, <2>2 DEF ResumeIndex
  <2> QED
    BY <2>1, <2>2
<1> HIDE DEF id
<1>5. \A i \in 1..Len(queue) : Settled(queue[i].id) \/ AtHand(i) => Settled(queue[i].id)'
  BY <1>1, <1>2 DEF Settled, AnsweredIn, OnStack, AtHand
<1>6. \A i \in 1..Len(queue) : Behind(i)' => Behind(i)
  <2>1. \A i \in 1..Len(queue) : i <= queueIndex' => i <= queueIndex
    BY <1>3, <1>4
  <2> QED
    BY <1>1, <2>1 DEF Behind, First, OnStack
<1>7. \A other : OnStack(other)' => InQueue(other)
  BY <1>1, <1>2, DetourFacts DEF OnStack
<1>8. \A i, j \in 1..Len(deferred') : deferred'[i] = deferred'[j] => i = j
  BY <1>1, <1>2, DetourFacts
<1>9. queue[1].id = Completion =>
        /\ deferred' = <<>> => Len(queue) = 1
        /\ deferred' # <<>> => deferred'[1] = Completion
        /\ Asking' /\ queueIndex' = 0 /\ deferred' # <<>> => Peek(deferred)' = Completion
  BY <1>1, <1>2, <1>4, DetourFacts DEF Peek
<1>10. queueIndex' <= Len(queue)
  BY <1>3, <1>4
<1> QED
  BY <1>1, <1>2, <1>4, <1>5, <1>6, <1>7, <1>8, <1>9, <1>10, SameQueue

LEMMA FollowUpKeepsDetours ==
  ASSUME Core, Detours, NEW id \in FollowUps, FollowUp(id), ~reserved'
  PROVE  Detours'
<1> DEFINE p == queueIndex
           n == Len(queue)
<1>1. /\ state = "ExpandQuestionWithClarification" /\ state' = "NumberedOptionsHumanRequest"
      /\ UNCHANGED <<queueIndex, deferred>> /\ id # Completion
  BY DEF FollowUp
<1>2. InDetours /\ InDetours' /\ ~Asking /\ Asking' /\ p # 0
  BY <1>1, ClassifiedFacts DEF InDetours, Asking
<1>3. /\ p \in 1..n /\ queue' \in Seq(Items) /\ Len(queue') = n + 1
      /\ \A i \in 1..p : queue'[i] = queue[i]
      /\ queue'[p + 1] = [id |-> id, answered |-> FALSE]
      /\ \A i \in (p + 1)..n : queue'[i + 1] = queue[i]
  BY FollowUpFacts
<1>4. /\ n \in Nat /\ p \in Nat /\ p <= n /\ id # Completion
      /\ queue'[p + 1].id = id
  BY <1>1, <1>2, <1>3, DetourFacts, Constants
<1>5. \A k \in 1..Len(queue') :
        \/ k \in 1..p /\ k \in 1..n /\ queue'[k] = queue[k]
        \/ k = p + 1
        \/ k > p + 1 /\ k - 1 \in 1..n /\ k - 1 \in (p + 1)..n /\ queue'[k] = queue[k - 1]
  <2> SUFFICES ASSUME NEW k \in 1..Len(queue'), ~(k <= p), k # p + 1
               PROVE  k > p + 1 /\ k - 1 \in 1..n /\ k - 1 \in (p + 1)..n /\ queue'[k] = queue[k - 1]
    BY <1>3, <1>4
  <2>1. k > p + 1 /\ k - 1 \in 1..n /\ k - 1 \in (p + 1)..n /\ (k - 1) + 1 = k
    BY <1>3, <1>4
  <2> QED
    BY <1>3, <2>1
<1>6. \A other : OnStack(other)' <=> OnStack(other)
  BY <1>1 DEF OnStack
<1>7. \A i \in 1..n : \E k \in 1..Len(queue') : queue'[k] = queue[i]
  <2> SUFFICES ASSUME NEW i \in 1..n
               PROVE  \E k \in 1..Len(queue') : queue'[k] = queue[i]
    OBVIOUS
  <2>1. CASE i <= p
    BY <1>3, <1>4, <2>1
  <2>2. CASE ~(i <= p)
    <3>1. i \in (p + 1)..n /\ i + 1 \in 1..Len(queue')
      BY <1>3, <1>4, <2>2
    <3> QED
      BY <1>3, <3>1
  <2> QED
    BY <2>1, <2>2
<1>8. \A other : /\ InQueue(other) => InQueue(other)'
                 /\ AnsweredIn(other) => AnsweredIn(other)'
                 /\ Settled(other) => AnsweredIn(other)' \/ OnStack(other)
  BY <1>7 DEF InQueue, AnsweredIn, Settled
<1>9. \A i \in 1..n : Behind(i) => Settled(queue[i].id)
  BY <1>2, DetourFacts DEF AtHand
<1>10. \A i \in 1..Len(queue') : i # p + 1 /\ Behind(i)' => Settled(queue[i].id)'
  <2> SUFFICES ASSUME NEW i \in 1..Len(queue'), i # p + 1, Behind(i)'
               PROVE  Settled(queue[i].id)'
    OBVIOUS
  <2>1. CASE i <= p
    <3>1. i \in 1..n /\ queue'[i] = queue[i] /\ Behind(i)
      BY <1>3, <1>4, <2>1 DEF Behind
    <3>2. Settled(queue[i].id)
      BY <1>9, <3>1
    <3> QED
      BY <1>1, <1>8, <3>1, <3>2 DEF Settled, AnsweredIn, OnStack
  <2>2. CASE ~(i <= p)
    <3>1. i > p + 1 /\ i - 1 \in 1..n /\ queue'[i] = queue[i - 1]
      BY <1>4, <1>5, <2>2
    <3>2. PICK k \in i..Len(queue') : First(k)' /\ OnStack(queue[k].id)'
      BY <1>1, <2>2 DEF Behind
    <3>3. /\ k \in 1..Len(queue') /\ k > p + 1 /\ k - 1 \in (i - 1)..n
          /\ k - 1 \in 1..n /\ queue'[k] = queue[k - 1]
      <4>1. k \in 1..Len(queue') /\ i <= k /\ i \in Nat /\ k \in Nat
        BY <1>3, <1>4
      <4>2. k > p + 1
        BY <1>4, <3>1, <4>1
      <4>3. k - 1 \in 1..n /\ queue'[k] = queue[k - 1]
        BY <1>4, <1>5, <4>1, <4>2
      <4> QED
        BY <1>4, <4>1, <4>2, <4>3
    <3>4. OnStack(queue[k - 1].id)
      BY <1>1, <3>2, <3>3 DEF OnStack
    <3>5. First(k - 1)
      <4> SUFFICES ASSUME NEW j \in 1..((k - 1) - 1), queue[j].id = queue[k - 1].id
                   PROVE  FALSE
        BY DEF First
      <4>1. j \in Nat /\ k \in Nat /\ j < k - 1 /\ j \in 1..n
        BY <1>4, <3>3
      <4>2. CASE j <= p
        <5>1. j \in 1..(k - 1) /\ queue'[j] = queue[j]
          BY <1>3, <1>4, <4>1, <4>2
        <5> QED
          BY <3>2, <3>3, <5>1 DEF First
      <4>3. CASE ~(j <= p)
        <5>1. j \in (p + 1)..n /\ j + 1 \in 1..(k - 1)
          BY <1>4, <4>1, <4>3
        <5>2. queue'[j + 1] = queue[j]
          BY <1>3, <5>1
        <5> QED
          BY <3>2, <3>3, <5>1, <5>2 DEF First
      <4> QED
        BY <4>2, <4>3
    <3>6. Settled(queue[i - 1].id)
      BY <1>9, <3>1, <3>3, <3>4, <3>5 DEF Behind
    <3> QED
      BY <1>1, <1>8, <3>1, <3>6 DEF Settled, AnsweredIn, OnStack
  <2> QED
    BY <2>1, <2>2
<1>11. StackInQueue'
  <2>1. \A j \in 1..Len(deferred') : InQueue(deferred[j])'
    <3> SUFFICES ASSUME NEW j \in 1..Len(deferred')
                 PROVE  InQueue(deferred[j])'
      OBVIOUS
    <3>1. OnStack(deferred[j])
      BY <1>1 DEF OnStack
    <3>2. InQueue(deferred[j])
      BY <1>2, <3>1, DetourFacts
    <3> QED
      BY <1>1, <1>8, <3>2 DEF InQueue
  <2>2. \A i, j \in 1..Len(deferred') : deferred'[i] = deferred'[j] => i = j
    BY <1>1, <1>2, DetourFacts
  <2>3. \A i \in 1..Len(queue') : Behind(i)' => Settled(queue[i].id)' \/ AtHand(i)'
    BY <1>1, <1>2, <1>10 DEF AtHand
  <2> QED
    BY <1>1, <1>2, <2>1, <2>2, <2>3 DEF StackInQueue
<1>12. CompletionFirst'
  <2>1. \A i \in 2..Len(queue') : queue'[i].id # Completion
    <3> SUFFICES ASSUME NEW i \in 2..Len(queue')
                 PROVE  queue'[i].id # Completion
      OBVIOUS
    <3>1. i \in 1..Len(queue') /\ i >= 2
      BY <1>3
    <3>2. CASE i \in 1..p /\ i \in 1..n /\ queue'[i] = queue[i]
      <4>1. i \in 2..n
        BY <3>1, <3>2
      <4> QED
        BY <1>2, <3>2, <4>1, DetourFacts
    <3>3. CASE i = p + 1
      BY <1>4, <3>3
    <3>4. CASE i > p + 1 /\ i - 1 \in 1..n /\ queue'[i] = queue[i - 1]
      <4>1. i - 1 \in 2..n
        BY <1>3, <1>4, <3>4
      <4> QED
        BY <1>2, <3>4, <4>1, DetourFacts
    <3> QED
      BY <1>5, <3>1, <3>2, <3>3, <3>4
  <2>2. queue'[1] = queue[1]
    BY <1>3, <1>4
  <2>3. deferred # <<>>
    <3>1. OnStack(pending.question)
      BY <1>1, <1>2 DEF Detours, StackInQueue
    <3> QED
      BY <3>1 DEF OnStack
  <2>4. queue[1].id = Completion =>
          /\ \A i \in 1..Len(queue') : Settled(queue[i].id)' \/ AtHand(i)'
          /\ deferred[1] = Completion
    <3> SUFFICES ASSUME queue[1].id = Completion, NEW i \in 1..Len(queue')
                 PROVE  Settled(queue[i].id)' \/ AtHand(i)'
      BY <1>2, <2>3, DetourFacts
    <3>1. \A j \in 1..n : Settled(queue[j].id)
      BY <1>2, DetourFacts DEF AtHand
    <3>2. CASE i = p + 1
      BY <1>1, <1>2, <3>2 DEF AtHand
    <3>3. CASE \E j \in 1..n : queue'[i] = queue[j]
      <4>1. PICK j \in 1..n : queue'[i] = queue[j]
        BY <3>3
      <4>2. Settled(queue[j].id)
        BY <3>1
      <4> QED
        BY <1>1, <1>8, <4>1, <4>2 DEF Settled, AnsweredIn, OnStack
    <3> QED
      BY <1>5, <3>2, <3>3
  <2> QED
    BY <1>1, <1>2, <2>1, <2>2, <2>3, <2>4 DEF CompletionFirst
<1>13. LeavesNothing'
  <2>1. \A i \in 1..p : i \in 1..Len(queue') /\ i # p + 1 /\ Behind(i)'
    BY <1>1, <1>3, <1>4 DEF Behind
  <2>2. \A i \in 1..p : Settled(queue[i].id)'
    BY <1>10, <2>1
  <2> QED
    BY <1>1, <2>2 DEF LeavesNothing, Settled, OnStack
<1> QED
  BY <1>11, <1>12, <1>13 DEF Detours

\* A step that leaves state, queue and stack as they are.
LEMMA SameWorkKeepsDetours ==
  ASSUME Detours, UNCHANGED <<state, queue, queueIndex, deferred, pending>>
  PROVE  Detours'
<1>1. \A i : Behind(i)' <=> Behind(i)
  BY DEF Behind, First, OnStack
<1>2. \A id : /\ OnStack(id)' <=> OnStack(id)
              /\ Settled(id)' <=> Settled(id)
              /\ InQueue(id)' <=> InQueue(id)
              /\ AnsweredIn(id)' <=> AnsweredIn(id)
  BY DEF Settled, AnsweredIn, OnStack, InQueue
<1>3. \A i : AtHand(i)' <=> AtHand(i)
  BY DEF AtHand, Asking
<1>4. StackInQueue'
  BY <1>1, <1>3 DEF Detours, StackInQueue, InDetours, Settled, AnsweredIn, OnStack, InQueue
<1>5. CompletionFirst'
  BY <1>3 DEF Detours, CompletionFirst, InDetours, Settled, AnsweredIn, OnStack, Asking, Peek
<1>6. LeavesNothing'
  BY DEF Detours, LeavesNothing, AnsweredIn, Asking
<1> QED
  BY <1>4, <1>5, <1>6 DEF Detours

LEMMA InitDetours ==
  ASSUME Init
  PROVE  Detours
<1>1. state = "start" /\ deferred = <<>>
  BY DEF Init
<1> QED
  BY <1>1 DEF Detours, StackInQueue, CompletionFirst, LeavesNothing, InDetours, Asking

LEMMA NextKeepsDetours ==
  ASSUME Core, Detours, [Next]_vars, ~reserved'
  PROVE  Detours'
<1>1. CASE Start
  <2>1. /\ state = "start" /\ state' = "IntegrateIntoSpec" /\ queue' = <<>> /\ deferred' = <<>>
    BY <1>1 DEF Start, Core, IndexInQueue, Detours, StackInQueue, InDetours, Ended, workVars
  <2> QED
    BY <2>1, LeavesSettled
<1>2. CASE Integrate
  <2>1. /\ state' = "LogicalConsistencyCheckCreateFollowUpQuestions" /\ deferred' = <<>>
    BY <1>2 DEF Integrate, Detours, StackInQueue, InDetours, Ended, workVars
  <2> QED
    BY <2>1 DEF Detours, StackInQueue, CompletionFirst, LeavesNothing, InDetours, Asking
<1>3. CASE CheckActs
  <2>1. /\ state' = "IntegrateIntoSpec" /\ queue' = <<>> /\ deferred' = <<>>
    BY <1>3 DEF CheckActs, Detours, StackInQueue, InDetours, Ended, workVars
  <2> QED
    BY <2>1, LeavesSettled
<1>4. CASE DelegationFails \/ Finish
  <2>1. state' \in Ended
    BY <1>4 DEF DelegationFails, Finish, Ended
  <2> QED
    BY <2>1 DEF Detours, StackInQueue, CompletionFirst, LeavesNothing, InDetours, Asking, Ended
<1>5. CASE \E ids \in SortedLists, withItems \in BOOLEAN : CheckAsks(ids, withItems)
  BY <1>5, CheckAsksKeepsDetours
<1>6. CASE RevisitDeferred
  BY <1>6, RevisitKeepsCore, RevisitKeepsDetours
<1>7. CASE LeaveExhausted
  BY <1>7, LeaveKeepsDetours
<1>8. CASE Ask
  BY <1>8, SameWorkKeepsDetours DEF Ask, workVars
<1>9. CASE \E key \in DOMAIN feedback, response \in Responses : Respond(key, response)
  BY <1>9, SameWorkKeepsDetours DEF Respond, workVars
<1>10. CASE RecordText \/ RecordAndGoBack \/ RecordConfirmation \/ RecordAndGoOn
  BY <1>10, RecordTextKeepsDetours, GoBackKeepsDetours, ConfirmationKeepsDetours, GoOnKeepsDetours
<1>11. CASE CustomAnswer
  BY <1>11, CustomAnswerKeepsDetours
<1>12. CASE \E text \in QuestionTexts : CustomQuestion(text)
  BY <1>12, CustomQuestionKeepsDetours
<1>13. CASE Research
  BY <1>13, ResearchKeepsDetours
<1>14. CASE \E id \in FollowUps : FollowUp(id)
  BY <1>14, FollowUpKeepsDetours
<1>15. CASE UNCHANGED vars
  BY <1>15, SameWorkKeepsDetours DEF vars
<1> QED
  BY <1>1, <1>2, <1>3, <1>4, <1>5, <1>6, <1>7, <1>8, <1>9, <1>10, <1>11, <1>12,
     <1>13, <1>14, <1>15 DEF Next

-----------------------------------------------------------------------------
(* A detour comes first.                                                   *)

\* What is in the queue twice stays there when ids and stack do.
LEMMA TwiceKept ==
  ASSUME Len(queue') = Len(queue),
         \A i \in 1..Len(queue) : queue'[i].id = queue[i].id,
         \A id : OnStack(id) => \E j \in 1..Len(deferred') : deferred'[j] = id,
         DeferredTwice
  PROVE  DeferredTwice'
<1>1. PICK i, j \in 1..Len(queue) : i # j /\ queue[i].id = queue[j].id /\ OnStack(queue[i].id)
  BY DEF DeferredTwice
<1>2. /\ i \in 1..Len(queue') /\ j \in 1..Len(queue')
      /\ queue'[i].id = queue[i].id /\ queue'[j].id = queue[j].id
  OBVIOUS
<1>3. \E k \in 1..Len(deferred') : deferred'[k] = queue'[i].id
  BY <1>1, <1>2
<1> QED
  BY <1>1, <1>2, <1>3 DEF DeferredTwice, OnStack

\* The question at hand is the one on top of the stack.
LEMMA TopAtHand ==
  ASSUME state' = "NumberedOptionsHumanRequest", Current' = Peek(deferred)'
  PROVE  DetourAccount'
  BY DEF DetourAccount

LEMMA RevisitKeepsAccount ==
  ASSUME Core, RevisitDeferred
  PROVE  DetourAccount'
<1>1. /\ Asking /\ state' = state /\ InQueue(Peek(deferred))
      /\ queueIndex' = IndexOf(queue, Peek(deferred))
      /\ UNCHANGED <<queue, deferred>>
  BY DEF RevisitDeferred, TopInQueue, workVars
<1>2. queue[queueIndex' + 1].id = Peek(deferred)
  BY <1>1, FirstAt, TypeFacts DEF Core
<1>3. Current' = Peek(deferred)'
  BY <1>1, <1>2 DEF Current, Peek
<1> QED
  BY <1>1, <1>3, TopAtHand DEF Asking

LEMMA GoBackKeepsAccount ==
  ASSUME Core, RecordAndGoBack
  PROVE  DetourAccount'
<1> DEFINE top == Peek(StillDeferred)
<1>1. /\ Answered /\ Record /\ InQueue(top) /\ queueIndex' = IndexOf(queue, top)
      /\ state' = state /\ deferred' = StillDeferred
  BY DEF RecordAndGoBack, GoesBack, TopInQueue
<1>2. /\ Asking /\ \A i \in 1..Len(queue) : queue'[i].id = queue[i].id
  BY <1>1, RecordFacts
<1>3. queueIndex' + 1 \in 1..Len(queue) /\ queue[queueIndex' + 1].id = top
  BY <1>1, FirstAt, TypeFacts DEF Core
<1>4. top = Peek(deferred)'
  BY <1>1 DEF Peek
<1> HIDE DEF top
<1>5. queue'[queueIndex' + 1].id = top
  BY <1>2, <1>3
<1>6. Current' = Peek(deferred)'
  BY <1>4, <1>5 DEF Current
<1> QED
  BY <1>1, <1>2, <1>6, TopAtHand DEF Asking

LEMMA GoOnKeepsAccount ==
  ASSUME Core, Detours, RecordAndGoOn
  PROVE  DetourAccount'
<1> DEFINE top == Peek(StillDeferred)
<1>1. /\ Answered /\ Record /\ ~GoesBack /\ queueIndex' = queueIndex + 1
      /\ deferred' = StillDeferred
      /\ state' = state \/ state' = "IntegrateIntoSpec"
  BY DEF RecordAndGoOn, ToIntegration
<1>2. /\ Asking /\ InDetours /\ deferred' \in Seq(Ids) /\ \A id : OnStack(id)' => OnStack(id)
      /\ \A i \in 1..Len(queue) : queue'[i].id = queue[i].id
  BY <1>1, RecordSettles
<1>3. CASE state' = "IntegrateIntoSpec"
  BY <1>3 DEF DetourAccount, Asking
<1>4. CASE state' = state /\ deferred' = <<>>
  BY <1>2, <1>4 DEF DetourAccount, Asking
<1>5. CASE state' = state /\ deferred' # <<>>
  <2>1. \E j \in 1..Len(deferred') : deferred'[j] = top
    BY <1>1, <1>2, <1>5, TopOnStack
  <2>2. InQueue(top)
    <3>1. OnStack(top)
      BY <1>2, <2>1 DEF OnStack
    <3> QED
      BY <1>2, <3>1, DetourFacts
  <2>3. IndexOf(queue, top) = queueIndex'
    BY <1>1, <1>5, <2>2 DEF GoesBack, TopInQueue
  <2>4. queueIndex' + 1 \in 1..Len(queue) /\ queue[queueIndex' + 1].id = top
    BY <2>2, <2>3, FirstAt, TypeFacts DEF Core
  <2>5. top = Peek(deferred)'
    BY <1>1 DEF Peek
  <2> HIDE DEF top
  <2>6. queue'[queueIndex' + 1].id = top
    BY <1>2, <2>4
  <2>7. Current' = Peek(deferred)'
    BY <2>5, <2>6 DEF Current
  <2> QED
    BY <1>2, <1>5, <2>7, TopAtHand DEF Asking
<1> QED
  BY <1>1, <1>3, <1>4, <1>5

LEMMA RecordTextKeepsAccount ==
  ASSUME Core, Detours, DetourAccount, RecordText
  PROVE  DetourAccount'
<1>1. /\ Answered /\ Record /\ queueIndex' = queueIndex + 1
      /\ state' = "ClassifyCustomPrompt" /\ deferred' = deferred
  BY DEF RecordText
<1>2. /\ Asking /\ ~Exhausted /\ queueIndex + 1 \in 1..Len(queue)
      /\ Len(queue') = Len(queue) /\ \A i \in 1..Len(queue) : queue'[i].id = queue[i].id
      /\ Len(answers') = Len(answers) + 1
      /\ \A i \in 1..Len(answers) : answers'[i] = answers[i]
      /\ Len(answers) \in Nat
  BY <1>1, RecordFacts, TypeFacts DEF Core
<1>3. ClassifiedQuestion' = Current
  BY <1>1, <1>2 DEF ClassifiedQuestion, Current
<1>4. \A id : OnStack(id)' <=> OnStack(id)
  BY <1>1 DEF OnStack
<1>5. OnStack(ClassifiedQuestion)' => OnStack(Current) /\ deferred # <<>>
  BY <1>1, <1>3 DEF OnStack
<1>6. answers # <<>> /\ LastAnswer.text =>
        Len(answers') > 1 /\ answers'[Len(answers') - 1].text
  <2> SUFFICES ASSUME answers # <<>>, LastAnswer.text
               PROVE  Len(answers') > 1 /\ answers'[Len(answers') - 1].text
    OBVIOUS
  <2>1. Len(answers) # 0
    BY TypeFacts DEF Core
  <2>2. Len(answers) \in 1..Len(answers) /\ Len(answers') - 1 = Len(answers) /\ Len(answers') > 1
    BY <1>2, <2>1
  <2> QED
    BY <1>2, <2>2 DEF LastAnswer
<1>7. DeferredTwice => DeferredTwice'
  <2>1. \A id : OnStack(id) => \E j \in 1..Len(deferred') : deferred'[j] = id
    BY <1>1 DEF OnStack
  <2> QED
    BY <1>2, <2>1, TwiceKept
<1>8. OnStack(ClassifiedQuestion)' =>
        \/ ClassifiedQuestion' = Peek(deferred)'
        \/ Len(answers') > 1 /\ answers'[Len(answers') - 1].text
        \/ DeferredTwice'
  BY <1>1, <1>2, <1>3, <1>5, <1>6, <1>7 DEF DetourAccount, Peek
<1> QED
  BY <1>1, <1>8 DEF DetourAccount, Asking

LEMMA CustomAnswerKeepsAccount ==
  ASSUME Core, CustomAnswer
  PROVE  DetourAccount'
<1> DEFINE record == [question |-> ClassifiedQuestion, options |-> LastAnswer.options, text |-> TRUE]
<1>1. /\ state' = "NumberedOptionsHumanRequest" /\ answers' = Append(answers, record)
  BY DEF CustomAnswer
<1>2. answers \in Seq(Answers) /\ Len(answers) \in Nat
  BY TypeFacts DEF Core
<1>3. record.text
  OBVIOUS
<1> HIDE DEF record
<1>4. answers' # <<>> /\ answers'[Len(answers')] = record
  BY <1>1, <1>2
<1>5. answers' # <<>> /\ LastAnswer'.text
  BY <1>3, <1>4 DEF LastAnswer
<1> QED
  BY <1>1, <1>5 DEF DetourAccount

LEMMA CustomQuestionKeepsAccount ==
  ASSUME Core, Detours, DetourAccount, NEW text \in QuestionTexts, CustomQuestion(text)
  PROVE  DetourAccount'
<1> DEFINE id == ClassifiedQuestion
<1>1. /\ state = "ClassifyCustomPrompt" /\ state' = "ExpandQuestionWithClarification"
      /\ queue' = Unanswered(queue, queueIndex)
      /\ answers' = SubSeq(answers, 1, Len(answers) - 1)
      /\ deferred' = Defer(deferred, id)
      /\ pending' = [question |-> id, text |-> text]
  BY DEF CustomQuestion, Unanswered
<1>2. pending'.question = id /\ queueIndex \in 1..Len(queue)
  BY <1>1, ClassifiedFacts
<1>3. CASE OnStack(id)
  <2>1. deferred' = deferred
    BY <1>1, <1>3 DEF Defer, OnStack
  <2>2. \/ id = Peek(deferred)
        \/ Len(answers) > 1 /\ answers[Len(answers) - 1].text
        \/ DeferredTwice
    BY <1>1, <1>3 DEF DetourAccount
  <2> HIDE DEF id
  <2>3. CASE id = Peek(deferred)
    BY <1>1, <1>2, <2>1, <2>3 DEF DetourAccount, Asking, Peek
  <2>4. CASE Len(answers) > 1 /\ answers[Len(answers) - 1].text
    <3> DEFINE n == Len(answers)
    <3>1. answers \in Seq(Answers) /\ n \in Nat /\ answers # <<>>
      BY <1>1, TypeFacts DEF Core, IndexInQueue
    <3>2. /\ answers' \in Seq(Answers) /\ Len(answers') = n - 1
          /\ \A i \in 1..(n - 1) : answers'[i] = answers[i]
      BY <1>1, <3>1, FrontFacts
    <3>3. n > 1
      BY <2>4
    <3> HIDE DEF n
    <3>4. n - 1 \in 1..(n - 1) /\ n - 1 # 0
      BY <3>1, <3>3
    <3>5. answers' # <<>> /\ answers'[Len(answers')] = answers[n - 1]
      BY <3>2, <3>4
    <3>6. answers' # <<>> /\ LastAnswer'.text
      BY <2>4, <3>5 DEF LastAnswer, n
    <3> QED
      BY <1>1, <3>6 DEF DetourAccount, Asking
  <2>5. CASE DeferredTwice
    <3>1. Len(queue') = Len(queue) /\ \A i \in 1..Len(queue) : queue'[i].id = queue[i].id
      BY <1>1, <1>2, UnansweredFacts, TypeFacts DEF Core
    <3>2. \A other : OnStack(other) => \E j \in 1..Len(deferred') : deferred'[j] = other
      BY <2>1 DEF OnStack
    <3>3. DeferredTwice'
      BY <2>5, <3>1, <3>2, TwiceKept
    <3> QED
      BY <1>1, <3>3 DEF DetourAccount, Asking
  <2> QED
    BY <2>2, <2>3, <2>4, <2>5
<1>4. CASE ~OnStack(id)
  <2>1. deferred' = Append(deferred, id)
    BY <1>1, <1>4 DEF Defer, OnStack
  <2>2. deferred \in Seq(Ids) /\ id \in Ids
    BY <1>1, ClassifiedFacts, TypeFacts DEF Core
  <2> HIDE DEF id
  <2>3. deferred'[Len(deferred')] = id
    BY <2>1, <2>2
  <2> QED
    BY <1>1, <1>2, <2>3 DEF DetourAccount, Asking, Peek
<1> QED
  BY <1>3, <1>4

LEMMA ResearchKeepsAccount ==
  ASSUME Core, Detours, DetourAccount, Research
  PROVE  DetourAccount'
<1> DEFINE id == pending.question
<1>1. /\ state = "ExpandQuestionWithClarification" /\ state' = "NumberedOptionsHumanRequest"
      /\ queueIndex' = ResumeIndex(id)
      /\ UNCHANGED <<queue, answers, deferred>>
  BY DEF Research
<1>2. OnStack(id) /\ InQueue(id) /\ deferred # <<>>
  <2>1. OnStack(id)
    BY <1>1 DEF Detours, StackInQueue, InDetours
  <2>2. InQueue(id)
    BY <1>1, <2>1, DetourFacts DEF InDetours
  <2> QED
    BY <2>1, <2>2 DEF OnStack
<1>3. \/ id = Peek(deferred)
      \/ answers # <<>> /\ LastAnswer.text
      \/ DeferredTwice
  BY <1>1 DEF DetourAccount
<1> HIDE DEF id
<1>4. CASE id = Peek(deferred)
  <2>1. queueIndex' = IndexOf(queue, id)
    BY <1>1, <1>2, <1>4 DEF ResumeIndex
  <2>2. queue[queueIndex' + 1].id = id
    BY <1>2, <2>1, FirstAt, TypeFacts DEF Core
  <2>3. Current' = Peek(deferred)'
    BY <1>1, <1>4, <2>2 DEF Current, Peek
  <2> QED
    BY <1>1, <2>3, TopAtHand
<1>5. CASE answers # <<>> /\ LastAnswer.text
  <2>1. answers' # <<>> /\ LastAnswer'.text
    BY <1>1, <1>5 DEF LastAnswer
  <2> QED
    BY <1>1, <2>1 DEF DetourAccount
<1>6. CASE DeferredTwice
  <2>1. DeferredTwice'
    BY <1>1, <1>6 DEF DeferredTwice, OnStack
  <2> QED
    BY <1>1, <2>1 DEF DetourAccount
<1> QED
  BY <1>3, <1>4, <1>5, <1>6

LEMMA FollowUpKeepsAccount ==
  ASSUME Core, Detours, DetourAccount, NEW id \in FollowUps, FollowUp(id)
  PROVE  DetourAccount'
<1> DEFINE p == queueIndex
           n == Len(queue)
           at(i) == IF i <= p THEN i ELSE i + 1
<1>1. /\ state = "ExpandQuestionWithClarification" /\ state' = "NumberedOptionsHumanRequest"
      /\ askedBy' = [askedBy EXCEPT ![id] = pending.question]
      /\ UNCHANGED <<queueIndex, answers, deferred>>
  BY DEF FollowUp
<1>2. /\ p \in 1..n /\ n \in Nat /\ p \in Nat /\ Len(queue') = n + 1
      /\ \A i \in 1..p : queue'[i] = queue[i]
      /\ queue'[p + 1] = [id |-> id, answered |-> FALSE]
      /\ \A i \in (p + 1)..n : queue'[i + 1] = queue[i]
  BY FollowUpFacts, TypeFacts DEF Core
<1>3. \A i \in 1..n : at(i) \in 1..Len(queue') /\ at(i) # p + 1 /\ queue'[at(i)] = queue[i]
  <2> SUFFICES ASSUME NEW i \in 1..n
               PROVE  at(i) \in 1..Len(queue') /\ at(i) # p + 1 /\ queue'[at(i)] = queue[i]
    OBVIOUS
  <2>1. CASE i <= p
    BY <1>2, <2>1
  <2>2. CASE ~(i <= p)
    <3>1. at(i) = i + 1 /\ i \in (p + 1)..n /\ i + 1 \in 1..(n + 1) /\ i + 1 # p + 1
      BY <1>2, <2>2
    <3> QED
      BY <1>2, <3>1
  <2> QED
    BY <2>1, <2>2
<1>4. \A i, j \in 1..n : i # j => at(i) # at(j)
  BY <1>2
<1> HIDE DEF at
<1>5. \A other : OnStack(other)' <=> OnStack(other)
  BY <1>1 DEF OnStack
<1>6. DeferredTwice => DeferredTwice'
  <2> SUFFICES ASSUME NEW i \in 1..n, NEW j \in 1..n, i # j, queue[i].id = queue[j].id,
                      OnStack(queue[i].id)
               PROVE  DeferredTwice'
    BY DEF DeferredTwice
  <2>1. /\ at(i) \in 1..Len(queue') /\ at(j) \in 1..Len(queue') /\ at(i) # at(j)
        /\ queue'[at(i)] = queue[i] /\ queue'[at(j)] = queue[j]
    BY <1>3, <1>4
  <2>2. \E k \in 1..Len(deferred') : deferred'[k] = queue'[at(i)].id
    BY <1>1, <2>1 DEF OnStack
  <2> QED
    BY <2>1, <2>2 DEF DeferredTwice, OnStack
<1>7. OnStack(id) => DeferredTwice'
  <2> SUFFICES ASSUME OnStack(id) PROVE DeferredTwice'
    OBVIOUS
  <2>1. InQueue(id)
    BY <1>1, DetourFacts DEF InDetours
  <2>2. PICK i \in 1..n : queue[i].id = id
    BY <2>1 DEF InQueue
  <2>3. /\ at(i) \in 1..Len(queue') /\ at(i) # p + 1 /\ queue'[at(i)].id = id
        /\ p + 1 \in 1..Len(queue') /\ queue'[p + 1].id = id
    BY <1>2, <1>3, <2>2
  <2>4. \E k \in 1..Len(deferred') : deferred'[k] = queue'[at(i)].id
    BY <1>1, <2>3 DEF OnStack
  <2> QED
    BY <2>3, <2>4 DEF DeferredTwice, OnStack
<1>8. Current' = id
  BY <1>1, <1>2 DEF Current
<1>9. OnStack(Current)' => OnStack(id)
  BY <1>1, <1>8 DEF OnStack
<1>10. \/ pending.question = Peek(deferred)
       \/ answers # <<>> /\ LastAnswer.text
       \/ DeferredTwice
  BY <1>1 DEF DetourAccount
<1>11. CASE pending.question = Peek(deferred)
  <2>1. askedBy'[id] = Peek(deferred)'
    BY <1>1, <1>11 DEF Core, TypeOK, Peek
  <2>2. /\ Current' \in FollowUps /\ askedBy'[Current'] = Peek(deferred)'
        /\ OnStack(Current)' => DeferredTwice'
    BY <1>7, <1>8, <1>9, <2>1
  <2> QED
    BY <1>1, <2>2 DEF DetourAccount
<1>12. CASE answers # <<>> /\ LastAnswer.text
  <2>1. answers' # <<>> /\ LastAnswer'.text
    BY <1>1, <1>12 DEF LastAnswer
  <2> QED
    BY <1>1, <2>1 DEF DetourAccount
<1>13. CASE DeferredTwice
  BY <1>1, <1>6, <1>13 DEF DetourAccount
<1> QED
  BY <1>10, <1>11, <1>12, <1>13

LEMMA SameWorkKeepsAccount ==
  ASSUME DetourAccount, UNCHANGED <<state, queue, queueIndex, answers, deferred, pending, askedBy>>
  PROVE  DetourAccount'
<1>1. \A id : OnStack(id)' <=> OnStack(id)
  BY DEF OnStack
<1>2. DeferredTwice' <=> DeferredTwice
  BY DEF DeferredTwice, OnStack
<1>3. /\ Current' = Current /\ Peek(deferred)' = Peek(deferred) /\ LastAnswer' = LastAnswer
      /\ ClassifiedQuestion' = ClassifiedQuestion
      /\ Asking' <=> Asking
      /\ Exhausted' <=> Exhausted
  BY DEF Current, Peek, LastAnswer, ClassifiedQuestion, Asking, Exhausted
<1>4. /\ OnStack(Current)' <=> OnStack(Current)
      /\ OnStack(ClassifiedQuestion)' <=> OnStack(ClassifiedQuestion)
  BY DEF OnStack, Current, ClassifiedQuestion
<1> QED
  BY <1>2, <1>3, <1>4 DEF DetourAccount

\* No question is at hand, and no detour has begun.
LEMMA NoDetourNow ==
  ASSUME \/ state' \notin {"NumberedOptionsHumanRequest", "ClassifyCustomPrompt",
                           "ExpandQuestionWithClarification"}
         \/ state' = "NumberedOptionsHumanRequest" /\ deferred' = <<>>
  PROVE  DetourAccount'
  BY DEF DetourAccount, Asking

LEMMA NextKeepsAccount ==
  ASSUME Core, Detours, DetourAccount, [Next]_vars
  PROVE  DetourAccount'
<1>1. CASE Start \/ Integrate \/ CheckActs \/ LeaveExhausted \/ RecordConfirmation
  BY <1>1, NoDetourNow
  DEF Start, Integrate, CheckActs, LeaveExhausted, RecordConfirmation, ToIntegration
<1>2. CASE DelegationFails \/ Finish
  BY <1>2, NoDetourNow DEF DelegationFails, Finish
<1>3. CASE \E ids \in SortedLists, withItems \in BOOLEAN : CheckAsks(ids, withItems)
  <2>1. state' = "NumberedOptionsHumanRequest" /\ deferred' = <<>>
    BY <1>3 DEF CheckAsks, Detours, StackInQueue, InDetours, Ended, workVars
  <2> QED
    BY <2>1, NoDetourNow
<1>4. CASE RevisitDeferred
  BY <1>4, RevisitKeepsAccount
<1>5. CASE Ask
  BY <1>5, SameWorkKeepsAccount DEF Ask, workVars
<1>6. CASE \E key \in DOMAIN feedback, response \in Responses : Respond(key, response)
  BY <1>6, SameWorkKeepsAccount DEF Respond, workVars
<1>7. CASE RecordText \/ RecordAndGoBack \/ RecordAndGoOn
  BY <1>7, RecordTextKeepsAccount, GoBackKeepsAccount, GoOnKeepsAccount
<1>8. CASE CustomAnswer
  BY <1>8, CustomAnswerKeepsAccount
<1>9. CASE \E text \in QuestionTexts : CustomQuestion(text)
  BY <1>9, CustomQuestionKeepsAccount
<1>10. CASE Research
  BY <1>10, ResearchKeepsAccount
<1>11. CASE \E id \in FollowUps : FollowUp(id)
  BY <1>11, FollowUpKeepsAccount
<1>12. CASE UNCHANGED vars
  BY <1>12, SameWorkKeepsAccount DEF vars
<1> QED
  BY <1>1, <1>2, <1>3, <1>4, <1>5, <1>6, <1>7, <1>8, <1>9, <1>10, <1>11, <1>12 DEF Next

\* What a model has returned stays returned.
LEMMA ReservedStays ==
  ASSUME [Next]_vars, reserved
  PROVE  reserved'
<1>1. CASE Start \/ Integrate \/ CheckActs \/ DelegationFails \/ Finish
  BY <1>1 DEF Start, Integrate, CheckActs, DelegationFails, Finish
<1>2. CASE \E ids \in SortedLists, withItems \in BOOLEAN : CheckAsks(ids, withItems)
  BY <1>2 DEF CheckAsks
<1>3. CASE RevisitDeferred \/ LeaveExhausted \/ Ask
  BY <1>3 DEF RevisitDeferred, LeaveExhausted, Ask
<1>4. CASE \E key \in DOMAIN feedback, response \in Responses : Respond(key, response)
  BY <1>4 DEF Respond
<1>5. CASE RecordText \/ RecordAndGoBack \/ RecordConfirmation \/ RecordAndGoOn
  BY <1>5 DEF RecordText, RecordAndGoBack, RecordConfirmation, RecordAndGoOn, Record
<1>6. CASE CustomAnswer \/ Research
  BY <1>6 DEF CustomAnswer, Research
<1>7. CASE \E text \in QuestionTexts : CustomQuestion(text)
  BY <1>7 DEF CustomQuestion
<1>8. CASE \E id \in FollowUps : FollowUp(id)
  BY <1>8 DEF FollowUp
<1>9. CASE UNCHANGED vars
  BY <1>9 DEF vars
<1> QED
  BY <1>1, <1>2, <1>3, <1>4, <1>5, <1>6, <1>7, <1>8, <1>9 DEF Next

LEMMA InvariantKept ==
  /\ Init => IInv
  /\ IInv /\ [Next]_vars => IInv'
<1>1. Init => DetourAccount
  BY DEF Init, DetourAccount, Asking
<1>2. Init => IInv
  BY <1>1, InitCore, InitDetours, InvariantParts
<1>3. Core /\ [Next]_vars => Core'
  BY NextKeepsCore
<1>4. Core /\ Detours /\ DetourAccount /\ [Next]_vars /\ ~reserved' => Detours' /\ DetourAccount'
  BY NextKeepsDetours, NextKeepsAccount
<1>5. [Next]_vars /\ ~reserved' => ~reserved
  BY ReservedStays
<1>6. IInv' <=> Core' /\ (~reserved' => Detours' /\ DetourAccount')
  BY DEF IInv, Core, Detours
<1> QED
  BY <1>2, <1>3, <1>4, <1>5, <1>6, InvariantParts

-----------------------------------------------------------------------------
(* What every specification document run keeps to.                         *)

\* The variables keep their types, whatever the questions and the bounds are.
THEOREM TypeCorrect == Spec => []TypeOK
<1>1. Core => TypeOK
  BY DEF Core
<1> QED
  BY <1>1, InitCore, NextKeepsCore, PTL DEF Spec

\* No option or text is ever recorded as the answer to a question that the
\* human did not give to that question, through all detours.
THEOREM HumansAnswer == Spec => []AnswersAreTheHumans
<1>1. Core => AnswersAreTheHumans
  BY DEF Core, AnswersGiven, AnswersAreTheHumans
<1> QED
  BY <1>1, InitCore, NextKeepsCore, PTL DEF Spec

\* The action items of the latest check are in the input of the integration
\* that follows it; or a model has returned the id of the completion question,
\* and they are still stashed.
THEOREM ItemsCarried == Spec => ItemsReachTheSpec
<1>1. Core /\ [Next]_vars =>
        [Integrate /\ found => CarriedItems = checks \/ (reserved /\ stash = checks)]_vars
  BY DEF Core, ItemsKept, Integrate
<1> QED
  BY <1>1, InitCore, NextKeepsCore, PTL DEF Spec, ItemsReachTheSpec

\* Answers that an integration leaves out have given way to the action items
\* of an earlier check.
THEOREM LossExplained == Spec => LostOnlyToStaleItems
<1>1. ASSUME Core, Integrate, Len(answers) > passed
      PROVE  CarriesAnswers \/ (CarriedItems # 0 /\ CarriedItems < checks)
  <2>1. state = "IntegrateIntoSpec" /\ Len(answers) \in Nat /\ passed \in Nat
    BY <1>1, TypeFacts DEF Core, TypeOK, Integrate
  <2>2. CASE source = "consistency-action-items"
    BY <1>1, <2>1, <2>2 DEF Core, ItemsKept, CarriedItems, ResolvedSource
  <2>3. CASE source = "consistency-action-items-with-feedback"
    BY <2>3 DEF CarriesAnswers, ResolvedSource
  <2>4. CASE source = "unset"
    <3>1. answers # <<>>
      BY <1>1, <2>1
    <3> QED
      BY <2>4, <3>1 DEF CarriesAnswers, ResolvedSource
  <2> QED
    BY <1>1, <2>2, <2>3, <2>4 DEF Core, TypeOK
<1>2. Core /\ [Next]_vars =>
        [Integrate /\ Len(answers) > passed =>
           \/ CarriesAnswers
           \/ CarriedItems # 0 /\ CarriedItems < checks]_vars
  BY <1>1
<1> QED
  BY <1>2, InitCore, NextKeepsCore, PTL DEF Spec, LostOnlyToStaleItems

\* As long as no model has returned the id of the completion question, no
\* question of the queue is passed over: what is behind the index is answered or
\* waits on the stack, and the queue is left only when all of it is answered.
THEOREM QueueIsExhausted == Spec => []NothingSkipped
<1>1. IInv => NothingSkipped
  BY DEF IInv, NothingSkipped
<1> QED
  BY <1>1, InvariantKept, PTL DEF Spec

\* The human is asked the deferred question on top of the stack or a follow-up
\* of it; when not, the last answer was a free text, a deferred question is in
\* the queue twice, or a model has returned the id of the completion question.
THEOREM DetoursComeFirst == Spec => DetourFirst
<1>1. IInv /\ [Next]_vars =>
        [Ask /\ deferred # <<>> =>
           \/ Current = Peek(deferred)
           \/ Current \in FollowUps /\ askedBy[Current] = Peek(deferred)
           \/ answers # <<>> /\ LastAnswer.text
           \/ DeferredTwice
           \/ reserved]_vars
  BY DEF IInv, DetourAccount, Ask
<1> QED
  BY <1>1, InvariantKept, PTL DEF Spec, DetourFirst
=============================================================================
