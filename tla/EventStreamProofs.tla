-------------------------- MODULE EventStreamProofs --------------------------
(***************************************************************************)
(* Proofs about EventStream, for any number of writers, any page and batch *)
(* limits and any number of events, lost connections and reloads.          *)
(***************************************************************************)
EXTENDS EventStream, RankLemmas

LEMMA Limits ==
  /\ PageLimit \in Nat \ {0} /\ BatchLimit \in Nat \ {0}
  /\ MaxEvents \in Nat /\ MaxDrops \in Nat /\ MaxReloads \in Nat
  /\ Sequences_ \subseteq Nat
  BY LimitAssumption DEF Sequences_

-----------------------------------------------------------------------------
(* Sets of sequences, their greatest element, and their enumeration.       *)

LEMMA NumbersFinite ==
  ASSUME NEW n \in Nat, NEW S \in SUBSET (1..n)
  PROVE  IsFiniteSet(S) /\ S \in SUBSET Nat
<1>1. 1 \in Int /\ n \in Int
  OBVIOUS
<1>2. IsFiniteSet(1..n)
  BY <1>1, FS_Interval
<1>3. IsFiniteSet(S)
  BY <1>2, FS_Subset
<1>4. S \in SUBSET Nat
  BY SMT
<1> QED
  BY <1>3, <1>4

LEMMA TopFacts ==
  ASSUME NEW n \in Nat, NEW S \in SUBSET (1..n)
  PROVE  /\ Top(S) \in 0..n
         /\ \A s \in S : s <= Top(S)
         /\ S # {} => Top(S) \in S
<1>1. CASE S = {}
  BY <1>1 DEF Top
<1>2. CASE S # {}
  <2>1. \E s \in S : \A t \in S : t <= s
    BY <1>2, NumbersFinite, GreatestExists
  <2>2. Top(S) = CHOOSE s \in S : \A t \in S : t <= s
    BY <1>2 DEF Top
  <2>3. Top(S) \in S /\ \A t \in S : t <= Top(S)
    BY <2>1, <2>2, Zenon
  <2> DEFINE top == Top(S)
  <2>4. top \in S /\ \A t \in S : t <= top
    BY <2>3
  <2> HIDE DEF top
  <2>5. top \in 0..n
    BY <2>4
  <2> QED
    BY <2>4, <2>5 DEF top
<1> QED
  BY <1>1, <1>2

LEMMA TopOfPrefix ==
  ASSUME NEW n \in Nat
  PROVE  Top(1..n) = n
<1>1. Top(1..n) \in 0..n /\ \A s \in 1..n : s <= Top(1..n)
  BY TopFacts
<1> QED
  BY <1>1

\* Ascending enumerates its set, each element once.
LEMMA AscendingFacts ==
  ASSUME NEW n \in Nat, NEW S \in SUBSET (1..n)
  PROVE  /\ Ascending(S) \in Seq(S)
         /\ Len(Ascending(S)) = Cardinality(S)
         /\ ToSet(Ascending(S)) = S
<1> DEFINE at(i) == CHOOSE s \in S : Cardinality({t \in S : t < s}) = i - 1
<1>1. IsFiniteSet(S) /\ S \in SUBSET Nat /\ Cardinality(S) \in Nat
  BY NumbersFinite, FS_CardinalityType
<1>2. ASSUME NEW i \in 1..Cardinality(S)
      PROVE  at(i) \in S /\ Cardinality({t \in S : t < at(i)}) = i - 1
  <2>1. i - 1 \in Nat /\ i - 1 < Cardinality(S)
    BY <1>1
  <2>2. \E s \in S : Cardinality({t \in S : t < s}) = i - 1
    BY <1>1, <2>1, RankExists
  <2> QED
    BY <2>2
<1>3. Ascending(S) = [i \in 1..Cardinality(S) |-> at(i)]
  BY DEF Ascending
<1>4. ASSUME NEW s \in S
      PROVE  \E i \in 1..Cardinality(S) : at(i) = s
  <2> DEFINE i == Cardinality({t \in S : t < s}) + 1
  <2>1. i \in 1..Cardinality(S) /\ Cardinality({t \in S : t < s}) = i - 1
    BY <1>1, BelowSmaller
  <2>2. at(i) \in S /\ Cardinality({t \in S : t < at(i)}) = i - 1
    BY <1>2, <2>1
  <2> HIDE DEF i
  <2>3. at(i) = s
    BY <1>1, <2>1, <2>2, RankUnique
  <2> QED
    BY <2>1, <2>3
<1> HIDE DEF at
<1> DEFINE c == Cardinality(S)
<1>5. Ascending(S) \in Seq(S) /\ Len(Ascending(S)) = Cardinality(S)
  <2>1. Ascending(S) \in [1..c -> S]
    BY <1>2, <1>3
  <2>2. c \in Nat
    BY <1>1
  <2> HIDE DEF c
  <2>3. Ascending(S) \in Seq(S) /\ Len(Ascending(S)) = c
    BY <2>1, <2>2
  <2> QED
    BY <2>3 DEF c
<1>6. DOMAIN Ascending(S) = 1..Cardinality(S)
  BY <1>3
<1>7. ToSet(Ascending(S)) = S
  <2>1. ToSet(Ascending(S)) = {Ascending(S)[i] : i \in 1..Cardinality(S)}
    BY <1>6 DEF ToSet
  <2>2. \A i \in 1..Cardinality(S) : Ascending(S)[i] = at(i)
    BY <1>3
  <2>3. ToSet(Ascending(S)) = {at(i) : i \in 1..Cardinality(S)}
    BY <2>1, <2>2
  <2>4. \A i \in 1..Cardinality(S) : at(i) \in S
    BY <1>2
  <2>5. \A s \in S : \E i \in 1..Cardinality(S) : s = at(i)
    BY <1>4
  <2> QED
    BY <2>3, <2>4, <2>5
<1> QED
  BY <1>5, <1>7

LEMMA AscendingInterval ==
  ASSUME NEW a \in Nat, NEW b \in Nat, a <= b
  PROVE  Ascending((a + 1)..b) = [i \in 1..(b - a) |-> a + i]
<1> DEFINE S == (a + 1)..b
<1>1. Cardinality(S) = b - a /\ S \in SUBSET Nat
  <2>1. a + 1 \in Int /\ b \in Int
    OBVIOUS
  <2>2. Cardinality(S) = IF a + 1 > b THEN 0 ELSE b - (a + 1) + 1
    BY <2>1, FS_Interval
  <2> QED
    BY <2>2
<1>2. ASSUME NEW s \in S
      PROVE  Cardinality({t \in S : t < s}) = (s - a) - 1
  <2>1. {t \in S : t < s} = (a + 1)..(s - 1)
    OBVIOUS
  <2>2. Cardinality((a + 1)..(s - 1)) = (s - a) - 1
    BY FS_Interval
  <2> QED
    BY <2>1, <2>2
<1>3. ASSUME NEW i \in 1..(b - a)
      PROVE  (CHOOSE s \in S : Cardinality({t \in S : t < s}) = i - 1) = a + i
  <2>1. a + i \in S
    OBVIOUS
  <2>2. Cardinality({t \in S : t < a + i}) = i - 1
    BY <1>2, <2>1
  <2>3. \A s \in S : Cardinality({t \in S : t < s}) = i - 1 => s = a + i
    BY <1>2
  <2> HIDE DEF S
  <2> QED
    BY <2>1, <2>2, <2>3
<1> HIDE DEF S
<1>4. Ascending(S) = [i \in 1..(b - a) |->
                        CHOOSE s \in S : Cardinality({t \in S : t < s}) = i - 1]
  BY <1>1 DEF Ascending
<1>5. Ascending(S) = [i \in 1..(b - a) |-> a + i]
  BY <1>3, <1>4
<1> QED
  BY <1>5 DEF S

\* The rows behind a boundary are the sequences that follow it.
LEMMA RowsFacts ==
  ASSUME events \in Seq(Kinds), NEW b \in 0..Len(events), NEW limit \in Nat \ {0}
  PROVE  \E n \in 0..(Len(events) - b) :
           /\ RowsBehind(b, limit) = [i \in 1..n |-> b + i]
           /\ n <= limit
           /\ n = 0 => b = Len(events)
           /\ n < limit => b + n = Len(events)
<1> DEFINE all == Len(events) - b
           n == IF all > limit THEN limit ELSE all
           rows == [i \in 1..all |-> b + i]
<1>1. DOMAIN events = 1..Len(events) /\ Len(events) \in Nat
  OBVIOUS
<1>2. {s \in DOMAIN events : s > b} = (b + 1)..Len(events)
  BY <1>1
<1>3. Ascending({s \in DOMAIN events : s > b}) = rows
  <2>1. b \in Nat /\ b <= Len(events)
    BY <1>1
  <2>2. Ascending((b + 1)..Len(events)) = rows
    BY <1>1, <2>1, AscendingInterval
  <2> QED
    BY <1>2, <2>2
<1>4. rows \in Seq(Nat) /\ Len(rows) = all /\ all \in Nat
  BY <1>1
<1>5. RowsBehind(b, limit) = IF all > limit THEN SubSeq(rows, 1, limit) ELSE rows
  BY <1>3, <1>4 DEF RowsBehind
<1>6. all > limit => SubSeq(rows, 1, limit) = [i \in 1..limit |-> b + i]
  BY <1>4
<1>7. n \in 0..(Len(events) - b) /\ n <= limit /\ (n = 0 => b = Len(events))
      /\ (n < limit => b + n = Len(events))
  <2> DEFINE length == Len(events)
  <2>1. length \in Nat /\ b \in 0..length /\ all = length - b
    BY <1>1
  <2> HIDE DEF length
  <2>2. all \in Nat /\ limit \in Nat \ {0}
    BY <1>4
  <2>3. n \in 0..(length - b)
    BY <2>1, <2>2
  <2>4. n <= limit /\ (n = 0 => b = length) /\ (n < limit => b + n = length)
    BY <2>1, <2>2
  <2> QED
    BY <2>3, <2>4 DEF length
<1>8. RowsBehind(b, limit) = [i \in 1..n |-> b + i]
  <2>1. CASE all > limit
    BY <1>5, <1>6, <2>1
  <2>2. CASE ~(all > limit)
    BY <1>5, <2>2
  <2> QED
    BY <2>1, <2>2
<1> QED
  BY <1>7, <1>8

-----------------------------------------------------------------------------
(* What a step relies on.                                                  *)

LEMMA EventFacts ==
  ASSUME NumbersInOrder
  PROVE  /\ Len(events) \in Nat /\ Len(events) <= MaxEvents /\ Len(events) \in 0..MaxEvents
         /\ DOMAIN events = 1..Len(events)
         /\ \A s \in 1..Len(events) : events[s] \in Kinds
         /\ Range(events) = {events[s] : s \in 1..Len(events)}
<1>1. Len(events) \in Nat /\ DOMAIN events = 1..Len(events) /\ Len(events) <= MaxEvents
  BY DEF NumbersInOrder
<1>2. \A s \in 1..Len(events) : events[s] \in Kinds
  BY DEF NumbersInOrder
<1> QED
  BY <1>1, <1>2, Limits DEF Range

\* What an open transaction has appended follows the committed events.
LEMMA OpenFacts ==
  ASSUME NumbersInOrder, NEW w \in Writers
  PROVE  \E last \in Len(events)..MaxEvents :
           /\ open[w] \in [(Len(events) + 1)..last -> Kinds]
           /\ DOMAIN open[w] = (Len(events) + 1)..last
  BY DEF NumbersInOrder

\* Committed events stay as they are and more may follow.
EventsGrow ==
  /\ Len(events) <= Len(events')
  /\ Len(events') \in Nat
  /\ \A s \in 1..Len(events) : events'[s] = events[s]

LEMMA EmptyRows ==
  ASSUME NEW n \in Nat
  PROVE  <<>> \in [(n + 1)..n -> Kinds]
<1>1. (n + 1)..n = {}
  OBVIOUS
<1>2. <<>> = [s \in {} |-> "log"]
  OBVIOUS
<1> QED
  BY <1>1, <1>2

LEMMA AppendKeepsNumbers ==
  ASSUME NumbersInOrder, NEW w \in Writers, NEW kind \in Kinds, AppendEvent(w, kind)
  PROVE  NumbersInOrder'
<1> DEFINE n == Len(events)
<1>1. PICK last \in n..MaxEvents :
        open[w] \in [(n + 1)..last -> Kinds] /\ DOMAIN open[w] = (n + 1)..last
  BY OpenFacts
<1>2. n \in Nat /\ DOMAIN events = 1..n /\ last \in Nat /\ MaxEvents \in Nat
  BY <1>1, EventFacts, Limits
<1>3. DOMAIN events \cup DOMAIN open[w] = 1..last
  <2> HIDE DEF n
  <2> QED
    BY <1>1, <1>2
<1>4. Top(1..last) = last
  BY <1>2, TopOfPrefix
<1>5. last + 1 <= MaxEvents /\ RowFree(w)
      /\ open' = [open EXCEPT ![w] = Joined(open[w], [s \in {last + 1} |-> kind])]
      /\ events' = events
  BY <1>3, <1>4 DEF AppendEvent, eventVars
<1> DEFINE more == Joined(open[w], [s \in {last + 1} |-> kind])
<1>6. more \in [(n + 1)..(last + 1) -> Kinds]
  <2>1. (n + 1)..last \cup {last + 1} = (n + 1)..(last + 1)
    <3> HIDE DEF n
    <3> QED
      BY <1>1, <1>2
  <2>2. more = [s \in (n + 1)..(last + 1) |->
                  IF s \in (n + 1)..last THEN open[w][s] ELSE kind]
    BY <1>1, <2>1 DEF Joined
  <2> QED
    BY <1>1, <2>2
<1>7. last + 1 \in n..MaxEvents
  <2> HIDE DEF n
  <2> QED
    BY <1>1, <1>2, <1>5
<1> DEFINE Rows == UNION {[(n + 1)..l -> Kinds] : l \in n..MaxEvents}
<1>8. more \in Rows
  BY <1>6, <1>7
<1>9. open \in [Writers -> Rows]
  BY DEF NumbersInOrder
<1> HIDE DEF more, Rows
<1>10. open' \in [Writers -> Rows]
  BY <1>5, <1>8, <1>9 DEF more
<1>11. \A v \in Writers \ {w} : open[v] = <<>> /\ open'[v] = <<>>
  BY <1>5, <1>9 DEF RowFree
<1>12. \A v \in Writers : open'[v] # <<>> => RowFree(v)'
  BY <1>11 DEF RowFree
<1>13. events' \in Seq(Kinds) /\ Len(events') <= MaxEvents
  BY <1>5 DEF NumbersInOrder
<1> QED
  BY <1>5, <1>10, <1>12, <1>13 DEF NumbersInOrder, Rows

LEMMA EndKeepsNumbers ==
  ASSUME NumbersInOrder, NEW w \in Writers, NEW commits \in BOOLEAN,
         EndTransaction(w, commits)
  PROVE  NumbersInOrder' /\ EventsGrow
<1> DEFINE n == Len(events)
           Rows(k) == UNION {[(k + 1)..l -> Kinds] : l \in k..MaxEvents}
<1>1. PICK last \in n..MaxEvents :
        open[w] \in [(n + 1)..last -> Kinds] /\ DOMAIN open[w] = (n + 1)..last
  BY OpenFacts
<1>2. n \in Nat /\ n <= MaxEvents /\ DOMAIN events = 1..n /\ last \in Nat /\ MaxEvents \in Nat
      /\ \A s \in 1..n : events[s] \in Kinds
  BY <1>1, EventFacts, Limits
<1>3. open \in [Writers -> Rows(n)] /\ RowFree(w) /\ open' = [open EXCEPT ![w] = <<>>]
  BY DEF NumbersInOrder, EndTransaction
<1>4. \A v \in Writers : open'[v] = <<>>
  BY <1>3 DEF RowFree
<1>5. \A k \in 0..MaxEvents : <<>> \in Rows(k)
  <2> TAKE k \in 0..MaxEvents
  <2>1. k \in k..MaxEvents /\ k \in Nat
    BY <1>2
  <2> QED
    BY <2>1, EmptyRows
<1>6. ASSUME NEW k \in 0..MaxEvents
      PROVE  open' \in [Writers -> Rows(k)]
  <2>1. open' = [v \in Writers |-> open'[v]]
    BY <1>3
  <2> HIDE DEF Rows
  <2> QED
    BY <1>4, <1>5, <2>1
<1>7. \A v \in Writers : open'[v] # <<>> => RowFree(v)'
  BY <1>4
<1>8. CASE ~commits
  <2>1. events' = events
    BY <1>8 DEF EndTransaction
  <2>2. open' \in [Writers -> Rows(n)]
    <3>1. n \in 0..MaxEvents
      BY <1>2
    <3> HIDE DEF n, Rows
    <3> QED
      BY <1>6, <3>1
  <2>3. events \in Seq(Kinds) /\ n <= MaxEvents
    BY DEF NumbersInOrder
  <2> QED
    BY <1>2, <1>7, <2>1, <2>2, <2>3 DEF NumbersInOrder, EventsGrow
<1>9. CASE commits
  <2> DEFINE all == Joined(events, open[w])
  <2>1. events' = all
    BY <1>9 DEF EndTransaction
  <2>2. 1..n \cup (n + 1)..last = 1..last
    <3> HIDE DEF n
    <3> QED
      BY <1>1, <1>2
  <2>3. all = [s \in 1..last |-> IF s \in 1..n THEN events[s] ELSE open[w][s]]
    BY <1>1, <1>2, <2>2 DEF Joined
  <2>4. \A s \in 1..last : s \in 1..n \/ s \in (n + 1)..last
    BY <2>2
  <2>5. all \in [1..last -> Kinds]
    BY <1>1, <1>2, <2>3, <2>4
  <2>6. \A s \in 1..n : s \in 1..last /\ all[s] = events[s]
    BY <2>2, <2>3
  <2> HIDE DEF all, Rows
  <2>7. all \in Seq(Kinds) /\ Len(all) = last
    BY <1>2, <2>5
  <2>8. n <= last /\ last \in 0..MaxEvents
    BY <1>1, <1>2
  <2>9. open' \in [Writers -> Rows(last)]
    BY <1>6, <2>8
  <2> QED
    BY <1>2, <1>7, <2>1, <2>6, <2>7, <2>8, <2>9 DEF NumbersInOrder, EventsGrow, Rows
<1> QED
  BY <1>8, <1>9

-----------------------------------------------------------------------------
(* The connections and what the CLI prints.                                *)

StreamTypes ==
  /\ stream \in [Followers -> [up : BOOLEAN, boundary : 0..MaxEvents, frames : Seq(Sequences_)]]
  /\ cursor \in [Followers -> 0..MaxEvents]
  /\ printed \in Seq(Sequences_)

\* One connection, whoever follows it.
ConnectionInOrder(f) ==
  /\ cursor[f] <= Len(events)
  /\ ~stream[f].up => stream[f] = Closed
  /\ stream[f].up =>
       /\ stream[f].boundary <= Len(events)
       /\ cursor[f] <= Taken_(f)
       /\ \A i \in 1..Len(stream[f].frames) : stream[f].frames[i] = Taken_(f) + i

LEMMA ConnectionFacts ==
  ASSUME StreamTypes, NEW f \in Followers
  PROVE  /\ stream[f].up \in BOOLEAN
         /\ stream[f].boundary \in Nat /\ stream[f].boundary <= MaxEvents
         /\ stream[f].frames \in Seq(Sequences_) /\ Len(stream[f].frames) \in Nat
         /\ cursor[f] \in 0..MaxEvents /\ cursor[f] \in Nat
         /\ Taken_(f) \in Int
  BY Limits DEF StreamTypes, Taken_

\* A connection that a step does not touch stays in order.
LEMMA ConnectionKept ==
  ASSUME StreamTypes, NEW f \in Followers, ConnectionInOrder(f),
         Len(events) \in Nat, EventsGrow, stream'[f] = stream[f], cursor'[f] = cursor[f]
  PROVE  ConnectionInOrder(f)'
<1>1. cursor[f] \in Nat /\ stream[f].boundary \in Nat
  BY ConnectionFacts
<1> QED
  BY <1>1 DEF ConnectionInOrder, EventsGrow, Taken_

\* The frame a follower takes next is the one after those it has taken.
LEMMA TakeFrame ==
  ASSUME StreamTypes, NEW f \in Followers, ConnectionInOrder(f), NumbersInOrder,
         stream[f].frames # <<>>, stream' = Taken(f), events' = events,
         cursor'[f] \in {cursor[f], Head(stream[f].frames)}
  PROVE  /\ stream[f].up /\ stream'[f].up
         /\ Head(stream[f].frames) = Taken_(f) + 1
         /\ Taken_(f)' = Taken_(f) + 1
         /\ Taken_(f) + 1 <= Len(events)
         /\ Head(stream[f].frames) \in Sequences_
         /\ stream'[f].frames \in Seq(Sequences_)
         /\ ConnectionInOrder(f)'
<1> DEFINE fr == stream[f].frames
           n == Len(fr)
<1>1. fr \in Seq(Sequences_) /\ n \in Nat /\ stream[f].boundary \in Nat /\ cursor[f] \in Nat
      /\ Len(events) \in Nat
  BY ConnectionFacts, EventFacts
<1>2. stream[f].up
  BY DEF ConnectionInOrder, Closed
<1>3. stream[f].boundary <= Len(events) /\ cursor[f] <= Taken_(f)
      /\ (\A i \in 1..n : fr[i] = Taken_(f) + i)
  BY <1>2 DEF ConnectionInOrder
<1>4. Taken_(f) = stream[f].boundary - n
  BY DEF Taken_
<1>5. /\ n >= 1 /\ Head(fr) = fr[1] /\ Head(fr) \in Sequences_ /\ Tail(fr) \in Seq(Sequences_)
      /\ Len(Tail(fr)) = n - 1
      /\ \A i \in 1..(n - 1) : Tail(fr)[i] = fr[i + 1]
  <2> HIDE DEF fr
  <2>1. fr \in Seq(Sequences_) /\ fr # <<>> /\ n = Len(fr)
    BY <1>1 DEF fr
  <2> HIDE DEF n
  <2> QED
    BY <2>1
<1>6. /\ stream'[f].frames = Tail(fr) /\ stream'[f].boundary = stream[f].boundary
      /\ stream'[f].up = stream[f].up
  BY DEF StreamTypes, Taken
<1> DEFINE b == stream[f].boundary
           c == cursor[f]
<1> HIDE DEF fr, n, b, c
<1>7. b \in Nat /\ c \in Nat /\ Taken_(f) = b - n /\ c <= b - n /\ b <= Len(events)
      /\ (\A i \in 1..n : fr[i] = b - n + i)
  BY <1>1, <1>3, <1>4 DEF b, c
<1>8. Head(fr) = b - n + 1 /\ b - n + 1 <= Len(events)
  BY <1>1, <1>5, <1>7
<1>9. Taken_(f)' = b - (n - 1)
  BY <1>5, <1>6 DEF Taken_, b
<1>10. Taken_(f)' = b - n + 1
  BY <1>1, <1>7, <1>9
<1>11. \A i \in 1..Len(Tail(fr)) : Tail(fr)[i] = Taken_(f)' + i
  BY <1>1, <1>5, <1>7, <1>10
<1>12. cursor'[f] <= b - n + 1 /\ cursor'[f] <= Len(events)
  BY <1>1, <1>7, <1>8 DEF fr, c
<1>13. ConnectionInOrder(f)'
  BY <1>2, <1>6, <1>7, <1>10, <1>11, <1>12 DEF ConnectionInOrder, b
<1> QED
  BY <1>2, <1>5, <1>6, <1>7, <1>8, <1>10, <1>13 DEF fr

\* A batch continues where the connection was.
LEMMA PollInOrder ==
  ASSUME StreamTypes, NEW f \in Followers, ConnectionInOrder(f), NumbersInOrder, Poll(f)
  PROVE  /\ ConnectionInOrder(f)'
         /\ Taken_(f)' = Taken_(f)
         /\ stream[f].up /\ stream'[f].up
         /\ stream'[f].frames \in Seq(Sequences_) /\ stream'[f].boundary \in 0..MaxEvents
<1> DEFINE b == stream[f].boundary
           fr == stream[f].frames
           rows == RowsBehind(b, BatchLimit)
           n == Len(fr)
<1>1. fr \in Seq(Sequences_) /\ n \in Nat /\ b \in Nat
      /\ Len(events) \in Nat /\ Len(events) <= MaxEvents /\ MaxEvents \in Nat
  BY ConnectionFacts, EventFacts, Limits
<1>2. stream[f].up /\ rows # <<>>
      /\ stream' = [stream EXCEPT ![f].frames = fr \o rows, ![f].boundary = Last(rows)]
      /\ cursor' = cursor /\ events' = events
  BY DEF Poll, eventVars
<1>3. b <= Len(events) /\ cursor[f] <= Taken_(f)
      /\ (\A i \in 1..n : fr[i] = Taken_(f) + i)
  BY <1>2 DEF ConnectionInOrder
<1>4. PICK k \in 0..(Len(events) - b) : rows = [i \in 1..k |-> b + i]
  <2>1. b \in 0..Len(events) /\ BatchLimit \in Nat \ {0} /\ events \in Seq(Kinds)
    BY <1>1, <1>3, Limits DEF NumbersInOrder
  <2> QED
    BY <2>1, RowsFacts
<1> HIDE DEF b, fr, rows
<1>5. k \in Nat /\ k # 0 /\ b + k <= Len(events)
  <2>1. k \in Nat /\ b + k <= Len(events)
    BY <1>1, <1>4
  <2>2. k # 0
    BY <1>2, <1>4
  <2> QED
    BY <2>1, <2>2
<1>6. rows \in Seq(Sequences_) /\ Len(rows) = k /\ Last(rows) = b + k
      /\ (\A i \in 1..k : rows[i] = b + i)
  <2>1. \A i \in 1..k : b + i \in Sequences_
    BY <1>1, <1>5 DEF Sequences_
  <2>2. rows \in [1..k -> Sequences_]
    BY <1>4, <2>1
  <2>3. rows \in Seq(Sequences_) /\ Len(rows) = k
    BY <1>5, <2>2
  <2>4. Last(rows) = rows[k]
    BY <2>3 DEF Last
  <2> QED
    BY <1>4, <1>5, <2>3, <2>4
<1>7. stream'[f].frames = fr \o rows /\ stream'[f].boundary = b + k
      /\ stream'[f].up = stream[f].up
  BY <1>2, <1>6 DEF StreamTypes
<1>8. Taken_(f) = b - n
  BY DEF Taken_, b, fr
<1> HIDE DEF n
<1>9. /\ fr \o rows \in Seq(Sequences_)
      /\ Len(fr \o rows) = n + k
      /\ \A i \in 1..(n + k) : (fr \o rows)[i] = IF i <= n THEN fr[i] ELSE rows[i - n]
  BY <1>1, <1>5, <1>6 DEF n
<1>10. Taken_(f)' = (b + k) - (n + k)
  BY <1>7, <1>9 DEF Taken_
<1>11. Taken_(f)' = b - n
  BY <1>1, <1>5, <1>10
<1>12. ASSUME NEW i \in 1..(n + k)
       PROVE  (fr \o rows)[i] = b - n + i
  <2>1. CASE i <= n
    <3>1. i \in 1..n
      BY <1>1, <1>5, <2>1
    <3> QED
      BY <1>3, <1>8, <1>9, <2>1, <3>1
  <2>2. CASE ~(i <= n)
    <3>1. i - n \in 1..k
      BY <1>1, <1>5, <2>2
    <3>2. rows[i - n] = b + (i - n)
      BY <1>6, <3>1
    <3> QED
      BY <1>1, <1>9, <2>2, <3>2
  <2> QED
    BY <2>1, <2>2
<1>13. cursor[f] <= Len(events)
  BY DEF ConnectionInOrder
<1>14. ConnectionInOrder(f)'
  BY <1>2, <1>3, <1>5, <1>7, <1>8, <1>9, <1>11, <1>12, <1>13 DEF ConnectionInOrder
<1>15. b + k \in 0..MaxEvents
  BY <1>1, <1>5
<1> QED
  BY <1>2, <1>7, <1>8, <1>9, <1>11, <1>14, <1>15

\* A connection starts at the follower's cursor, with nothing in flight.
LEMMA OpenedInOrder ==
  ASSUME NumbersInOrder, NEW from \in 0..MaxEvents, from <= Len(events)
  PROVE  /\ Opened(from) \in [up : BOOLEAN, boundary : 0..MaxEvents, frames : Seq(Sequences_)]
         /\ Opened(from).up /\ Opened(from).boundary = from /\ Opened(from).frames = <<>>
         /\ Closed \in [up : BOOLEAN, boundary : 0..MaxEvents, frames : Seq(Sequences_)]
         /\ ~Closed.up
<1>1. <<>> \in Seq(Sequences_)
  OBVIOUS
<1>2. 0 \in 0..MaxEvents
  BY Limits
<1> QED
  BY <1>1, <1>2 DEF Opened, Closed

-----------------------------------------------------------------------------
(* The deliveries of both followers and the lines of the CLI.              *)

DeliveryInv ==
  /\ StreamTypes
  /\ \A f \in Followers : ConnectionInOrder(f)
  /\ PrintsInOrder

\* A step that touches no connection.
LEMMA DeliveryKept ==
  ASSUME DeliveryInv, NumbersInOrder, EventsGrow, stream' = stream, cursor' = cursor,
         printed' = printed
  PROVE  DeliveryInv'
<1>1. \A f \in Followers : ConnectionInOrder(f)'
  BY EventFacts, ConnectionKept DEF DeliveryInv
<1>2. StreamTypes' /\ PrintsInOrder'
  BY DEF DeliveryInv, StreamTypes, PrintsInOrder, FollowedOnce, Taken_
<1> QED
  BY <1>1, <1>2 DEF DeliveryInv

LEMMA SameEvents ==
  ASSUME NumbersInOrder, events' = events
  PROVE  EventsGrow
  BY EventFacts DEF EventsGrow

LEMMA ConnectDelivers ==
  ASSUME DeliveryInv, NumbersInOrder, NEW f \in Followers, Connect(f)
  PROVE  DeliveryInv' /\ Taken_(f)' = cursor[f]
<1>1. /\ ~stream[f].up /\ stream' = [stream EXCEPT ![f] = Opened(cursor[f])]
      /\ cursor' = cursor /\ printed' = printed /\ events' = events
  BY DEF Connect, eventVars
<1>2. cursor[f] \in 0..MaxEvents /\ cursor[f] <= Len(events) /\ StreamTypes
  BY ConnectionFacts DEF DeliveryInv, ConnectionInOrder
<1>3. stream'[f] = Opened(cursor[f]) /\ (\A g \in Followers \ {f} : stream'[g] = stream[g])
  BY <1>1, <1>2 DEF StreamTypes
<1>4. /\ stream'[f].up /\ stream'[f].boundary = cursor[f] /\ stream'[f].frames = <<>>
      /\ Opened(cursor[f]) \in [up : BOOLEAN, boundary : 0..MaxEvents, frames : Seq(Sequences_)]
  BY <1>2, <1>3, OpenedInOrder
<1>5. StreamTypes'
  BY <1>1, <1>2, <1>4 DEF StreamTypes
<1>6. Taken_(f)' = cursor[f]
  <2>1. Taken_(f)' = cursor[f] - 0
    BY <1>4 DEF Taken_
  <2> QED
    BY <1>2, <2>1
<1>7. ConnectionInOrder(f)'
  BY <1>1, <1>2, <1>4, <1>6 DEF ConnectionInOrder
<1>8. \A g \in Followers \ {f} : ConnectionInOrder(g)'
  BY <1>1, <1>2, <1>3, EventFacts, SameEvents, ConnectionKept DEF DeliveryInv
<1>9. PrintsInOrder'
  <2>1. FollowedOnce' /\ cursor'["cli"] = Len(printed')
    BY <1>1 DEF DeliveryInv, PrintsInOrder, FollowedOnce
  <2>2. CASE f = "cli"
    BY <1>1, <1>6, <2>1, <2>2 DEF PrintsInOrder
  <2>3. CASE f # "cli"
    <3>1. stream'["cli"] = stream["cli"]
      BY <1>3, <2>3 DEF Followers
    <3> QED
      BY <1>1, <2>1, <3>1 DEF DeliveryInv, PrintsInOrder, Taken_
  <2> QED
    BY <2>2, <2>3
<1> QED
  BY <1>5, <1>6, <1>7, <1>8, <1>9 DEF DeliveryInv

LEMMA PollDelivers ==
  ASSUME DeliveryInv, NumbersInOrder, NEW f \in Followers, Poll(f)
  PROVE  DeliveryInv' /\ Taken_(f)' = Taken_(f) /\ stream[f].up
<1>1. StreamTypes /\ ConnectionInOrder(f)
  BY DEF DeliveryInv
<1>2. /\ ConnectionInOrder(f)' /\ Taken_(f)' = Taken_(f) /\ stream[f].up /\ stream'[f].up
      /\ stream'[f].frames \in Seq(Sequences_) /\ stream'[f].boundary \in 0..MaxEvents
  BY <1>1, PollInOrder
<1>3. /\ cursor' = cursor /\ printed' = printed /\ events' = events
      /\ \A g \in Followers \ {f} : stream'[g] = stream[g]
  BY <1>1 DEF Poll, eventVars, StreamTypes
<1>4. StreamTypes'
  <2> DEFINE rows == RowsBehind(stream[f].boundary, BatchLimit)
             fr == stream[f].frames \o rows
             b == Last(rows)
  <2>1. stream' = [stream EXCEPT ![f].frames = fr, ![f].boundary = b]
    BY DEF Poll
  <2> HIDE DEF fr, b
  <2>2. fr \in Seq(Sequences_) /\ b \in 0..MaxEvents
    BY <1>1, <1>2, <2>1 DEF StreamTypes
  <2> QED
    BY <1>1, <1>3, <2>1, <2>2 DEF StreamTypes
<1>5. \A g \in Followers \ {f} : ConnectionInOrder(g)'
  BY <1>1, <1>3, EventFacts, SameEvents, ConnectionKept DEF DeliveryInv
<1>6. PrintsInOrder'
  <2>1. FollowedOnce' /\ cursor'["cli"] = Len(printed')
    BY <1>3 DEF DeliveryInv, PrintsInOrder, FollowedOnce
  <2>2. CASE f = "cli"
    BY <1>2, <1>3, <2>1, <2>2 DEF DeliveryInv, PrintsInOrder
  <2>3. CASE f # "cli"
    <3>1. stream'["cli"] = stream["cli"]
      BY <1>3, <2>3 DEF Followers
    <3> QED
      BY <1>3, <2>1, <3>1 DEF DeliveryInv, PrintsInOrder, Taken_
  <2> QED
    BY <2>2, <2>3
<1> QED
  BY <1>2, <1>4, <1>5, <1>6 DEF DeliveryInv

LEMMA ClosedInOrder ==
  ASSUME NumbersInOrder, NEW f \in Followers, events' = events,
         stream'[f] = Closed, cursor'[f] <= Len(events)
  PROVE  ConnectionInOrder(f)'
  BY DEF ConnectionInOrder, Closed

\* A step that leaves a connection closed, whatever it makes of its cursor.
LEMMA ClosingDelivers ==
  ASSUME DeliveryInv, NumbersInOrder, NEW f \in Followers, events' = events,
         printed' = printed,
         NEW c \in 0..MaxEvents, c <= Len(events), f = "cli" => c = cursor[f],
         stream' = [stream EXCEPT ![f] = Closed], cursor' = [cursor EXCEPT ![f] = c]
  PROVE  DeliveryInv' /\ stream'[f] = Closed /\ cursor'[f] = c
<1>1. StreamTypes
  BY DEF DeliveryInv
<1>2. stream'[f] = Closed /\ cursor'[f] = c
      /\ (\A g \in Followers \ {f} : stream'[g] = stream[g] /\ cursor'[g] = cursor[g])
  BY <1>1 DEF StreamTypes
<1>3. ConnectionInOrder(f)'
  BY <1>2, ClosedInOrder
<1>4. \A g \in Followers \ {f} : ConnectionInOrder(g)'
  BY <1>1, <1>2, EventFacts, SameEvents, ConnectionKept DEF DeliveryInv
<1>5. StreamTypes'
  <2>1. Closed \in [up : BOOLEAN, boundary : 0..MaxEvents, frames : Seq(Sequences_)]
    <3>1. 0 \in 0..MaxEvents /\ <<>> \in Seq(Sequences_)
      BY Limits
    <3> QED
      BY <3>1 DEF Closed
  <2> QED
    BY <1>1, <2>1 DEF StreamTypes
<1>6. PrintsInOrder'
  <2>1. cursor'["cli"] = cursor["cli"]
    BY <1>2 DEF Followers
  <2>2. FollowedOnce' /\ cursor'["cli"] = Len(printed')
    BY <2>1 DEF DeliveryInv, PrintsInOrder, FollowedOnce
  <2>3. CASE f = "cli"
    BY <1>2, <2>2, <2>3 DEF PrintsInOrder, Closed
  <2>4. CASE f # "cli"
    <3>1. stream'["cli"] = stream["cli"]
      BY <1>2, <2>4 DEF Followers
    <3> QED
      BY <2>2, <3>1 DEF DeliveryInv, PrintsInOrder, Taken_
  <2> QED
    BY <2>3, <2>4
<1> QED
  BY <1>2, <1>3, <1>4, <1>5, <1>6 DEF DeliveryInv

LEMMA DropDelivers ==
  ASSUME DeliveryInv, NumbersInOrder, NEW f \in Followers, Drop(f)
  PROVE  DeliveryInv' /\ stream'[f] = Closed
<1>1. /\ stream' = [stream EXCEPT ![f] = Closed]
      /\ cursor' = cursor /\ printed' = printed /\ events' = events
  BY DEF Drop, eventVars
<1>2. cursor[f] \in 0..MaxEvents /\ cursor[f] <= Len(events)
  BY ConnectionFacts DEF DeliveryInv, ConnectionInOrder
<1>3. cursor' = [cursor EXCEPT ![f] = cursor[f]]
  BY <1>1 DEF DeliveryInv, StreamTypes
<1> QED
  BY <1>1, <1>2, <1>3, ClosingDelivers

LEMMA WriteLineDelivers ==
  ASSUME DeliveryInv, NumbersInOrder, WriteLine
  PROVE  DeliveryInv'
<1> DEFINE line == Head(stream["cli"].frames)
           n == Len(printed)
<1>1. /\ "cli" \in Followers /\ StreamTypes /\ ConnectionInOrder("cli")
      /\ stream["cli"].frames # <<>> /\ stream' = Taken("cli")
      /\ cursor' = [cursor EXCEPT !["cli"] = line]
      /\ printed' = Append(printed, line) /\ events' = events
  BY DEF DeliveryInv, WriteLine, eventVars, Followers
<1>2. cursor'["cli"] = line
      /\ (\A g \in Followers \ {"cli"} : cursor'[g] = cursor[g] /\ stream'[g] = stream[g])
  BY <1>1 DEF StreamTypes, Taken
<1>3. /\ stream["cli"].up /\ stream'["cli"].up
      /\ line = Taken_("cli") + 1 /\ Taken_("cli")' = Taken_("cli") + 1
      /\ line \in Sequences_ /\ stream'["cli"].frames \in Seq(Sequences_)
      /\ ConnectionInOrder("cli")'
  BY <1>1, <1>2, TakeFrame
<1>4. Taken_("cli") = n /\ n \in Nat /\ printed \in Seq(Sequences_)
      /\ printed = [i \in 1..n |-> i]
  BY <1>1, <1>3 DEF DeliveryInv, PrintsInOrder, FollowedOnce, StreamTypes
<1> HIDE DEF line, n
<1>5. line = n + 1
  BY <1>3, <1>4
<1>6. /\ Len(printed') = n + 1 /\ printed' \in Seq(Sequences_)
      /\ printed' = [i \in 1..(n + 1) |-> i]
  <2>1. Len(printed) = n
    BY DEF n
  <2>2. printed' \in Seq(Sequences_) /\ Len(printed') = n + 1
    BY <1>1, <1>3, <1>4, <2>1
  <2>3. \A i \in 1..(n + 1) : printed'[i] = i
    BY <1>1, <1>3, <1>4, <1>5, <2>1
  <2>4. DOMAIN printed' = 1..(n + 1)
    BY <1>4, <2>2
  <2>5. printed' = [i \in DOMAIN printed' |-> printed'[i]]
    BY <2>2
  <2> QED
    BY <2>2, <2>3, <2>4, <2>5
<1>7. PrintsInOrder'
  BY <1>2, <1>3, <1>4, <1>5, <1>6 DEF PrintsInOrder, FollowedOnce
<1>8. StreamTypes'
  <2>1. cursor' \in [Followers -> 0..MaxEvents]
    <3>1. line \in 0..MaxEvents
      BY <1>3, Limits DEF Sequences_
    <3> QED
      BY <1>1, <3>1 DEF StreamTypes
  <2>2. stream' \in [Followers -> [up : BOOLEAN, boundary : 0..MaxEvents, frames : Seq(Sequences_)]]
    <3> DEFINE rest == Tail(stream["cli"].frames)
    <3>1. stream' = [stream EXCEPT !["cli"].frames = rest]
      BY <1>1 DEF Taken
    <3>2. stream'["cli"].frames = rest
      BY <1>1, <3>1 DEF StreamTypes
    <3> HIDE DEF rest
    <3> QED
      BY <1>1, <1>3, <3>1, <3>2 DEF StreamTypes
  <2> QED
    BY <1>6, <2>1, <2>2 DEF StreamTypes
<1>9. \A g \in Followers \ {"cli"} : ConnectionInOrder(g)'
  BY <1>1, <1>2, EventFacts, SameEvents, ConnectionKept DEF DeliveryInv
<1> QED
  BY <1>3, <1>7, <1>8, <1>9 DEF DeliveryInv

LEMMA ApplyFrameDelivers ==
  ASSUME DeliveryInv, NumbersInOrder, ApplyFrame
  PROVE  /\ DeliveryInv'
         /\ stream["dashboard"].up /\ stream'["dashboard"].up
         /\ Head(stream["dashboard"].frames) = Taken_("dashboard") + 1
         /\ Taken_("dashboard")' = Taken_("dashboard") + 1
         /\ Taken_("dashboard") + 1 <= Len(events)
         /\ Head(stream["dashboard"].frames) \in Sequences_
         /\ cursor'["dashboard"] \in
              {cursor["dashboard"],
               IF Accepts(Head(stream["dashboard"].frames))
               THEN Head(stream["dashboard"].frames) ELSE cursor["dashboard"]}
<1> DEFINE frame == Head(stream["dashboard"].frames)
<1>1. /\ "dashboard" \in Followers /\ StreamTypes /\ ConnectionInOrder("dashboard")
      /\ stream["dashboard"].frames # <<>> /\ stream' = Taken("dashboard")
      /\ printed' = printed /\ events' = events
  BY DEF DeliveryInv, ApplyFrame, eventVars, Followers
<1>2. \E c \in {cursor["dashboard"], IF Accepts(frame) THEN frame ELSE cursor["dashboard"]} :
        cursor' = [cursor EXCEPT !["dashboard"] = c]
  <2>1. CASE Accepts(frame)
    <3>1. PICK follows \in BOOLEAN :
            cursor' = [cursor EXCEPT !["dashboard"] = IF follows THEN frame ELSE @]
      BY <2>1 DEF ApplyFrame
    <3> QED
      BY <2>1, <3>1
  <2>2. CASE ~Accepts(frame)
    <3>1. cursor' = cursor
      BY <2>2 DEF ApplyFrame
    <3>2. cursor' = [cursor EXCEPT !["dashboard"] = cursor["dashboard"]]
      BY <1>1, <3>1 DEF StreamTypes
    <3> QED
      BY <3>2
  <2> QED
    BY <2>1, <2>2
<1>3. PICK c \in {cursor["dashboard"], IF Accepts(frame) THEN frame ELSE cursor["dashboard"]} :
        cursor' = [cursor EXCEPT !["dashboard"] = c]
  BY <1>2
<1>4. cursor'["dashboard"] = c /\ c \in {cursor["dashboard"], frame}
      /\ (\A g \in Followers \ {"dashboard"} : cursor'[g] = cursor[g] /\ stream'[g] = stream[g])
  BY <1>1, <1>3 DEF StreamTypes, Taken
<1>5. /\ stream["dashboard"].up /\ stream'["dashboard"].up
      /\ frame = Taken_("dashboard") + 1 /\ Taken_("dashboard")' = Taken_("dashboard") + 1
      /\ Taken_("dashboard") + 1 <= Len(events)
      /\ frame \in Sequences_ /\ stream'["dashboard"].frames \in Seq(Sequences_)
      /\ ConnectionInOrder("dashboard")'
  BY <1>1, <1>4, TakeFrame
<1> HIDE DEF frame
<1>6. StreamTypes'
  <2>1. cursor' \in [Followers -> 0..MaxEvents]
    <3>1. c \in 0..MaxEvents
      BY <1>1, <1>4, <1>5, Limits DEF Sequences_, StreamTypes
    <3> QED
      BY <1>1, <1>3, <3>1 DEF StreamTypes
  <2>2. stream' \in [Followers -> [up : BOOLEAN, boundary : 0..MaxEvents, frames : Seq(Sequences_)]]
    <3> DEFINE rest == Tail(stream["dashboard"].frames)
    <3>1. stream' = [stream EXCEPT !["dashboard"].frames = rest]
      BY <1>1 DEF Taken
    <3>2. stream'["dashboard"].frames = rest
      BY <1>1, <3>1 DEF StreamTypes
    <3> HIDE DEF rest
    <3> QED
      BY <1>1, <1>5, <3>1, <3>2 DEF StreamTypes
  <2> QED
    BY <1>1, <2>1, <2>2 DEF StreamTypes
<1>7. \A g \in Followers \ {"dashboard"} : ConnectionInOrder(g)'
  BY <1>1, <1>4, EventFacts, SameEvents, ConnectionKept DEF DeliveryInv
<1>8. PrintsInOrder'
  <2>1. cursor'["cli"] = cursor["cli"] /\ stream'["cli"] = stream["cli"]
    BY <1>4 DEF Followers
  <2> QED
    BY <1>1, <2>1 DEF DeliveryInv, PrintsInOrder, FollowedOnce, Taken_
<1>9. cursor'["dashboard"] \in {cursor["dashboard"], IF Accepts(frame) THEN frame ELSE cursor["dashboard"]}
  BY <1>4
<1> QED
  BY <1>5, <1>6, <1>7, <1>8, <1>9 DEF DeliveryInv, frame

-----------------------------------------------------------------------------
(* The panels of the dashboard and the board that starts from them.        *)

PanelRecord(given) ==
  given \in [summary : Summaries, events : SUBSET Sequences_,
             next : 0..MaxEvents, logs : SUBSET Sequences_]

BoardTypes ==
  board \in [timeline : Seq(Sequences_), watermark : 0..MaxEvents, summary : Summaries]

PanelInv == PanelRecord(panels) /\ PanelsFit(panels)

\* The tops of what the panels cover.
LEMMA PanelTops ==
  ASSUME NumbersInOrder, NEW given, PanelsFit(given)
  PROVE  \E top \in 0..Len(events) :
           /\ given.events = 1..top /\ Top(given.events) = top
           /\ given.next \in {0, top}
           /\ Top(given.logs) \in 0..Len(events)
           /\ Top(given.events \cup given.logs) \in top..Len(events)
           /\ \/ Top(given.events \cup given.logs) <= top
              \/ Top(given.events \cup given.logs) <= Top(given.logs)
<1>1. Len(events) \in Nat
  BY EventFacts
<1>2. PICK top \in 0..Len(events) : given.events = 1..top /\ given.next \in {0, top}
  BY DEF PanelsFit
<1>3. given.logs \in SUBSET (1..Len(events))
  BY DEF PanelsFit
<1> DEFINE n == Len(events)
           both == given.events \cup given.logs
<1>4. both \in SUBSET (1..n)
  BY <1>1, <1>2, <1>3
<1>5. Top(given.events) = top
  BY <1>2, TopOfPrefix
<1>6. Top(given.logs) \in 0..n /\ (\A s \in given.logs : s <= Top(given.logs))
  BY <1>1, <1>3, TopFacts
<1>7. Top(both) \in 0..n /\ (\A s \in both : s <= Top(both)) /\ (both # {} => Top(both) \in both)
  BY <1>1, <1>4, TopFacts
<1> DEFINE b == Top(both)
<1>8. top \in 1..top \/ top = 0
  BY <1>2
<1>9. b >= top
  <2>1. CASE top = 0
    BY <1>7, <2>1
  <2>2. CASE top \in 1..top
    <3>1. top \in both
      BY <1>2, <2>2
    <3> QED
      BY <1>7, <3>1
  <2> QED
    BY <1>8, <2>1, <2>2
<1>10. b <= top \/ b <= Top(given.logs)
  <2>1. CASE both = {}
    <3>1. b = 0
      BY <2>1 DEF Top
    <3> QED
      BY <1>2, <3>1
  <2>2. CASE b \in given.events
    BY <1>2, <2>2
  <2>3. CASE b \in given.logs
    BY <1>6, <2>3
  <2> QED
    BY <1>7, <2>1, <2>2, <2>3
<1> HIDE DEF b, both
<1>11. b \in top..n
  BY <1>1, <1>2, <1>7, <1>9 DEF b
<1> QED
  BY <1>2, <1>5, <1>6, <1>10, <1>11 DEF b, both

LEMMA EmptyFits ==
  ASSUME NumbersInOrder
  PROVE  PanelRecord(NoPanels) /\ PanelsFit(NoPanels)
<1>1. {} = 1..0 /\ 0 \in 0..Len(events) /\ 0 \in 0..MaxEvents /\ 0 \in 0..(2 * MaxEvents)
  BY EventFacts, Limits
<1>2. NoSummary \in Summaries
  BY <1>1 DEF NoSummary, Summaries
<1>3. PanelRecord(NoPanels)
  BY <1>1, <1>2 DEF PanelRecord, NoPanels
<1>4. PanelsFit(NoPanels)
  <2>1. NoPanels.events = 1..0 /\ NoPanels.next = 0 /\ NoPanels.logs = {}
        /\ NoPanels.summary = NoSummary /\ NoSummary.count = 0
    BY <1>1 DEF NoPanels, NoSummary
  <2>2. 0 <= Len(events)
    BY EventFacts
  <2> QED
    BY <1>1, <2>1, <2>2 DEF PanelsFit
<1> QED
  BY <1>3, <1>4

LEMMA EmptiedFits ==
  ASSUME NumbersInOrder, PanelInv, NEW panel \in {"summary", "events", "logs"}
  PROVE  PanelRecord(Emptied(panel)) /\ PanelsFit(Emptied(panel))
<1>1. {} = 1..0 /\ 0 \in 0..Len(events) /\ 0 \in 0..MaxEvents /\ 0 \in 0..(2 * MaxEvents)
      /\ 0 <= Len(events)
  BY EventFacts, Limits
<1>2. NoSummary \in Summaries
  BY <1>1 DEF NoSummary, Summaries
<1>3. CASE panel = "summary"
  <2>1. Emptied(panel) = [panels EXCEPT !.summary = NoSummary]
    BY <1>3 DEF Emptied
  <2> QED
    BY <1>1, <1>2, <2>1 DEF PanelInv, PanelRecord, PanelsFit, NoSummary
<1>4. CASE panel = "events"
  <2>1. Emptied(panel) = [panels EXCEPT !.events = {}, !.next = 0]
    BY <1>4 DEF Emptied
  <2> QED
    BY <1>1, <2>1 DEF PanelInv, PanelRecord, PanelsFit
<1>5. CASE panel = "logs"
  <2>1. Emptied(panel) = [panels EXCEPT !.logs = {}]
    BY <1>5 DEF Emptied
  <2> QED
    BY <1>1, <2>1 DEF PanelInv, PanelRecord, PanelsFit
<1> QED
  BY <1>3, <1>4, <1>5

\* A page is the first sequences, and its cursor the last of them or none.
LEMMA PageFacts ==
  ASSUME NumbersInOrder
  PROVE  \E top \in 0..Len(events) :
           PageItems = 1..top /\ PageNext \in {0, top}
<1>1. 0 \in 0..Len(events) /\ PageLimit \in Nat \ {0} /\ events \in Seq(Kinds)
      /\ Len(events) \in Nat
  BY EventFacts, Limits DEF NumbersInOrder
<1>2. PICK n \in 0..(Len(events) - 0) : RowsBehind(0, PageLimit) = [i \in 1..n |-> 0 + i]
  BY <1>1, RowsFacts
<1>3. n \in 0..Len(events) /\ n \in Nat
  BY <1>1, <1>2
<1>4. PageItems = 1..n
  <2>1. RowsBehind(0, PageLimit) = [i \in 1..n |-> i]
    BY <1>2, <1>3
  <2>2. PageItems = {[i \in 1..n |-> i][j] : j \in 1..n}
    BY <2>1 DEF PageItems, ToSet
  <2> QED
    BY <2>2
<1>5. PageNext \in {0, n}
  BY <1>3, <1>4, TopOfPrefix DEF PageNext
<1> QED
  BY <1>3, <1>4, <1>5

-----------------------------------------------------------------------------
(* The lifecycle that a set of events sets.                                *)

\* It is that of one of the events, or the other one where none sets any.
LEMMA LastFacts ==
  ASSUME NEW n \in Nat, NEW rows, NEW S \in SUBSET (1..n), NEW other
  PROVE  \/ LastLifecycle(rows, S, other) = other
         \/ /\ LastLifecycle(rows, S, other) \in LifecycleKinds
            /\ \E s \in S : rows[s] = LastLifecycle(rows, S, other)
<1> DEFINE marks == {s \in S : rows[s] \in LifecycleKinds}
<1>1. LastLifecycle(rows, S, other) = IF marks = {} THEN other ELSE rows[Top(marks)]
  BY DEF LastLifecycle
<1>2. CASE marks = {}
  BY <1>1, <1>2
<1>3. CASE marks # {}
  <2>1. Top(marks) \in marks
    BY <1>3, TopFacts
  <2> QED
    BY <1>1, <1>3, <2>1
<1> QED
  BY <1>2, <1>3

LEMMA LastOfNone ==
  ASSUME NEW rows, NEW other
  PROVE  LastLifecycle(rows, {}, other) = other
  BY DEF LastLifecycle

\* One event more: its own lifecycle, if it sets one.
LEMMA LastAdds ==
  ASSUME NEW rows, NEW a \in Nat, NEW b \in Nat, a <= b, NEW other
  PROVE  LastLifecycle(rows, (a + 1)..(b + 1), other) =
           IF rows[b + 1] \in LifecycleKinds THEN rows[b + 1]
           ELSE LastLifecycle(rows, (a + 1)..b, other)
<1> DEFINE old == {s \in (a + 1)..b : rows[s] \in LifecycleKinds}
           new == {s \in (a + 1)..(b + 1) : rows[s] \in LifecycleKinds}
<1>1. (a + 1)..(b + 1) = (a + 1)..b \cup {b + 1}
  OBVIOUS
<1>2. LastLifecycle(rows, (a + 1)..b, other) = IF old = {} THEN other ELSE rows[Top(old)]
  BY DEF LastLifecycle
<1>3. LastLifecycle(rows, (a + 1)..(b + 1), other) = IF new = {} THEN other ELSE rows[Top(new)]
  BY DEF LastLifecycle
<1>4. CASE rows[b + 1] \notin LifecycleKinds
  <2>1. new = old
    BY <1>1, <1>4
  <2> QED
    BY <1>2, <1>3, <1>4, <2>1
<1>5. CASE rows[b + 1] \in LifecycleKinds
  <2>1. b + 1 \in new
    BY <1>1, <1>5
  <2>2. new \in SUBSET (1..(b + 1))
    OBVIOUS
  <2>3. b + 1 \in Nat
    OBVIOUS
  <2> HIDE DEF new
  <2>4. Top(new) \in 0..(b + 1) /\ \A s \in new : s <= Top(new)
    BY <2>2, <2>3, TopFacts
  <2>5. Top(new) = b + 1
    BY <2>1, <2>4
  <2> QED
    BY <1>3, <1>5, <2>1, <2>5
<1> QED
  BY <1>4, <1>5

\* What is committed later does not change it.
LEMMA LastKept ==
  ASSUME EventsGrow, NEW S \in SUBSET (1..Len(events)), Len(events) \in Nat, NEW other
  PROVE  LastLifecycle(events', S, other) = LastLifecycle(events, S, other)
<1> DEFINE old == {s \in S : events[s] \in LifecycleKinds}
           new == {s \in S : events'[s] \in LifecycleKinds}
<1>1. \A s \in S : events'[s] = events[s]
  BY DEF EventsGrow
<1>2. new = old
  BY <1>1
<1>3. LastLifecycle(events, S, other) = IF old = {} THEN other ELSE events[Top(old)]
  BY DEF LastLifecycle
<1>4. LastLifecycle(events', S, other) = IF new = {} THEN other ELSE events'[Top(new)]
  BY DEF LastLifecycle
<1>5. CASE old = {}
  BY <1>2, <1>3, <1>4, <1>5
<1>6. CASE old # {}
  <2>1. Top(old) \in old
    BY <1>6, TopFacts
  <2> QED
    BY <1>1, <1>2, <1>3, <1>4, <1>6, <2>1
<1> QED
  BY <1>5, <1>6

RowInv == row \in {"running", "cancelling", "ended"} /\ RowFits

\* The summary is that of all the events there are.
LEMMA SummaryFacts ==
  ASSUME NumbersInOrder, RowInv
  PROVE  /\ Summary \in Summaries
         /\ Summary.count = Len(events)
         /\ Summary.lifecycle \in {"running", "cancelling", "ended"}
         /\ Summary.lifecycle = "ended" => EndedBy(1, Len(events))
<1> DEFINE n == Len(events)
<1>1. n \in Nat /\ n <= MaxEvents /\ DOMAIN events = 1..n /\ MaxEvents \in Nat
  BY EventFacts, Limits
<1>2. Cardinality(DOMAIN events) = n
  <2>1. 1 \in Int /\ n \in Int
    BY <1>1
  <2>2. Cardinality(1..n) = IF 1 > n THEN 0 ELSE n - 1 + 1
    BY <2>1, FS_Interval
  <2> HIDE DEF n
  <2> QED
    BY <1>1, <2>2
<1>3. n \in 0..(2 * MaxEvents)
  <2> HIDE DEF n
  <2> QED
    BY <1>1
<1>4. Summary = [lifecycle |-> row, count |-> n]
  BY <1>2 DEF Summary
<1> QED
  BY <1>3, <1>4 DEF RowInv, RowFits, Summaries

LEMMA LoadedFits ==
  ASSUME NumbersInOrder, RowInv, PanelInv, NEW panel \in {"summary", "events", "logs"}
  PROVE  PanelRecord(Loaded(panel)) /\ PanelsFit(Loaded(panel))
<1>1. Len(events) \in Nat /\ Len(events) <= MaxEvents /\ DOMAIN events = 1..Len(events)
      /\ MaxEvents \in Nat /\ (\A k \in 0..Len(events) : k \in 0..MaxEvents /\ 1..k \subseteq Sequences_)
  BY EventFacts, Limits DEF Sequences_
<1>2. CASE panel = "summary"
  <2>1. Loaded(panel) = [panels EXCEPT !.summary = Summary]
    BY <1>2 DEF Loaded
  <2> DEFINE s == Summary
  <2>2. /\ s \in Summaries /\ s.count = Len(events)
        /\ s.lifecycle \in {"running", "cancelling", "ended"}
        /\ s.lifecycle = "ended" => EndedBy(1, s.count)
    BY SummaryFacts
  <2> HIDE DEF s
  <2>3. PanelRecord(Loaded(panel))
    BY <2>1, <2>2 DEF PanelInv, PanelRecord, s
  <2>4. /\ Loaded(panel).summary = s /\ Loaded(panel).events = panels.events
        /\ Loaded(panel).next = panels.next /\ Loaded(panel).logs = panels.logs
    BY <2>1 DEF PanelInv, PanelRecord, s
  <2>5. s.count <= Len(events)
    BY <1>1, <2>2
  <2> QED
    BY <2>2, <2>3, <2>4, <2>5 DEF PanelInv, PanelsFit
<1>3. CASE panel = "events"
  <2>1. Loaded(panel) = [panels EXCEPT !.events = PageItems, !.next = PageNext]
    BY <1>3 DEF Loaded
  <2>2. PICK top \in 0..Len(events) : PageItems = 1..top /\ PageNext \in {0, top}
    BY PageFacts
  <2> DEFINE items == PageItems
             next == PageNext
  <2>3. items = 1..top /\ next \in {0, top} /\ items \subseteq Sequences_ /\ next \in 0..MaxEvents
    BY <1>1, <2>2
  <2> HIDE DEF items, next
  <2>4. PanelRecord(Loaded(panel))
    BY <2>1, <2>3 DEF PanelInv, PanelRecord, items, next
  <2>5. /\ Loaded(panel).summary = panels.summary /\ Loaded(panel).events = items
        /\ Loaded(panel).next = next /\ Loaded(panel).logs = panels.logs
    BY <2>1 DEF PanelInv, PanelRecord, items, next
  <2> QED
    BY <2>3, <2>4, <2>5 DEF PanelInv, PanelsFit
<1>4. CASE panel = "logs"
  <2>1. Loaded(panel) = [panels EXCEPT !.logs = LogItems]
    BY <1>4 DEF Loaded
  <2> DEFINE items == LogItems
  <2>2. items \subseteq 1..Len(events) /\ items \subseteq Sequences_
    BY <1>1 DEF LogItems, Sequences_
  <2> HIDE DEF items
  <2>4. PanelRecord(Loaded(panel))
    BY <2>1, <2>2 DEF PanelInv, PanelRecord, items
  <2>5. /\ Loaded(panel).summary = panels.summary /\ Loaded(panel).events = panels.events
        /\ Loaded(panel).next = panels.next /\ Loaded(panel).logs = items
    BY <2>1 DEF PanelInv, PanelRecord, items
  <2> QED
    BY <2>2, <2>4, <2>5 DEF PanelInv, PanelsFit
<1> QED
  BY <1>2, <1>3, <1>4

\* A board that starts from its panels.
LEMMA BoardStarts ==
  ASSUME NumbersInOrder, PanelRecord(panels'), PanelsFit(panels'), events' = events,
         board' = BoardOf(panels'),
         phase' # "live" => ~stream'["dashboard"].up /\ ~rolledBack',
         ~rolledBack' => /\ cursor'["dashboard"] <= board'.watermark
                         /\ stream'["dashboard"].up => Taken_("dashboard")' <= board'.watermark
  PROVE  BoardFollows' /\ BoardTypes' /\ PanelInv'
<1> DEFINE p == panels'
           n == Len(events)
           wm == Top(p.events \cup p.logs)
           lt == Top(p.logs)
<1>1. n \in Nat /\ n <= MaxEvents /\ MaxEvents \in Nat
  BY EventFacts, Limits
<1>2. PICK top \in 0..n :
        /\ p.events = 1..top /\ Top(p.events) = top
        /\ lt \in 0..n /\ wm \in top..n /\ (wm <= top \/ wm <= lt)
  BY PanelTops
<1>3. PanelInv'
  BY DEF PanelInv, PanelRecord, PanelsFit, EndedBy
<1>4. /\ board'.timeline = Ascending(1..top) /\ board'.watermark = wm
      /\ board'.summary = p.summary
      /\ board' = [timeline |-> Ascending(1..top), watermark |-> wm, summary |-> p.summary]
  BY <1>2 DEF BoardOf
<1>5. p.summary \in Summaries /\ p.summary.count \in Nat
  BY <1>1 DEF PanelRecord, Summaries
<1>6. LogsAhead' <=> lt > top
  BY <1>2 DEF LogsAhead
<1> HIDE DEF p, n, wm, lt
<1>7. top \in Nat /\ wm \in Nat /\ lt \in Nat /\ wm <= n /\ top <= wm /\ wm \in 0..MaxEvents
  BY <1>1, <1>2
<1>8. 1..top \in SUBSET (1..wm) /\ 1..top \in SUBSET (1..top)
  BY <1>7
<1>9. Ascending(1..top) \in Seq(1..top) /\ ToSet(Ascending(1..top)) = 1..top
  BY <1>7, <1>8, AscendingFacts
<1>10. Ascending(1..top) \in Seq(Sequences_)
  <2>1. 1..top \subseteq Sequences_
    BY <1>1, <1>7 DEF Sequences_
  <2> QED
    BY <1>9, <2>1
<1>11. BoardTypes'
  BY <1>4, <1>5, <1>7, <1>10 DEF BoardTypes
<1>12. TimelineComplete'
  <2>1. ASSUME NEW s \in 1..wm
        PROVE  s \in 1..top \/ (lt > top /\ top < s /\ s <= lt)
    BY <1>2, <1>7, <2>1
  <2>2. Top(panels'.events) = top /\ Top(panels'.logs) = lt
    BY <1>2 DEF p, lt
  <2> QED
    BY <1>4, <1>6, <1>9, <2>1, <2>2 DEF TimelineComplete
<1>13. ASSUME ~LogsAhead'
       PROVE  /\ board'.summary.count = p.summary.count + board'.watermark - top
              /\ board'.summary.lifecycle =
                   LastLifecycle(events', (top + 1)..board'.watermark, p.summary.lifecycle)
  <2>1. wm = top
    BY <1>2, <1>6, <1>7, <1>13
  <2>2. (top + 1)..top = {}
    BY <1>7
  <2>3. LastLifecycle(events', (top + 1)..board'.watermark, p.summary.lifecycle)
          = p.summary.lifecycle
    BY <1>4, <2>1, <2>2, LastOfNone
  <2> QED
    BY <1>4, <1>5, <1>7, <2>1, <2>3
<1>14. board'.summary.count <= p.summary.count + board'.watermark
  BY <1>4, <1>5, <1>7
<1>15. \E shown \in SUBSET (1..board'.watermark) : board'.timeline = Ascending(shown)
  BY <1>4, <1>8
<1>16. board'.watermark <= Len(events') /\ board'.watermark >= Top(panels'.events \cup panels'.logs)
  BY <1>4, <1>7 DEF wm, p, n
<1>17. BoardFollows'
  <2>1. Top(panels'.events) = top
    BY <1>2 DEF p
  <2> QED
    BY <1>4, <1>12, <1>13, <1>14, <1>15, <1>16, <2>1 DEF BoardFollows, p
<1> QED
  BY <1>3, <1>11, <1>17

ShowInv == PanelInv /\ BoardTypes /\ BoardFollows

LEMMA EndedKept ==
  ASSUME NumbersInOrder, EventsGrow, NEW a \in Nat \ {0}, NEW b \in Nat, b <= Len(events)
  PROVE  (\E s \in a..b : events'[s] = "ended") <=> EndedBy(a, b)
<1>1. Len(events) \in Nat
  BY EventFacts
<1>2. \A s \in a..b : s \in 1..Len(events)
  BY <1>1
<1> QED
  BY <1>2 DEF EventsGrow, EndedBy

\* A step that leaves panels and board alone, whatever is committed meanwhile.
LEMMA ShowKept ==
  ASSUME ShowInv, NumbersInOrder, EventsGrow,
         phase' = phase, panels' = panels, board' = board, rolledBack' = rolledBack,
         phase # "live" => ~stream'["dashboard"].up,
         ~rolledBack => /\ cursor'["dashboard"] <= board.watermark
                        /\ stream'["dashboard"].up => Taken_("dashboard")' <= board.watermark
  PROVE  ShowInv'
<1> DEFINE n == Len(events)
           c == panels.summary.count
           wm == board.watermark
           top == Top(panels.events)
<1>1. /\ n \in Nat /\ Len(events') \in Nat /\ n <= Len(events')
      /\ c \in Nat /\ c <= n /\ wm \in Nat /\ wm <= n /\ top \in Nat
  <2>1. PICK t \in 0..n : top = t
    BY PanelTops DEF ShowInv, PanelInv
  <2>2. c \in Nat /\ wm \in Nat
    BY Limits DEF ShowInv, PanelInv, PanelRecord, BoardTypes, Summaries
  <2>3. c <= n /\ wm <= n
    BY DEF ShowInv, PanelInv, PanelsFit, BoardFollows
  <2>4. n \in Nat /\ Len(events') \in Nat /\ n <= Len(events')
    BY EventFacts DEF EventsGrow
  <2> HIDE DEF n, c, wm, top
  <2>5. top \in Nat
    BY <2>1, <2>4
  <2>6. n = Len(events)
    BY DEF n
  <2> QED
    BY <2>2, <2>3, <2>4, <2>5, <2>6
<1>2. BoardTypes' /\ PanelRecord(panels)'
  BY DEF ShowInv, PanelInv, BoardTypes, PanelRecord
<1>3. PanelsFit(panels)'
  <2>1. (\E s \in 1..c : events'[s] = "ended") <=> EndedBy(1, c)
    <3>1. 1 \in Nat \ {0} /\ c \in Nat /\ c <= Len(events)
      BY <1>1
    <3> HIDE DEF c
    <3> QED
      BY <3>1, EndedKept
  <2>2. EndedBy(1, panels.summary.count)' <=> EndedBy(1, c)
    BY <2>1 DEF EndedBy
  <2>3. PICK t \in 0..n : panels.events = 1..t /\ panels.next \in {0, t}
    BY DEF ShowInv, PanelInv, PanelsFit
  <2>4. t \in 0..Len(events')
    <3> HIDE DEF n
    <3> QED
      BY <1>1
  <2>5. panels.logs \subseteq 1..Len(events')
    <3>1. panels.logs \subseteq 1..n
      BY DEF ShowInv, PanelInv, PanelsFit
    <3> HIDE DEF n
    <3> QED
      BY <1>1, <3>1
  <2>6. c <= Len(events')
    <3> HIDE DEF n, c
    <3> QED
      BY <1>1
  <2>7. panels.summary # NoSummary =>
          /\ panels.summary.lifecycle # "none"
          /\ panels.summary.lifecycle = "ended" => EndedBy(1, c)
    BY DEF ShowInv, PanelInv, PanelsFit
  <2> QED
    BY <2>2, <2>3, <2>4, <2>5, <2>6, <2>7 DEF PanelsFit
<1>4. BoardFollows'
  <2>1. (top + 1)..wm \in SUBSET (1..n) /\ n \in Nat
    <3> HIDE DEF top, wm, n
    <3> QED
      BY <1>1
  <2>2. LastLifecycle(events', (Top(panels'.events) + 1)..board'.watermark,
                      panels'.summary.lifecycle)
        = LastLifecycle(events, (Top(panels.events) + 1)..board.watermark,
                        panels.summary.lifecycle)
    BY <2>1, LastKept
  <2>3. TimelineComplete' <=> TimelineComplete
    BY DEF TimelineComplete, LogsAhead
  <2>4. LogsAhead' <=> LogsAhead
    BY DEF LogsAhead
  <2>5. board'.watermark <= Len(events')
    <3> HIDE DEF n
    <3>1. board'.watermark = wm
      OBVIOUS
    <3> HIDE DEF wm
    <3> QED
      BY <1>1, <3>1
  <2>6. BoardFollows
    BY DEF ShowInv
  <2> QED
    BY <2>2, <2>3, <2>4, <2>5, <2>6 DEF BoardFollows
<1> QED
  BY <1>2, <1>3, <1>4 DEF ShowInv, PanelInv

\* A frame beyond the watermark is added, any other one is not.
LEMMA ApplyFrameShows ==
  ASSUME ShowInv, DeliveryInv, NumbersInOrder, rolledBack \in BOOLEAN, ApplyFrame
  PROVE  ShowInv'
<1> DEFINE frame == Head(stream["dashboard"].frames)
           n == Len(events)
           c == panels.summary.count
           wm == board.watermark
           top == Top(panels.events)
           taken == Taken_("dashboard")
<1>1. /\ stream["dashboard"].up /\ stream'["dashboard"].up
      /\ frame = taken + 1 /\ Taken_("dashboard")' = taken + 1 /\ taken + 1 <= n
      /\ frame \in Sequences_
      /\ cursor'["dashboard"] \in
           {cursor["dashboard"], IF Accepts(frame) THEN frame ELSE cursor["dashboard"]}
  BY ApplyFrameDelivers
<1>2. /\ n \in Nat /\ n <= MaxEvents /\ MaxEvents \in Nat
      /\ c \in Nat /\ c <= n /\ wm \in Nat /\ wm <= n /\ top \in Nat /\ top <= wm
      /\ taken \in Int /\ cursor["dashboard"] \in Nat /\ frame \in Nat
  <2>1. PICK t \in 0..n : top = t /\ Top(panels.events \cup panels.logs) \in t..n
    BY PanelTops DEF ShowInv, PanelInv
  <2>2. c \in Nat /\ wm \in Nat
    BY Limits DEF ShowInv, PanelInv, PanelRecord, BoardTypes, Summaries
  <2>3. n \in Nat /\ n <= MaxEvents /\ MaxEvents \in Nat
    BY EventFacts, Limits
  <2>4. taken \in Int /\ cursor["dashboard"] \in Nat
    BY ConnectionFacts DEF DeliveryInv, Followers
  <2>5. c <= n /\ wm <= n /\ wm >= Top(panels.events \cup panels.logs)
    BY DEF ShowInv, PanelInv, PanelsFit, BoardFollows
  <2>6. frame \in Nat
    BY <1>1, Limits
  <2> HIDE DEF n, c, wm, top, taken
  <2>7. top \in Nat /\ top <= wm
    BY <2>1, <2>2, <2>3, <2>5
  <2> QED
    BY <2>2, <2>3, <2>4, <2>5, <2>6, <2>7
<1>3. /\ events' = events /\ phase' = phase /\ panels' = panels /\ rolledBack' = rolledBack
  BY DEF ApplyFrame, eventVars
<1>4. phase = "live"
  BY <1>1 DEF ShowInv, BoardFollows
<1>5. CASE ~Accepts(frame)
  <2>1. board' = board /\ cursor' = cursor
    BY <1>5 DEF ApplyFrame
  <2>2. frame <= wm
    <3> HIDE DEF frame
    <3> QED
      BY <1>2, <1>5 DEF Accepts
  <2>3. ~rolledBack => cursor'["dashboard"] <= board.watermark
                       /\ Taken_("dashboard")' <= board.watermark
    BY <1>1, <2>1, <2>2 DEF ShowInv, BoardFollows
  <2> QED
    BY <1>3, <1>4, <2>1, <2>3, SameEvents, ShowKept
<1>6. CASE Accepts(frame)
  <2>1. PICK shown \in SUBSET (1..wm) : board.timeline = Ascending(shown)
    BY DEF ShowInv, BoardFollows
  <2> DEFINE now == shown \cup {frame}
  <2>2. ToSet(board.timeline) = shown
    BY <1>2, <2>1, AscendingFacts
  <2>3. board' = [timeline |-> Ascending(now), watermark |-> frame,
                  summary |-> UpdatedSummary(board.summary, events[frame])]
    BY <1>6, <2>2 DEF ApplyFrame
  <2>4. frame > wm
    BY <1>6 DEF Accepts
  <2> HIDE DEF frame, n, c, wm, top, taken
  <2>5. now \in SUBSET (1..frame)
    BY <1>2, <2>1, <2>4
  <2>6. Ascending(now) \in Seq(now) /\ ToSet(Ascending(now)) = now
    BY <1>2, <2>5, AscendingFacts
  <2>7. Ascending(now) \in Seq(Sequences_)
    <3>1. now \subseteq Sequences_
      BY <1>1, <1>2, <2>1 DEF Sequences_
    <3> QED
      BY <2>6, <3>1
  <2>8. frame <= n /\ frame \in 0..MaxEvents
    BY <1>1, <1>2
  <2>9. /\ board'.timeline = Ascending(now) /\ board'.watermark = frame
        /\ board'.summary = UpdatedSummary(board.summary, events[frame])
    BY <2>3
  <2> DEFINE old == board.summary
             new == UpdatedSummary(board.summary, events[frame])
  <2>10. old \in Summaries /\ old.count \in Nat /\ old.count <= c + wm
    BY <1>2 DEF ShowInv, BoardTypes, BoardFollows, Summaries, wm, c
  <2>11. /\ old = NoSummary => new = NoSummary
         /\ old # NoSummary => /\ new.count = old.count + 1
                               /\ new.lifecycle = (IF events[frame] \in LifecycleKinds
                                                   THEN events[frame] ELSE old.lifecycle)
                               /\ new # NoSummary
    <3>1. CASE old = NoSummary
      BY <3>1 DEF UpdatedSummary
    <3>2. CASE old # NoSummary
      <4>1. new = [lifecycle |-> IF events[frame] \in LifecycleKinds THEN events[frame]
                                 ELSE old.lifecycle,
                   count |-> old.count + 1]
        BY <3>2 DEF UpdatedSummary
      <4>2. NoSummary.count = 0
        BY DEF NoSummary
      <4>3. new.count = old.count + 1 /\ old.count + 1 # 0
        BY <2>10, <4>1
      <4> QED
        BY <3>2, <4>1, <4>2, <4>3
    <3> QED
      BY <3>1, <3>2
  <2>12. new \in Summaries /\ new.count <= c + frame
    <3>1. CASE old = NoSummary
      <4>1. new = old
        BY <2>11, <3>1
      <4> HIDE DEF old, new
      <4> QED
        BY <1>2, <2>4, <2>10, <4>1
    <3>2. CASE old # NoSummary
      <4>1. new = [lifecycle |-> IF events[frame] \in LifecycleKinds THEN events[frame]
                                 ELSE old.lifecycle,
                   count |-> old.count + 1]
        BY <3>2 DEF UpdatedSummary
      <4>2. old.count + 1 <= c + frame /\ old.count + 1 \in 0..(2 * MaxEvents)
        <5> DEFINE k == old.count
        <5>1. k \in Nat /\ k <= c + wm
          BY <2>10
        <5> HIDE DEF k
        <5>2. k + 1 <= c + frame
          BY <1>2, <2>4, <5>1
        <5>3. c + frame <= 2 * MaxEvents
          BY <1>2, <2>8
        <5>4. k + 1 \in 0..(2 * MaxEvents)
          BY <1>2, <5>1, <5>2, <5>3
        <5> QED
          BY <5>2, <5>4 DEF k
      <4>3. old.lifecycle \in {"none", "running", "cancelling", "ended"}
        BY <2>10 DEF Summaries
      <4> HIDE DEF old, new
      <4> QED
        BY <4>1, <4>2, <4>3 DEF Summaries, LifecycleKinds
    <3> QED
      BY <3>1, <3>2
  <2>13. BoardTypes'
    BY <2>3, <2>7, <2>8, <2>12 DEF BoardTypes
  <2>14. PanelInv'
    BY <1>3 DEF ShowInv, PanelInv, PanelRecord, PanelsFit, EndedBy
  <2>15. ~rolledBack => frame = wm + 1
    <3>1. ~rolledBack => taken <= wm
      BY <1>1 DEF ShowInv, BoardFollows, taken, wm
    <3> QED
      BY <1>1, <1>2, <2>4, <3>1
  <2>16. LogsAhead' <=> LogsAhead
    BY <1>3 DEF LogsAhead
  <2>17. ~rolledBack => TimelineComplete'
    <3> SUFFICES ASSUME ~rolledBack
                 PROVE  TimelineComplete'
      OBVIOUS
    <3>1. \A s \in 1..wm : s \in shown \/ (LogsAhead /\ top < s /\ s <= Top(panels.logs))
      BY <2>2 DEF ShowInv, BoardFollows, TimelineComplete, wm, top
    <3>2. \A s \in 1..frame : s \in 1..wm \/ s = frame
      BY <1>2, <2>15
    <3>3. \A s \in 1..frame : s \in now \/ (LogsAhead /\ top < s /\ s <= Top(panels.logs))
      BY <3>1, <3>2
    <3>4. ToSet(board'.timeline) = now
      BY <2>6, <2>9
    <3> QED
      BY <1>3, <2>9, <2>16, <3>3, <3>4 DEF TimelineComplete, top
  <2>18. LastLifecycle(events', (Top(panels'.events) + 1)..board'.watermark,
                       panels'.summary.lifecycle)
         = LastLifecycle(events, (top + 1)..frame, panels.summary.lifecycle)
    BY <1>3, <2>9 DEF top
  <2>19. ASSUME ~rolledBack, ~LogsAhead, old # NoSummary
         PROVE  /\ new.count = c + frame - top
                /\ new.lifecycle =
                     LastLifecycle(events, (top + 1)..frame, panels.summary.lifecycle)
    <3>1. panels.summary # NoSummary
      BY <2>19 DEF ShowInv, BoardFollows
    <3>2. /\ old.count = c + wm - top
          /\ old.lifecycle =
               LastLifecycle(events, (top + 1)..wm, panels.summary.lifecycle)
      BY <2>19, <3>1 DEF ShowInv, BoardFollows, c, wm, top
    <3>3. new.count = c + frame - top
      <4> DEFINE k == old.count
      <4>1. k \in Nat /\ k = c + wm - top /\ new.count = k + 1
        BY <2>10, <2>11, <2>19, <3>2
      <4> HIDE DEF k
      <4> QED
        BY <1>2, <2>15, <2>19, <4>1
    <3>4. LastLifecycle(events, (top + 1)..frame, panels.summary.lifecycle) =
            IF events[frame] \in LifecycleKinds THEN events[frame]
            ELSE LastLifecycle(events, (top + 1)..wm, panels.summary.lifecycle)
      <4> DEFINE other == panels.summary.lifecycle
      <4> HIDE DEF other
      <4>1. LastLifecycle(events, (top + 1)..(wm + 1), other) =
              IF events[wm + 1] \in LifecycleKinds THEN events[wm + 1]
              ELSE LastLifecycle(events, (top + 1)..wm, other)
        BY <1>2, LastAdds
      <4> QED
        BY <2>15, <2>19, <4>1 DEF other
    <3> QED
      BY <2>11, <2>19, <3>2, <3>3, <3>4
  <2>20. ~rolledBack => cursor'["dashboard"] <= frame /\ Taken_("dashboard")' <= frame
    <3>1. ~rolledBack => cursor["dashboard"] <= wm
      BY DEF ShowInv, BoardFollows, wm
    <3> QED
      BY <1>1, <1>2, <1>6, <2>4, <3>1
  <2>21. board'.summary = NoSummary <=> panels'.summary = NoSummary
    BY <1>3, <2>9, <2>11 DEF ShowInv, BoardFollows
  <2>22. frame >= Top(panels.events \cup panels.logs)
    <3> DEFINE covered == Top(panels.events \cup panels.logs)
    <3>1. wm >= covered
      BY DEF ShowInv, BoardFollows, wm
    <3>2. \E t \in Nat : covered \in t..n /\ n \in Nat
      BY <1>2, PanelTops DEF ShowInv, PanelInv, n
    <3> HIDE DEF covered
    <3>3. frame >= covered
      BY <1>2, <2>4, <3>1, <3>2
    <3> QED
      BY <3>3 DEF covered
  <2>23. BoardFollows'
    <3>1. board'.watermark <= Len(events')
      BY <1>3, <2>8, <2>9 DEF n
    <3>2. \E s \in SUBSET (1..board'.watermark) : board'.timeline = Ascending(s)
      BY <2>5, <2>9
    <3>3. board'.summary.count <= panels'.summary.count + board'.watermark
      BY <1>3, <2>9, <2>12 DEF c
    <3>4. old = NoSummary <=> panels.summary = NoSummary
      BY DEF ShowInv, BoardFollows
    <3>5. ~rolledBack' /\ ~LogsAhead' /\ panels'.summary # NoSummary =>
            /\ board'.summary.count = panels'.summary.count + board'.watermark - Top(panels'.events)
            /\ board'.summary.lifecycle =
                 LastLifecycle(events', (Top(panels'.events) + 1)..board'.watermark,
                               panels'.summary.lifecycle)
      BY <1>3, <2>9, <2>16, <2>18, <2>19, <3>4 DEF c, top
    <3> QED
      BY <1>3, <1>4, <2>9, <2>17, <2>20, <2>21, <2>22, <3>1, <3>2, <3>3, <3>5 DEF BoardFollows
  <2> QED
    BY <2>13, <2>14, <2>23 DEF ShowInv
<1> QED
  BY <1>5, <1>6

-----------------------------------------------------------------------------
(* Every step keeps all of it.                                             *)

SmallTypes ==
  /\ started \subseteq Followers
  /\ phase \in {"summary", "events", "logs", "live"}
  /\ drops \in 0..MaxDrops
  /\ reloads \in 0..MaxReloads
  /\ isCancelling \in BOOLEAN
  /\ rolledBack \in BOOLEAN

Held == SmallTypes /\ NumbersInOrder /\ RowInv /\ DeliveryInv /\ ShowInv

\* The parts of the invariant make the invariant, and the other way round.
LEMMA Parts == IInv <=> Held
<1>1. IInv => Held
  BY DEF IInv, Held, TypeOK, SmallTypes, DeliveryInv, StreamTypes, FramesInOrder,
         ConnectionInOrder, ShowInv, PanelInv, PanelRecord, BoardTypes, RowInv
<1>2. ASSUME Held
      PROVE  IInv
  <2>1. FramesInOrder /\ PrintsInOrder /\ PanelsFit(panels) /\ BoardFollows /\ NumbersInOrder
        /\ RowFits
    BY <1>2 DEF Held, RowInv, FramesInOrder, DeliveryInv, ConnectionInOrder, ShowInv, PanelInv
  <2>2. DOMAIN events \subseteq Sequences_ /\ Range(events) \subseteq Kinds
    BY <2>1, EventFacts, Limits DEF Sequences_
  <2>3. ASSUME NEW w \in Writers
        PROVE  DOMAIN open[w] \subseteq Sequences_ /\ Range(open[w]) \subseteq Kinds
    <3>1. PICK last \in Len(events)..MaxEvents :
            /\ open[w] \in [(Len(events) + 1)..last -> Kinds]
            /\ DOMAIN open[w] = (Len(events) + 1)..last
      BY <2>1, OpenFacts
    <3>2. (Len(events) + 1)..last \subseteq Sequences_
      BY <2>1, <3>1, EventFacts, Limits DEF Sequences_
    <3>3. Range(open[w]) = {open[w][s] : s \in DOMAIN open[w]}
      BY DEF Range
    <3> QED
      BY <3>1, <3>2, <3>3
  <2>4. \A f \in Followers : stream[f].up => cursor[f] <= stream[f].boundary
    <3> TAKE f \in Followers
    <3> HAVE stream[f].up
    <3>1. cursor[f] <= Taken_(f) /\ cursor[f] \in Nat /\ stream[f].boundary \in Nat
          /\ Len(stream[f].frames) \in Nat
      BY <1>2, ConnectionFacts DEF Held, DeliveryInv, ConnectionInOrder
    <3> QED
      BY <3>1 DEF Taken_
  <2>5. TypeOK
    BY <1>2, <2>2, <2>3, <2>4
       DEF Held, TypeOK, SmallTypes, DeliveryInv, StreamTypes, ShowInv, PanelInv,
           PanelRecord, BoardTypes, RowInv
  <2> QED
    BY <2>1, <2>5 DEF IInv
<1> QED
  BY <1>1, <1>2

\* A step that leaves panels and board alone, seen from the board.
ShowAlone == UNCHANGED <<phase, panels, board, rolledBack>>

LEMMA CursorOfBoard ==
  ASSUME ShowInv
  PROVE  /\ phase # "live" => ~stream["dashboard"].up /\ ~rolledBack
         /\ ~rolledBack => /\ cursor["dashboard"] <= board.watermark
                           /\ stream["dashboard"].up => Taken_("dashboard") <= board.watermark
  BY DEF ShowInv, BoardFollows

\* A step that does not touch the dashboard's connection either.
LEMMA BystanderShows ==
  ASSUME ShowInv, NumbersInOrder, EventsGrow, ShowAlone,
         stream'["dashboard"] = stream["dashboard"],
         cursor'["dashboard"] = cursor["dashboard"]
  PROVE  ShowInv'
<1>1. Taken_("dashboard")' = Taken_("dashboard")
  BY DEF Taken_
<1> QED
  BY <1>1, CursorOfBoard, ShowKept DEF ShowAlone

\* A commit that ends the row adds the ending, and an ending there is stays.
LEMMA WriterKeepsRow ==
  ASSUME NumbersInOrder, RowInv, EventsGrow, NEW w \in Writers,
         \/ \E kind \in Kinds : AppendEvent(w, kind)
         \/ \E commits \in BOOLEAN : EndTransaction(w, commits)
  PROVE  RowInv'
<1> DEFINE n == Len(events)
<1>1. n \in Nat /\ Len(events') \in Nat /\ n <= Len(events') /\ MaxEvents \in Nat
      /\ \A i \in 1..n : events'[i] = events[i]
  BY EventFacts, Limits DEF EventsGrow
<1>2. EndedBy(1, n) => EndedBy(1, Len(events))'
  <2>1. \A s \in 1..n : s \in 1..Len(events')
    <3> HIDE DEF n
    <3> QED
      BY <1>1
  <2> QED
    BY <1>1, <2>1 DEF EndedBy
<1>3. CASE UNCHANGED <<events, row>>
  BY <1>3 DEF RowInv, RowFits, EndedBy
<1>4. CASE EndTransaction(w, TRUE)
  <2>1. PICK last \in n..MaxEvents :
          open[w] \in [(n + 1)..last -> Kinds] /\ DOMAIN open[w] = (n + 1)..last
    BY OpenFacts
  <2>2. events' = Joined(events, open[w]) /\ row' \in RowsAfter(w)
    BY <1>4 DEF EndTransaction
  <2>3. PICK other \in {row, "running"} : row' = LastLifecycle(open[w], DOMAIN open[w], other)
    BY <2>2 DEF RowsAfter
  <2>4. last \in Nat /\ DOMAIN open[w] \in SUBSET (1..last)
    <3> HIDE DEF n
    <3> QED
      BY <1>1, <2>1
  <2>5. \/ row' = other
        \/ row' \in LifecycleKinds /\ \E s \in DOMAIN open[w] : open[w][s] = row'
    BY <2>3, <2>4, LastFacts
  <2>6. row' \in {"running", "cancelling", "ended"}
    BY <2>5 DEF RowInv, LifecycleKinds
  <2>7. ASSUME row' = "ended"
        PROVE  EndedBy(1, Len(events))'
    <3>1. CASE row' = other
      <4>1. row = "ended"
        BY <2>7, <3>1
      <4> QED
        BY <1>2, <4>1 DEF RowInv, RowFits
    <3>2. CASE \E s \in DOMAIN open[w] : open[w][s] = row'
      <4>1. PICK s \in DOMAIN open[w] : open[w][s] = "ended"
        BY <2>7, <3>2
      <4>2. DOMAIN events = 1..n /\ s \notin 1..n
        <5>1. DOMAIN events = 1..n
          BY EventFacts
        <5> HIDE DEF n
        <5> QED
          BY <1>1, <2>1, <4>1, <5>1
      <4>3. events'[s] = "ended" /\ s \in DOMAIN events'
        BY <2>2, <4>1, <4>2 DEF Joined
      <4>4. DOMAIN events' = 1..Len(events')
        <5>1. NumbersInOrder'
          BY <1>4, EndKeepsNumbers
        <5> QED
          BY <5>1 DEF NumbersInOrder
      <4> QED
        BY <4>3, <4>4 DEF EndedBy
    <3> QED
      BY <2>5, <3>1, <3>2
  <2> QED
    BY <2>6, <2>7 DEF RowInv, RowFits
<1>5. CASE EndTransaction(w, FALSE)
  <2>1. UNCHANGED <<events, row>>
    BY <1>5 DEF EndTransaction
  <2> QED
    BY <1>3, <2>1
<1>6. CASE \E kind \in Kinds : AppendEvent(w, kind)
  <2>1. UNCHANGED <<events, row>>
    BY <1>6 DEF AppendEvent
  <2> QED
    BY <1>3, <2>1
<1> QED
  BY <1>4, <1>5, <1>6

LEMMA WriterKeeps ==
  ASSUME Held, NEW w \in Writers,
         \/ \E kind \in Kinds : AppendEvent(w, kind)
         \/ \E commits \in BOOLEAN : EndTransaction(w, commits)
  PROVE  Held'
<1>1. /\ UNCHANGED <<started, stream, cursor, printed, boardVars, drops, reloads>>
      /\ NumbersInOrder' /\ EventsGrow
  <2>1. CASE \E kind \in Kinds : AppendEvent(w, kind)
    <3>1. events' = events
          /\ UNCHANGED <<started, stream, cursor, printed, boardVars, drops, reloads>>
      BY <2>1 DEF AppendEvent
    <3> QED
      BY <2>1, <3>1, AppendKeepsNumbers, SameEvents DEF Held
  <2>2. CASE \E commits \in BOOLEAN : EndTransaction(w, commits)
    <3>1. UNCHANGED <<started, stream, cursor, printed, boardVars, drops, reloads>>
      BY <2>2 DEF EndTransaction
    <3> QED
      BY <2>2, <3>1, EndKeepsNumbers DEF Held
  <2> QED
    BY <2>1, <2>2
<1>2. DeliveryInv'
  BY <1>1, DeliveryKept DEF Held
<1>3. ShowInv'
  BY <1>1, BystanderShows DEF Held, ShowAlone, boardVars
<1>4. SmallTypes'
  BY <1>1 DEF Held, SmallTypes, boardVars
<1>5. RowInv'
  BY <1>1, WriterKeepsRow DEF Held
<1> QED
  BY <1>1, <1>2, <1>3, <1>4, <1>5 DEF Held

LEMMA SameNumbers ==
  ASSUME NumbersInOrder, RowInv, UNCHANGED eventVars
  PROVE  NumbersInOrder' /\ RowInv'
<1>1. NumbersInOrder'
  BY DEF NumbersInOrder, RowFree, eventVars
<1>2. RowInv'
  BY DEF RowInv, RowFits, EndedBy, eventVars
<1> QED
  BY <1>1, <1>2

LEMMA FollowerKeeps ==
  ASSUME Held, NEW f \in Followers,
         StartFollower(f) \/ Connect(f) \/ Poll(f) \/ Drop(f)
  PROVE  Held'
<1>1. UNCHANGED eventVars /\ ShowAlone /\ cursor' = cursor
  BY DEF StartFollower, Connect, Poll, Drop, boardVars, ShowAlone
<1>2. NumbersInOrder' /\ RowInv' /\ EventsGrow
  BY <1>1, SameNumbers, SameEvents DEF Held, eventVars
<1>3. SmallTypes'
  <2>1. started' \subseteq Followers
    <3>1. started \subseteq Followers
      BY DEF Held, SmallTypes
    <3>2. CASE StartFollower(f)
      BY <3>1, <3>2 DEF StartFollower
    <3>3. CASE Connect(f) \/ Poll(f) \/ Drop(f)
      <4>1. started' = started
        BY <3>3 DEF Connect, Poll, Drop
      <4> QED
        BY <3>1, <4>1
    <3> QED
      BY <3>2, <3>3
  <2>2. drops' \in 0..MaxDrops
    <3>1. drops \in 0..MaxDrops
      BY DEF Held, SmallTypes
    <3>2. CASE StartFollower(f) \/ Connect(f) \/ Poll(f)
      <4>1. drops' = drops
        BY <3>2 DEF StartFollower, Connect, Poll
      <4> QED
        BY <3>1, <4>1
    <3>3. CASE Drop(f)
      BY <3>1, <3>3, Limits DEF Drop
    <3> QED
      BY <3>2, <3>3
  <2>3. UNCHANGED <<phase, isCancelling, rolledBack, reloads>>
    BY DEF StartFollower, Connect, Poll, Drop, boardVars
  <2> QED
    BY <2>1, <2>2, <2>3 DEF Held, SmallTypes
<1>4. CASE StartFollower(f)
  <2>1. stream' = stream /\ printed' = printed
    BY <1>4 DEF StartFollower
  <2>2. DeliveryInv'
    BY <1>1, <1>2, <2>1, DeliveryKept DEF Held
  <2>3. ShowInv'
    BY <1>1, <1>2, <2>1, BystanderShows DEF Held
  <2> QED
    BY <1>2, <1>3, <2>2, <2>3 DEF Held
<1>5. CASE Connect(f)
  <2>1. DeliveryInv' /\ Taken_(f)' = cursor[f]
    BY <1>5, ConnectDelivers DEF Held
  <2>2. ShowInv'
    <3>1. CASE f = "dashboard"
      <4>1. phase = "live"
        BY <1>5, <3>1 DEF Connect, Following
      <4> QED
        BY <1>1, <1>2, <2>1, <3>1, <4>1, CursorOfBoard, ShowKept DEF Held, ShowAlone
    <3>2. CASE f # "dashboard"
      <4>1. stream'["dashboard"] = stream["dashboard"]
        BY <1>5, <3>2 DEF Connect, Held, DeliveryInv, StreamTypes, Followers
      <4> QED
        BY <1>1, <1>2, <4>1, BystanderShows DEF Held
    <3> QED
      BY <3>1, <3>2
  <2> QED
    BY <1>2, <1>3, <2>1, <2>2 DEF Held
<1>6. CASE Poll(f)
  <2>1. DeliveryInv' /\ Taken_(f)' = Taken_(f) /\ stream[f].up
    BY <1>6, PollDelivers DEF Held
  <2>2. ShowInv'
    <3>1. CASE f = "dashboard"
      <4>1. phase = "live"
        BY <2>1, <3>1, CursorOfBoard DEF Held
      <4> QED
        BY <1>1, <1>2, <2>1, <3>1, <4>1, CursorOfBoard, ShowKept DEF Held, ShowAlone
    <3>2. CASE f # "dashboard"
      <4>1. stream'["dashboard"] = stream["dashboard"]
        BY <1>6, <3>2 DEF Poll, Held, DeliveryInv, StreamTypes, Followers
      <4> QED
        BY <1>1, <1>2, <4>1, BystanderShows DEF Held
    <3> QED
      BY <3>1, <3>2
  <2> QED
    BY <1>2, <1>3, <2>1, <2>2 DEF Held
<1>7. CASE Drop(f)
  <2>1. DeliveryInv' /\ stream'[f] = Closed
    BY <1>7, DropDelivers DEF Held
  <2>2. ShowInv'
    <3>1. CASE f = "dashboard"
      <4>1. ~stream'["dashboard"].up
        BY <2>1, <3>1 DEF Closed
      <4> QED
        BY <1>1, <1>2, <4>1, CursorOfBoard, ShowKept DEF Held, ShowAlone
    <3>2. CASE f # "dashboard"
      <4>1. stream'["dashboard"] = stream["dashboard"]
        BY <1>7, <3>2 DEF Drop, Held, DeliveryInv, StreamTypes, Followers
      <4> QED
        BY <1>1, <1>2, <4>1, BystanderShows DEF Held
    <3> QED
      BY <3>1, <3>2
  <2> QED
    BY <1>2, <1>3, <2>1, <2>2 DEF Held
<1> QED
  BY <1>4, <1>5, <1>6, <1>7

LEMMA WriteLineKeeps ==
  ASSUME Held, WriteLine
  PROVE  Held'
<1>1. UNCHANGED eventVars /\ ShowAlone /\ UNCHANGED <<started, isCancelling, drops, reloads>>
      /\ stream'["dashboard"] = stream["dashboard"]
      /\ cursor'["dashboard"] = cursor["dashboard"]
  <2>1. stream \in [Followers -> [up : BOOLEAN, boundary : 0..MaxEvents, frames : Seq(Sequences_)]]
        /\ cursor \in [Followers -> 0..MaxEvents]
    BY DEF Held, DeliveryInv, StreamTypes
  <2>2. stream'["dashboard"] = stream["dashboard"] /\ cursor'["dashboard"] = cursor["dashboard"]
    BY <2>1 DEF WriteLine, Taken, Followers
  <2>3. UNCHANGED <<eventVars, started, boardVars, drops, reloads>>
    BY DEF WriteLine
  <2> QED
    BY <2>2, <2>3 DEF ShowAlone, boardVars
<1>2. NumbersInOrder' /\ RowInv' /\ EventsGrow
  BY <1>1, SameNumbers, SameEvents DEF Held, eventVars
<1>3. DeliveryInv'
  BY WriteLineDelivers DEF Held
<1>4. ShowInv'
  BY <1>1, <1>2, BystanderShows DEF Held
<1>5. SmallTypes'
  BY <1>1 DEF Held, SmallTypes, ShowAlone
<1> QED
  BY <1>2, <1>3, <1>4, <1>5 DEF Held

LEMMA ApplyFrameKeeps ==
  ASSUME Held, ApplyFrame
  PROVE  Held'
<1>1. UNCHANGED eventVars /\ UNCHANGED <<started, phase, isCancelling, rolledBack, drops, reloads>>
  BY DEF ApplyFrame
<1>2. NumbersInOrder' /\ RowInv'
  BY <1>1, SameNumbers DEF Held
<1>3. DeliveryInv' /\ ShowInv'
  BY ApplyFrameDelivers, ApplyFrameShows DEF Held, SmallTypes
<1>4. SmallTypes'
  BY <1>1 DEF Held, SmallTypes
<1> QED
  BY <1>2, <1>3, <1>4 DEF Held

\* A step of the dashboard that starts its board over.
LEMMA RestartKeeps ==
  ASSUME Held, UNCHANGED eventVars, printed' = printed, SmallTypes',
         PanelRecord(panels'), PanelsFit(panels'), board' = BoardOf(panels'),
         stream' = [stream EXCEPT !["dashboard"] = Closed],
         cursor' = [cursor EXCEPT !["dashboard"] = panels'.next],
         ~rolledBack'
  PROVE  Held'
<1>1. NumbersInOrder /\ NumbersInOrder' /\ RowInv' /\ events' = events
  BY SameNumbers DEF Held, eventVars
<1>2. PICK top \in 0..Len(events) :
        /\ panels'.next \in {0, top}
        /\ Top(panels'.events \cup panels'.logs) \in top..Len(events)
  BY <1>1, PanelTops
<1> DEFINE next == panels'.next
           covered == Top(panels'.events \cup panels'.logs)
<1>3. next \in 0..MaxEvents /\ next <= Len(events) /\ next <= covered
  <2>1. next \in {0, top} /\ covered \in top..Len(events)
    BY <1>2
  <2>2. Len(events) \in Nat /\ Len(events) <= MaxEvents /\ MaxEvents \in Nat
    BY <1>1, EventFacts, Limits
  <2> HIDE DEF next, covered
  <2> QED
    BY <2>1, <2>2
<1>4. "dashboard" \in Followers /\ "dashboard" # "cli"
  BY DEF Followers
<1>5. DeliveryInv' /\ stream'["dashboard"] = Closed /\ cursor'["dashboard"] = next
  <2>1. cursor' = [cursor EXCEPT !["dashboard"] = next]
    OBVIOUS
  <2> HIDE DEF next
  <2> QED
    BY <1>1, <1>3, <1>4, <2>1, ClosingDelivers DEF Held
<1>6. ~stream'["dashboard"].up
  BY <1>5 DEF Closed
<1>7. board'.watermark = covered
  BY DEF BoardOf
<1>8. ShowInv'
  BY <1>1, <1>3, <1>5, <1>6, <1>7, BoardStarts DEF ShowInv
<1> QED
  BY <1>1, <1>5, <1>8 DEF Held

\* A step that starts the board over behind an open connection.
LEMMA ResetKeeps ==
  ASSUME Held, UNCHANGED eventVars, printed' = printed, SmallTypes', phase' = "live",
         PanelRecord(panels'), PanelsFit(panels'), board' = BoardOf(panels'),
         stream' = stream, cursor' = cursor,
         rolledBack' = (rolledBack \/ BoardOf(panels').watermark < board.watermark)
  PROVE  Held'
<1>1. NumbersInOrder /\ NumbersInOrder' /\ RowInv' /\ events' = events /\ EventsGrow
  BY SameNumbers, SameEvents DEF Held, eventVars
<1>2. DeliveryInv'
  BY <1>1, DeliveryKept DEF Held
<1>3. ASSUME ~rolledBack'
      PROVE  /\ cursor'["dashboard"] <= board'.watermark
             /\ stream'["dashboard"].up => Taken_("dashboard")' <= board'.watermark
  <2>1. ~rolledBack /\ ~(board'.watermark < board.watermark)
    BY <1>3
  <2>2. cursor["dashboard"] <= board.watermark
        /\ (stream["dashboard"].up => Taken_("dashboard") <= board.watermark)
    BY <2>1, CursorOfBoard DEF Held
  <2>3. board'.watermark \in Nat /\ board.watermark \in Nat
    <3>1. PICK top \in 0..Len(events) :
            Top(panels'.events \cup panels'.logs) \in top..Len(events)
      BY <1>1, PanelTops
    <3>2. board'.watermark = Top(panels'.events \cup panels'.logs)
      BY DEF BoardOf
    <3> QED
      BY <1>1, <3>1, <3>2, EventFacts, Limits DEF Held, ShowInv, BoardTypes
  <2>4. Taken_("dashboard") \in Int /\ cursor["dashboard"] \in Nat
        /\ Taken_("dashboard")' = Taken_("dashboard")
    BY ConnectionFacts DEF Held, DeliveryInv, Followers, Taken_
  <2> QED
    BY <2>1, <2>2, <2>3, <2>4
<1>4. ShowInv'
  BY <1>1, <1>3, BoardStarts DEF ShowInv
<1> QED
  BY <1>1, <1>2, <1>4 DEF Held

LEMMA ShowKeeps ==
  ASSUME Held, NEW given, PanelRecord(given), PanelsFit(given), Show(given),
         phase = "live", phase' = phase, UNCHANGED <<eventVars, started, printed, drops>>,
         reloads' \in 0..MaxReloads, isCancelling' \in BOOLEAN
  PROVE  Held'
<1>1. panels' = given /\ board' = BoardOf(panels')
      /\ PanelRecord(panels') /\ PanelsFit(panels')
  BY DEF Show
<1>2. CASE given.next # panels.next
  <2>1. /\ stream' = [stream EXCEPT !["dashboard"] = Closed]
        /\ cursor' = [cursor EXCEPT !["dashboard"] = panels'.next]
        /\ rolledBack' = FALSE
    BY <1>1, <1>2 DEF Show
  <2>2. SmallTypes'
    BY <2>1 DEF Held, SmallTypes
  <2> QED
    BY <1>1, <2>1, <2>2, RestartKeeps
<1>3. CASE given.next = panels.next
  <2>1. /\ rolledBack' = (rolledBack \/ BoardOf(panels').watermark < board.watermark)
        /\ stream' = stream /\ cursor' = cursor
    BY <1>1, <1>3 DEF Show
  <2>2. SmallTypes'
    BY <2>1 DEF Held, SmallTypes
  <2> QED
    BY <1>1, <2>1, <2>2, ResetKeeps
<1> QED
  BY <1>2, <1>3

LEMMA LoadKeeps ==
  ASSUME Held, NEW fails \in BOOLEAN, Load(fails)
  PROVE  Held'
<1>1. /\ phase \in {"summary", "events", "logs"} /\ ~rolledBack /\ rolledBack' = rolledBack
      /\ ~stream["dashboard"].up /\ stream' = stream /\ printed' = printed
      /\ UNCHANGED eventVars /\ NumbersInOrder /\ RowInv /\ PanelInv /\ DeliveryInv
  BY CursorOfBoard DEF Held, SmallTypes, Load, ShowInv
<1>2. panels' = (IF fails THEN panels ELSE Loaded(phase)) /\ board' = BoardOf(panels')
      /\ cursor' = [cursor EXCEPT !["dashboard"] = panels'.next]
  BY DEF Load
<1>3. PanelRecord(panels') /\ PanelsFit(panels')
  BY <1>1, <1>2, LoadedFits DEF PanelInv
<1>4. stream' = [stream EXCEPT !["dashboard"] = Closed]
  <2>1. stream["dashboard"] = Closed
    BY <1>1 DEF DeliveryInv, ConnectionInOrder, Followers
  <2> QED
    BY <1>1, <2>1 DEF DeliveryInv, StreamTypes
<1>5. SmallTypes'
  <2>1. reloads' \in 0..MaxReloads
    BY Limits DEF Held, SmallTypes, Load
  <2>2. phase' \in {"summary", "events", "logs", "live"}
    BY <1>1 DEF Load
  <2> QED
    BY <1>1, <2>1, <2>2 DEF Held, SmallTypes, Load
<1> QED
  BY <1>1, <1>2, <1>3, <1>4, <1>5, RestartKeeps

LEMMA MoreReloads ==
  ASSUME SmallTypes, reloads < MaxReloads, reloads' = reloads + 1
  PROVE  reloads' \in 0..MaxReloads
  BY Limits DEF SmallTypes

LEMMA RetryKeeps ==
  ASSUME Held, NEW panel \in {"summary", "events", "logs"}, NEW fails \in BOOLEAN,
         Retry(panel, fails)
  PROVE  Held'
<1> DEFINE given == IF fails THEN Emptied(panel) ELSE Loaded(panel)
<1>1. PanelRecord(given) /\ PanelsFit(given)
  BY EmptiedFits, LoadedFits DEF Held, ShowInv
<1>2. reloads' \in 0..MaxReloads /\ isCancelling' \in BOOLEAN
  BY MoreReloads DEF Held, SmallTypes, Retry
<1>3. Show(given) /\ phase = "live" /\ phase' = phase
      /\ UNCHANGED <<eventVars, started, printed, drops>>
  BY DEF Retry
<1> HIDE DEF given
<1> QED
  BY <1>1, <1>2, <1>3, ShowKeeps

LEMMA CancelAcceptedKeeps ==
  ASSUME Held, CancelAccepted
  PROVE  Held'
<1> DEFINE given == [panels EXCEPT !.summary.lifecycle = "cancelling"]
<1>1. PanelInv /\ panels.summary # NoSummary
  BY DEF Held, ShowInv, CancelAccepted
<1>2. /\ given.events = panels.events /\ given.next = panels.next /\ given.logs = panels.logs
      /\ given.summary = [panels.summary EXCEPT !.lifecycle = "cancelling"]
  BY <1>1 DEF PanelInv, PanelRecord
<1>3. /\ given.summary \in Summaries /\ given.summary.lifecycle = "cancelling"
      /\ given.summary.count = panels.summary.count
  BY <1>1, <1>2 DEF PanelInv, PanelRecord, Summaries
<1>4. PanelRecord(given)
  BY <1>1, <1>3 DEF PanelInv, PanelRecord
<1> HIDE DEF given
<1>5. PanelsFit(given)
  BY <1>1, <1>2, <1>3 DEF PanelInv, PanelsFit, NoSummary
<1>6. reloads' \in 0..MaxReloads /\ isCancelling' \in BOOLEAN
  BY DEF Held, SmallTypes, CancelAccepted
<1>7. Show(given) /\ phase = "live" /\ phase' = phase
      /\ UNCHANGED <<eventVars, started, printed, drops>>
  BY DEF CancelAccepted, given
<1> QED
  BY <1>4, <1>5, <1>6, <1>7, ShowKeeps

\* Sending a cancel request, and forgetting it, leave all else as it is.
LEMMA CancelKeeps ==
  ASSUME Held, Cancel \/ CancelForgotten
  PROVE  Held'
<1>1. UNCHANGED eventVars /\ ShowAlone /\ UNCHANGED <<started, stream, cursor, printed, drops>>
  BY DEF Cancel, CancelForgotten, ShowAlone
<1>2. NumbersInOrder' /\ RowInv' /\ EventsGrow
  BY <1>1, SameNumbers, SameEvents DEF Held, eventVars
<1>3. DeliveryInv' /\ ShowInv'
  BY <1>1, <1>2, DeliveryKept, BystanderShows DEF Held
<1>4. reloads' \in 0..MaxReloads /\ isCancelling' \in BOOLEAN
  <2>1. CASE Cancel
    BY <2>1, MoreReloads DEF Held, Cancel
  <2>2. CASE CancelForgotten
    BY <2>2 DEF Held, SmallTypes, CancelForgotten
  <2> QED
    BY <2>1, <2>2
<1>5. SmallTypes'
  BY <1>1, <1>4 DEF Held, SmallTypes, ShowAlone
<1> QED
  BY <1>2, <1>3, <1>5 DEF Held

LEMMA RefreshKeeps ==
  ASSUME Held, Refresh
  PROVE  Held'
<1>1. PanelRecord(NoPanels) /\ PanelsFit(NoPanels)
  BY EmptyFits DEF Held
<1>2. reloads' \in 0..MaxReloads /\ isCancelling' \in BOOLEAN
  BY MoreReloads DEF Held, SmallTypes, Refresh
<1>3. /\ UNCHANGED <<eventVars, started, printed, drops>>
      /\ panels' = NoPanels /\ board' = BoardOf(panels') /\ phase' = "summary"
      /\ stream' = [stream EXCEPT !["dashboard"] = Closed]
      /\ cursor' = [cursor EXCEPT !["dashboard"] = panels'.next] /\ rolledBack' = FALSE
  BY DEF Refresh, NoPanels
<1>4. SmallTypes'
  BY <1>2, <1>3 DEF Held, SmallTypes
<1> QED
  BY <1>1, <1>3, <1>4, RestartKeeps

LEMMA StutterKeeps ==
  ASSUME Held, UNCHANGED vars
  PROVE  Held'
<1>1. UNCHANGED eventVars /\ ShowAlone
      /\ UNCHANGED <<started, stream, cursor, printed, isCancelling, drops, reloads>>
  BY DEF vars, boardVars, ShowAlone
<1>2. NumbersInOrder' /\ RowInv' /\ EventsGrow
  BY <1>1, SameNumbers, SameEvents DEF Held, eventVars
<1>3. DeliveryInv' /\ ShowInv'
  BY <1>1, <1>2, DeliveryKept, BystanderShows DEF Held
<1>4. SmallTypes'
  BY <1>1 DEF Held, SmallTypes, ShowAlone
<1> QED
  BY <1>2, <1>3, <1>4 DEF Held

LEMMA NextKeeps ==
  ASSUME IInv, [Next]_vars
  PROVE  IInv'
<1>1. Held
  BY Parts
<1>2. Held'
  <2>1. CASE \E w \in Writers :
               \/ \E kind \in Kinds : AppendEvent(w, kind)
               \/ \E commits \in BOOLEAN : EndTransaction(w, commits)
    BY <1>1, <2>1, WriterKeeps
  <2>2. CASE \E f \in Followers : StartFollower(f) \/ Connect(f) \/ Poll(f) \/ Drop(f)
    BY <1>1, <2>2, FollowerKeeps
  <2>3. CASE WriteLine \/ ApplyFrame
    BY <1>1, <2>3, WriteLineKeeps, ApplyFrameKeeps
  <2>4. CASE \E fails \in BOOLEAN :
               Load(fails) \/ \E panel \in {"summary", "events", "logs"} : Retry(panel, fails)
    BY <1>1, <2>4, LoadKeeps, RetryKeeps
  <2>5. CASE Cancel \/ CancelAccepted \/ CancelForgotten \/ Refresh
    BY <1>1, <2>5, CancelKeeps, CancelAcceptedKeeps, RefreshKeeps
  <2>6. CASE UNCHANGED vars
    BY <1>1, <2>6, StutterKeeps
  <2> QED
    BY <2>1, <2>2, <2>3, <2>4, <2>5, <2>6 DEF Next
<1>3. IInv' <=> Held'
  BY Parts, PTL
<1> QED
  BY <1>2, <1>3

LEMMA InitHolds ==
  ASSUME Init
  PROVE  IInv
<1>1. /\ Len(events) = 0 /\ events \in Seq(Kinds) /\ MaxEvents \in Nat
      /\ 0 \in 0..MaxEvents /\ 0 \in 0..0
  BY Limits DEF Init
<1>2. NumbersInOrder
  <2>1. 0 \in 0..MaxEvents
    BY <1>1
  <2>2. <<>> \in [(0 + 1)..0 -> Kinds]
    BY EmptyRows
  <2>3. <<>> \in UNION {[(0 + 1)..last -> Kinds] : last \in 0..MaxEvents}
    BY <2>1, <2>2
  <2>4. open = [w \in Writers |-> <<>>]
    BY DEF Init
  <2>5. open \in [Writers -> UNION {[(0 + 1)..last -> Kinds] : last \in 0..MaxEvents}]
    BY <2>3, <2>4
  <2>6. \A w \in Writers : open[w] = <<>>
    BY <2>4
  <2> QED
    BY <1>1, <2>5, <2>6 DEF NumbersInOrder
<1>3. SmallTypes
  <2>1. 0 \in 0..MaxDrops /\ 0 \in 0..MaxReloads
    BY Limits
  <2>2. started \subseteq Followers /\ rolledBack \in BOOLEAN
        /\ phase \in {"summary", "events", "logs", "live"}
    BY DEF Init
  <2> QED
    BY <2>1, <2>2 DEF Init, SmallTypes
<1>4. Closed \in [up : BOOLEAN, boundary : 0..MaxEvents, frames : Seq(Sequences_)]
      /\ ~Closed.up
  BY <1>1 DEF Closed
<1>5. StreamTypes
  BY <1>1, <1>4 DEF Init, StreamTypes
<1>6. \A f \in Followers : ConnectionInOrder(f)
  BY <1>1, <1>4 DEF Init, ConnectionInOrder
<1>7. PrintsInOrder
  <2>1. printed = <<>> /\ Len(printed) = 0
    BY DEF Init
  <2>2. [i \in 1..0 |-> i] = <<>>
    OBVIOUS
  <2> QED
    BY <1>4, <2>1, <2>2 DEF Init, PrintsInOrder, FollowedOnce, Followers
<1>8. panels = NoPanels /\ PanelRecord(NoPanels) /\ PanelsFit(NoPanels)
  BY <1>2, EmptyFits DEF Init
<1>9. Top(panels.events) = 0 /\ Top(panels.events \cup panels.logs) = 0 /\ ~LogsAhead
      /\ panels.summary = NoSummary /\ NoSummary.count = 0 /\ NoSummary \in Summaries
  <2>1. panels.events = {} /\ panels.logs = {} /\ panels.summary = NoSummary
    BY <1>8 DEF NoPanels
  <2>2. Top({}) = 0
    BY DEF Top
  <2>3. NoSummary.count = 0 /\ NoSummary \in Summaries
    BY <1>8 DEF NoSummary, NoPanels, PanelRecord
  <2> QED
    BY <2>1, <2>2, <2>3 DEF LogsAhead
<1>10. board.timeline = Ascending({}) /\ board.watermark = 0 /\ board.summary = NoSummary
       /\ board = [timeline |-> Ascending({}), watermark |-> 0, summary |-> NoSummary]
  BY <1>8, <1>9 DEF Init, BoardOf, NoPanels
<1>11. Ascending({}) \in Seq({}) /\ ToSet(Ascending({})) = {}
  <2>1. {} \in SUBSET (1..0)
    OBVIOUS
  <2> QED
    BY <2>1, AscendingFacts
<1>12. BoardTypes
  <2>1. Ascending({}) \in Seq(Sequences_)
    BY <1>11
  <2> QED
    BY <1>1, <1>9, <1>10, <2>1 DEF BoardTypes
<1>13. BoardFollows
  <2>1. TimelineComplete
    BY <1>10 DEF TimelineComplete
  <2>2. ~rolledBack /\ ~stream["dashboard"].up /\ cursor["dashboard"] = 0 /\ phase # "live"
    BY <1>4 DEF Init, Followers
  <2>3. {} \in SUBSET (1..0)
    OBVIOUS
  <2> QED
    BY <1>1, <1>9, <1>10, <2>1, <2>2, <2>3 DEF BoardFollows
<1>14. RowInv
  BY DEF Init, RowInv, RowFits
<1>15. Held
  BY <1>14, <1>2, <1>3, <1>5, <1>6, <1>7, <1>8, <1>12, <1>13 DEF Held, DeliveryInv, ShowInv, PanelInv
<1> QED
  BY <1>15, Parts

\* Counting in order: the frames applied make the board the run's own.
LEMMA Agrees ==
  ASSUME Held
  PROVE  TimelineComplete /\ SummaryAgrees
<1>1. TimelineComplete
  <2>1. ~rolledBack => TimelineComplete
    BY DEF Held, ShowInv, BoardFollows
  <2> QED
    BY <2>1 DEF TimelineComplete
<1>2. SummaryAgrees
  <2> SUFFICES ASSUME ~rolledBack, ~LogsAhead, panels.summary # NoSummary,
                      panels.summary.count = Top(panels.events)
               PROVE  LET shown == ToSet(board.timeline)
                          behind == {s \in shown : s > panels.summary.count}
                      IN /\ board.summary.count = Len(board.timeline)
                         /\ board.summary.lifecycle =
                              LastLifecycle(events, behind, panels.summary.lifecycle)
                         /\ board.summary.lifecycle = "ended" =>
                              \E s \in shown : events[s] = "ended"
    BY DEF SummaryAgrees
  <2> DEFINE top == Top(panels.events)
             wm == board.watermark
  <2>1. PICK shown \in SUBSET (1..wm) : board.timeline = Ascending(shown)
    BY DEF Held, ShowInv, BoardFollows
  <2>2. wm \in Nat /\ top \in Nat /\ top <= wm
    <3>1. wm \in Nat /\ wm >= Top(panels.events \cup panels.logs)
      BY Limits DEF Held, ShowInv, BoardTypes, BoardFollows
    <3>2. PICK t \in 0..Len(events) :
            top = t /\ Top(panels.events \cup panels.logs) \in t..Len(events)
      BY PanelTops DEF Held, ShowInv, PanelInv
    <3>3. Len(events) \in Nat
      BY EventFacts DEF Held
    <3> HIDE DEF top, wm
    <3> QED
      BY <3>1, <3>2, <3>3
  <2>3. Len(board.timeline) = Cardinality(shown) /\ ToSet(board.timeline) = shown
    BY <2>1, <2>2, AscendingFacts
  <2>4. shown = 1..wm
    <3>1. \A s \in 1..wm : s \in shown
      BY <1>1, <2>3 DEF TimelineComplete
    <3> QED
      BY <2>1, <3>1
  <2>5. Cardinality(shown) = wm
    <3>1. 1 \in Int /\ wm \in Int
      BY <2>2
    <3>2. Cardinality(1..wm) = IF 1 > wm THEN 0 ELSE wm - 1 + 1
      BY <3>1, FS_Interval
    <3> HIDE DEF wm
    <3> QED
      BY <2>2, <2>4, <3>2
  <2>6. /\ board.summary.count = top + wm - top
        /\ board.summary.lifecycle =
             LastLifecycle(events, (top + 1)..wm, panels.summary.lifecycle)
        /\ panels.summary.lifecycle = "ended" => EndedBy(1, top)
    BY DEF Held, ShowInv, BoardFollows, PanelInv, PanelsFit
  <2>7. panels.summary.count = top
    OBVIOUS
  <2> HIDE DEF top, wm
  <2>8. {s \in 1..wm : s > top} = (top + 1)..wm /\ (top + 1)..wm \in SUBSET (1..wm)
        /\ top + wm - top = wm /\ 1..top \subseteq 1..wm
    BY <2>2
  <2>9. ASSUME board.summary.lifecycle = "ended"
        PROVE  \E s \in 1..wm : events[s] = "ended"
    <3>1. \/ panels.summary.lifecycle = "ended"
          \/ \E s \in (top + 1)..wm : events[s] = "ended"
      <4> DEFINE other == panels.summary.lifecycle
                 behind == (top + 1)..wm
      <4>1. behind \in SUBSET (1..wm)
        BY <2>8
      <4> HIDE DEF other, behind
      <4>2. \/ LastLifecycle(events, behind, other) = other
            \/ \E s \in behind : events[s] = LastLifecycle(events, behind, other)
        BY <2>2, <4>1, LastFacts
      <4>3. LastLifecycle(events, behind, other) = "ended"
        BY <2>6, <2>9 DEF other, behind
      <4> QED
        BY <4>2, <4>3 DEF other, behind
    <3> QED
      BY <2>6, <2>8, <3>1 DEF EndedBy
  <2> QED
    BY <2>3, <2>4, <2>5, <2>6, <2>7, <2>8, <2>9
<1> QED
  BY <1>1, <1>2

-----------------------------------------------------------------------------
LEMMA Invariance == Spec => []IInv
<1>1. Init => IInv
  BY InitHolds
<1>2. IInv /\ [Next]_vars => IInv'
  BY NextKeeps
<1> QED
  BY <1>1, <1>2, PTL DEF Spec

\* The numbers of the events, every connection and the dashboard's state keep
\* their types; no connection starts behind its follower's cursor.
THEOREM TypeCorrect == Spec => []TypeOK
<1>1. IInv => TypeOK
  BY DEF IInv
<1> QED
  BY <1>1, Invariance, PTL

\* However transactions overlap and connections break, `runs events --follow`
\* prints every committed event once and in order.
THEOREM PrintsEachOnce == Spec => []FollowedOnce
<1>1. IInv => FollowedOnce
  BY DEF IInv, PrintsInOrder
<1> QED
  BY <1>1, Invariance, PTL

\* The dashboard's merge of pages and frames: a live board misses no event below
\* its watermark, its counter and its lifecycle are those of the events it shows,
\* and a run it calls ended has its ending among them, except where
\* the logs panel ran ahead or the board was reset behind the stream.
THEOREM BoardIsTheRuns == Spec => []BoardExact
<1>1. IInv => BoardExact
  BY Parts, Agrees DEF BoardExact
<1> QED
  BY <1>1, Invariance, PTL

-----------------------------------------------------------------------------
(* The feed.                                                               *)

\* A transaction that commits adds what it has appended, and changes nothing else.
LEMMA CommitsToFeed ==
  ASSUME NumbersInOrder, NEW w \in Writers, EndTransaction(w, TRUE)
  PROVE  /\ events' \in Seq(Kinds)
         /\ Len(events) < Len(events')
         /\ \A i \in 1..Len(events) : events'[i] = events[i]
<1> DEFINE n == Len(events)
           all == Joined(events, open[w])
<1>1. PICK last \in n..MaxEvents :
        open[w] \in [(n + 1)..last -> Kinds] /\ DOMAIN open[w] = (n + 1)..last
  BY OpenFacts
<1>2. n \in Nat /\ DOMAIN events = 1..n /\ last \in Nat /\ events' = all /\ open[w] # <<>>
  BY <1>1, EventFacts, Limits DEF EndTransaction
<1>3. n < last
  <2>1. CASE n = last
    <3>1. (n + 1)..last = {}
      <4> HIDE DEF n
      <4> QED
        BY <1>2, <2>1
    <3>2. open[w] = [s \in {} |-> "log"]
      BY <1>1, <3>1
    <3>3. open[w] = <<>>
      BY <3>2
    <3> QED
      BY <1>2, <3>3
  <2> HIDE DEF n
  <2> QED
    BY <1>1, <1>2, <2>1
<1>4. 1..n \cup (n + 1)..last = 1..last /\ last \in (n + 1)..last
  <2> HIDE DEF n
  <2> QED
    BY <1>1, <1>2, <1>3
<1>5. all = [s \in 1..last |-> IF s \in 1..n THEN events[s] ELSE open[w][s]]
  BY <1>1, <1>2, <1>4 DEF Joined
<1>6. events' \in Seq(Kinds)
  BY EndKeepsNumbers DEF NumbersInOrder
<1>7. DOMAIN events' = 1..last /\ Len(events') = last
  <2>1. DOMAIN all = 1..last
    BY <1>5
  <2> HIDE DEF all
  <2> QED
    BY <1>2, <1>6, <2>1
<1>8. \A i \in 1..n : events'[i] = events[i]
  BY <1>2, <1>4, <1>5
<1> HIDE DEF n, all
<1>9. n < Len(events')
  BY <1>3, <1>7
<1> QED
  BY <1>6, <1>8, <1>9 DEF n

\* The CLI has printed a prefix of the events.
PrintedPrefix ==
  /\ Len(printed) \in Nat /\ Len(printed) <= Len(events)
  /\ \A i \in 1..Len(printed) : printed[i] = i
  /\ printedEvents \in Seq(Kinds) /\ Len(printedEvents) = Len(printed)
  /\ \A i \in 1..Len(printed) : printedEvents[i] = events[i]

LEMMA PrintedFacts == IInv => PrintedPrefix
<1> SUFFICES ASSUME IInv PROVE PrintedPrefix
  OBVIOUS
<1>1. Len(printed) \in Nat /\ Len(printed) <= Len(events)
  BY DEF IInv, TypeOK, PrintsInOrder, FramesInOrder, Followers
<1>2. \A i \in 1..Len(printed) : printed[i] = i
  BY DEF IInv, PrintsInOrder, FollowedOnce
<1>3. Len(events) \in Nat /\ \A i \in 1..Len(events) : events[i] \in Kinds
  BY EventFacts DEF IInv
<1>4. \A i \in 1..Len(printed) : i \in 1..Len(events)
  BY <1>1, <1>3
<1>5. printedEvents = [i \in 1..Len(printed) |-> events[i]]
  BY <1>2 DEF printedEvents
<1>6. printedEvents \in [1..Len(printed) -> Kinds]
  BY <1>3, <1>4, <1>5
<1> QED
  BY <1>1, <1>2, <1>5, <1>6 DEF PrintedPrefix

\* While nothing is printed, what was printed stays, whatever is committed.
LEMMA PrintedKept ==
  ASSUME IInv, EventsGrow, printed' = printed
  PROVE  printedEvents' = printedEvents
<1>1. \A i \in 1..Len(printed) : printed[i] = i /\ i \in 1..Len(events)
  BY PrintedFacts, EventFacts DEF IInv, PrintedPrefix
<1>2. \A i \in 1..Len(printed) : events'[printed[i]] = events[printed[i]]
  BY <1>1 DEF EventsGrow
<1> QED
  BY <1>2 DEF printedEvents

LEMMA WriteLineFeeds ==
  ASSUME IInv, IInv', WriteLine
  PROVE  Feed!Deliver
<1> DEFINE n == Len(printed)
<1>1. /\ n \in Nat /\ Len(printed') = n + 1 /\ events' = events
  <2>1. printed \in Seq(Sequences_) /\ printed' = Append(printed, Head(stream["cli"].frames))
    BY DEF IInv, TypeOK, WriteLine
  <2> QED
    BY <2>1 DEF WriteLine, eventVars
<1>2. /\ printedEvents \in Seq(Kinds) /\ Len(printedEvents) = n
      /\ \A i \in 1..n : printedEvents[i] = events[i]
  BY PrintedFacts DEF PrintedPrefix
<1>3. /\ Len(printed') <= Len(events')
      /\ printedEvents' \in Seq(Kinds) /\ Len(printedEvents') = Len(printed')
      /\ \A i \in 1..Len(printed') : printedEvents'[i] = events'[i]
  <2>1. PrintedPrefix'
    BY PrintedFacts, PTL
  <2> QED
    BY <2>1 DEF PrintedPrefix
<1>4. Len(events) \in Nat
  BY EventFacts DEF IInv
<1> HIDE DEF n
<1>5. n < Len(events)
  BY <1>1, <1>3, <1>4
<1>6. events[n + 1] \in Kinds
  BY <1>1, <1>4, <1>5, EventFacts DEF IInv
<1> DEFINE longer == Append(printedEvents, events[n + 1])
<1>7. /\ longer \in Seq(Kinds) /\ Len(longer) = n + 1
      /\ \A i \in 1..(n + 1) : longer[i] = events[i]
  BY <1>1, <1>2, <1>6
<1>8. printedEvents' \in Seq(Kinds) /\ Len(printedEvents') = n + 1
      /\ \A i \in 1..(n + 1) : printedEvents'[i] = events[i]
  BY <1>1, <1>3
<1> HIDE DEF longer
<1>9. printedEvents' = longer
  BY <1>7, <1>8
<1> QED
  BY <1>1, <1>2, <1>5, <1>9 DEF Feed!Deliver, longer

LEMMA FeedStep ==
  ASSUME IInv, IInv', [Next]_vars
  PROVE  [Feed!Commit \/ Feed!Deliver]_(Feed!vars)
<1>1. NumbersInOrder /\ Len(events) \in Nat
  BY EventFacts DEF IInv
<1>2. ASSUME NEW w \in Writers, EndTransaction(w, TRUE) PROVE Feed!Commit
  <2>1. EventsGrow
    BY <1>1, <1>2, EndKeepsNumbers
  <2>2. printedEvents' = printedEvents
    BY <1>2, <2>1, PrintedKept DEF EndTransaction
  <2> QED
    BY <1>1, <1>2, <2>2, CommitsToFeed DEF Feed!Commit
<1>3. CASE WriteLine
  BY <1>3, WriteLineFeeds
<1>4. ASSUME events' = events, printed' = printed PROVE UNCHANGED Feed!vars
  BY <1>4 DEF printedEvents, Feed!vars
<1>5. ASSUME NEW w \in Writers, NEW kind \in Kinds, AppendEvent(w, kind)
      PROVE  events' = events /\ printed' = printed
  BY <1>5 DEF AppendEvent
<1>6. ASSUME NEW w \in Writers, EndTransaction(w, FALSE)
      PROVE  events' = events /\ printed' = printed
  BY <1>6 DEF EndTransaction
<1>7. CASE \E f \in Followers : StartFollower(f) \/ Connect(f) \/ Poll(f) \/ Drop(f)
  BY <1>4, <1>7 DEF StartFollower, Connect, Poll, Drop, eventVars
<1>8. CASE ApplyFrame \/ Refresh \/ UNCHANGED vars
  BY <1>4, <1>8 DEF ApplyFrame, Refresh, vars, eventVars
<1>10. CASE Cancel \/ CancelAccepted \/ CancelForgotten
  BY <1>4, <1>10 DEF Cancel, CancelAccepted, CancelForgotten, eventVars
<1>9. CASE \E fails \in BOOLEAN :
             Load(fails) \/ \E panel \in {"summary", "events", "logs"} : Retry(panel, fails)
  BY <1>4, <1>9 DEF Load, Retry, eventVars
<1> QED
  BY <1>2, <1>3, <1>4, <1>5, <1>6, <1>7, <1>8, <1>9, <1>10 DEF Next

\* Row locks on the writers' side, batches, boundaries and cursors on the
\* readers' side add up to a log that only grows, by whole transactions, and a
\* reader that gets it event by event (event-repository.ts 36-52, stream route
\* and `runs events --follow`).
THEOREM FollowingIsAFeed == Spec => FollowsFeed
<1>1. Init => Feed!Init
  BY DEF Init, Feed!Init, printedEvents
<1>2. IInv /\ IInv' /\ [Next]_vars => [Feed!Commit \/ Feed!Deliver]_(Feed!vars)
  BY FeedStep
<1> QED
  BY <1>1, <1>2, Invariance, PTL DEF Spec, FollowsFeed, Feed!Spec

=============================================================================
