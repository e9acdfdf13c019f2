----------------------------- MODULE EventStream -----------------------------
(***************************************************************************)
(* The events of one run, from their sequence numbers to the two clients   *)
(* that follow them.  Writers append in transactions; the stream route     *)
(* polls for sequences behind a boundary; `runs events --follow` prints    *)
(* what it receives and resumes from its last cursor; the dashboard loads  *)
(* its panels one request after the other, opens the stream where its page *)
(* of events ended, and merges the frames into what the panels gave it.    *)
(*                                                                         *)
(* An event is known by its sequence.  A cursor is the sequence it         *)
(* encodes, 0 for none, and frames in flight are those of a connection.    *)
(***************************************************************************)
EXTENDS Naturals, Sequences, FiniteSets, SequencesExt

CONSTANTS
  Kinds,        \* what an event can be: "log" is what the logs route returns
  Writers,      \* transactions that append: a step, a control request
  PageLimit,    \* EVENTS_DEFAULT_LIMIT
  BatchLimit,   \* STREAM_BATCH_LIMIT
  MaxFollowers, \* bound: followers at once; they do not touch each other
  MaxEvents,    \* bound: events of the run
  MaxDrops,     \* bound: lost connections
  MaxReloads    \* bound: failed panels, retries, cancels and refreshes

ASSUME LimitAssumption ==
  /\ {PageLimit, BatchLimit} \subseteq Nat \ {0}
  /\ {MaxFollowers, MaxEvents, MaxDrops, MaxReloads} \subseteq Nat

Followers == {"cli", "dashboard"}

\* The kinds whose frame sets a lifecycle: workflow.cancelling, and the endings.
\* Those of a pause, a resumption or a recovery set theirs in the same way;
\* workflow.started, .resumed and .recovered set none.
LifecycleKinds == {"cancelling", "ended"}

Sequences_ == 1..MaxEvents

VARIABLES
  events,      \* committed events: the kind of each sequence
  open,        \* what each writer's transaction has appended
  row,         \* the lifecycle in the run's row
  started,     \* followers somebody has started
  stream,      \* each follower's connection: its boundary and frames in flight
  cursor,      \* each follower's last cursor
  printed,     \* what the CLI has printed
  phase,       \* the panel the dashboard loads next, or "live"
  panels,      \* what its requests returned
  board,       \* streamState, which the dashboard shows
  isCancelling, \* the dashboard has sent a cancel request and has no answer
  drops, reloads,
  rolledBack   \* history: the board was reset behind the open stream

eventVars == <<events, open, row>>
boardVars == <<phase, panels, board, isCancelling, rolledBack>>
vars == <<eventVars, started, stream, cursor, printed, boardVars, drops, reloads>>

Top(sequences) == IF sequences = {} THEN 0 ELSE CHOOSE s \in sequences : \A t \in sequences : t <= s

Ascending(sequences) ==
  [i \in 1..Cardinality(sequences) |->
     CHOOSE s \in sequences : Cardinality({t \in sequences : t < s}) = i - 1]

\* The lifecycle of the last of these events that sets one, else otherwise.
LastLifecycle(rows, sequences, otherwise) ==
  LET marks == {s \in sequences : rows[s] \in LifecycleKinds}
  IN IF marks = {} THEN otherwise ELSE rows[Top(marks)]

Closed == [up |-> FALSE, boundary |-> 0, frames |-> <<>>]

NoSummary == [lifecycle |-> "none", count |-> 0]
NoPanels == [summary |-> NoSummary, events |-> {}, next |-> 0, logs |-> {}]

Summaries == [lifecycle : {"none", "running", "cancelling", "ended"}, count : 0..(2 * MaxEvents)]

TypeOK ==
  /\ DOMAIN events \subseteq Sequences_ /\ Range(events) \subseteq Kinds
  /\ \A w \in Writers : DOMAIN open[w] \subseteq Sequences_ /\ Range(open[w]) \subseteq Kinds
  /\ row \in {"running", "cancelling", "ended"}
  /\ started \subseteq Followers
  /\ stream \in [Followers -> [up : BOOLEAN, boundary : 0..MaxEvents, frames : Seq(Sequences_)]]
  /\ cursor \in [Followers -> 0..MaxEvents]
  /\ \A f \in Followers : stream[f].up => cursor[f] <= stream[f].boundary
  /\ printed \in Seq(Sequences_)
  /\ phase \in {"summary", "events", "logs", "live"}
  /\ panels \in [summary : Summaries, events : SUBSET Sequences_,
                 next : 0..MaxEvents, logs : SUBSET Sequences_]
  /\ board \in [timeline : Seq(Sequences_), watermark : 0..MaxEvents, summary : Summaries]
  /\ isCancelling \in BOOLEAN
  /\ drops \in 0..MaxDrops
  /\ reloads \in 0..MaxReloads
  /\ rolledBack \in BOOLEAN

\* createStreamDashboardState: the watermark is the top of events and of logs.
BoardOf(given) ==
  [timeline |-> Ascending(given.events),
   watermark |-> Top(given.events \cup given.logs),
   summary |-> given.summary]

Init ==
  /\ events = <<>>
  /\ open = [w \in Writers |-> <<>>]
  /\ row = "running"
  /\ started = {}
  /\ stream = [f \in Followers |-> Closed]
  /\ cursor = [f \in Followers |-> 0]
  /\ printed = <<>>
  /\ phase = "summary"
  /\ panels = NoPanels
  /\ board = BoardOf(NoPanels)
  /\ isCancelling = FALSE
  /\ drops = 0
  /\ reloads = 0
  /\ rolledBack = FALSE

-----------------------------------------------------------------------------
(* Writers.                                                                *)

\* Nobody else has the row lock of the run, which a transaction takes before
\* its first append and keeps to its end.
RowFree(w) == \A v \in Writers \ {w} : open[v] = <<>>

\* Rows of both, known by their sequences.
Joined(rows, more) ==
  [s \in DOMAIN rows \cup DOMAIN more |-> IF s \in DOMAIN rows THEN rows[s] ELSE more[s]]

AppendFromGenerator(w, kind) ==
  LET next == Top(DOMAIN events \cup UNION {DOMAIN open[v] : v \in Writers}) + 1 IN
  /\ next <= MaxEvents
  /\ open' = [open EXCEPT ![w] = Joined(@, [s \in {next} |-> kind])]
  /\ UNCHANGED <<started, events, row, stream, cursor, printed, boardVars, drops, reloads>>

\* MAX(sequence) + 1 over what the transaction sees, under the row lock.
AppendEvent(w, kind) ==
  LET next == Top(DOMAIN events \cup DOMAIN open[w]) + 1 IN
  /\ RowFree(w)
  /\ next <= MaxEvents
  /\ open' = [open EXCEPT ![w] = Joined(@, [s \in {next} |-> kind])]
  /\ UNCHANGED <<started, events, row, stream, cursor, printed, boardVars, drops, reloads>>

\* The row a commit leaves: the lifecycle of its last event that has one; else a
\* step may write back the "running" it read.
RowsAfter(w) ==
  {LastLifecycle(open[w], DOMAIN open[w], otherwise) : otherwise \in {row, "running"}}

EndTransaction(w, commits) ==
  /\ open[w] # <<>>
  /\ IF commits
     THEN /\ events' = Joined(events, open[w])
          /\ row' \in RowsAfter(w)
     ELSE UNCHANGED <<events, row>>
  /\ open' = [open EXCEPT ![w] = <<>>]
  /\ UNCHANGED <<started, stream, cursor, printed, boardVars, drops, reloads>>

-----------------------------------------------------------------------------
(* The stream route, and the connections to it.                            *)

\* The rows behind the boundary, in order, as many as limit allows.
RowsBehind(boundary, limit) ==
  LET rows == Ascending({s \in DOMAIN events : s > boundary})
  IN IF Len(rows) > limit THEN SubSeq(rows, 1, limit) ELSE rows

\* One turn of the loop that finds rows; writing them is not interrupted.
Poll(f) ==
  LET rows == RowsBehind(stream[f].boundary, BatchLimit) IN
  /\ stream[f].up
  /\ rows # <<>>
  /\ stream' = [stream EXCEPT ![f].frames = @ \o rows, ![f].boundary = Last(rows)]
  /\ UNCHANGED <<eventVars, started, cursor, printed, boardVars, drops, reloads>>

Following(f) == f \in started /\ (f = "dashboard" => phase = "live")

StartFollower(f) ==
  /\ f \notin started
  /\ Cardinality(started) < MaxFollowers
  /\ started' = started \cup {f}
  /\ UNCHANGED <<eventVars, stream, cursor, printed, boardVars, drops, reloads>>

OpenedFromStart(from) == [up |-> TRUE, boundary |-> 0, frames |-> <<>>]

\* resolveStreamBoundary turns the cursor into the loop's boundary.
Opened(from) == [up |-> TRUE, boundary |-> from, frames |-> <<>>]

Connect(f) ==
  /\ Following(f)
  /\ ~stream[f].up
  /\ stream' = [stream EXCEPT ![f] = Opened(cursor[f])]
  /\ UNCHANGED <<eventVars, started, cursor, printed, boardVars, drops, reloads>>

DropUnnoticed(f) ==
  /\ stream[f].up
  /\ drops < MaxDrops
  /\ drops' = drops + 1
  /\ stream' = [stream EXCEPT ![f].frames = <<>>]
  /\ UNCHANGED <<eventVars, started, cursor, printed, boardVars, reloads>>

\* The connection is lost with what is in flight; the follower comes back
\* after a delay.
Drop(f) ==
  /\ stream[f].up
  /\ drops < MaxDrops
  /\ drops' = drops + 1
  /\ stream' = [stream EXCEPT ![f] = Closed]
  /\ UNCHANGED <<eventVars, started, cursor, printed, boardVars, reloads>>

Taken(f) == [stream EXCEPT ![f].frames = Tail(@)]

\* The CLI: the cursor of each frame, then its line.
WriteLine ==
  /\ stream["cli"].frames # <<>>
  /\ cursor' = [cursor EXCEPT !["cli"] = Head(stream["cli"].frames)]
  /\ printed' = Append(printed, Head(stream["cli"].frames))
  /\ stream' = Taken("cli")
  /\ UNCHANGED <<eventVars, started, boardVars, drops, reloads>>

-----------------------------------------------------------------------------
(* The dashboard.                                                          *)

\* updateSummary, for a run whose summary the board has.
UpdatedSummary(summary, kind) ==
  IF summary = NoSummary THEN NoSummary
  ELSE [lifecycle |-> IF kind \in LifecycleKinds THEN kind ELSE summary.lifecycle,
        count |-> summary.count + 1]

AcceptsFromPage(sequence) == sequence > Top(panels.events)

\* Frames up to the watermark are duplicates.
Accepts(sequence) == sequence > board.watermark

\* applyStreamFrame.  The cursor follows an accepted frame if React has run the
\* updater before onFrame returns, which it does only when nothing is queued.
ApplyFrame ==
  LET sequence == Head(stream["dashboard"].frames) IN
  /\ stream["dashboard"].frames # <<>>
  /\ stream' = Taken("dashboard")
  /\ IF Accepts(sequence)
     THEN /\ board' = [timeline |-> Ascending(ToSet(board.timeline) \cup {sequence}),
                       watermark |-> sequence,
                       summary |-> UpdatedSummary(board.summary, events[sequence])]
          /\ \E follows \in BOOLEAN :
               cursor' = [cursor EXCEPT !["dashboard"] = IF follows THEN sequence ELSE @]
     ELSE UNCHANGED <<board, cursor>>
  /\ UNCHANGED <<eventVars, started, printed, phase, panels, isCancelling, rolledBack,
                 drops, reloads>>

\* The row and the counters as of now.
Summary == [lifecycle |-> row, count |-> Cardinality(DOMAIN events)]

PageItems == ToSet(RowsBehind(0, PageLimit))

\* nextCursor, when one row more than the limit was there.
PageNext == IF Cardinality(DOMAIN events) > PageLimit THEN Top(PageItems) ELSE 0

LogItems == {s \in DOMAIN events : events[s] = "log"}

Loaded(panel) ==
  CASE panel = "summary" -> [panels EXCEPT !.summary = Summary]
    [] panel = "events" -> [panels EXCEPT !.events = PageItems, !.next = PageNext]
    [] panel = "logs" -> [panels EXCEPT !.logs = LogItems]

Emptied(panel) ==
  CASE panel = "summary" -> [panels EXCEPT !.summary = NoSummary]
    [] panel = "events" -> [panels EXCEPT !.events = {}, !.next = 0]
    [] panel = "logs" -> [panels EXCEPT !.logs = {}]

\* The effect on the panels: the board starts over from them.  Another next
\* cursor closes the stream and opens it there; otherwise it stays as it is.
Show(given) ==
  LET reopened == given.next # panels.next IN
  /\ panels' = given
  /\ board' = BoardOf(given)
  /\ IF phase # "live"
     THEN UNCHANGED <<stream, cursor, rolledBack>>
     ELSE IF reopened
     THEN /\ stream' = [stream EXCEPT !["dashboard"] = Closed]
          /\ cursor' = [cursor EXCEPT !["dashboard"] = given.next]
          /\ rolledBack' = FALSE
     ELSE /\ rolledBack' = (rolledBack \/ BoardOf(given).watermark < board.watermark)
          /\ UNCHANGED <<stream, cursor>>

\* runInitialSnapshot: the panels one after the other, whether or not a request
\* fails, then the stream.
Load(fails) ==
  /\ "dashboard" \in started
  /\ phase # "live"
  /\ fails => reloads < MaxReloads
  /\ reloads' = IF fails THEN reloads + 1 ELSE reloads
  /\ panels' = IF fails THEN panels ELSE Loaded(phase)
  /\ board' = BoardOf(panels')
  /\ phase' = CASE phase = "summary" -> "events"
                [] phase = "events" -> "logs"
                [] phase = "logs" -> "live"
  /\ cursor' = [cursor EXCEPT !["dashboard"] = panels'.next]
  /\ UNCHANGED <<eventVars, started, stream, printed, isCancelling, rolledBack, drops>>

\* retryPanel, by the button of a failed panel or by applying a filter.
Retry(panel, fails) ==
  /\ phase = "live"
  /\ reloads < MaxReloads
  /\ reloads' = reloads + 1
  /\ Show(IF fails THEN Emptied(panel) ELSE Loaded(panel))
  /\ UNCHANGED <<eventVars, started, printed, phase, isCancelling, drops>>

\* cancelRun, when the summary has a lifecycle that can be cancelled.
Cancel ==
  /\ phase = "live"
  /\ panels.summary.lifecycle = "running"
  /\ ~isCancelling
  /\ reloads < MaxReloads
  /\ reloads' = reloads + 1
  /\ isCancelling' = TRUE
  /\ UNCHANGED <<eventVars, started, stream, cursor, printed, phase, panels, board,
                 rolledBack, drops>>

\* Its answer follows the commit of its event and changes the summary panel, if
\* that is there now, and so the board.
CancelAccepted ==
  /\ isCancelling /\ phase = "live"
  /\ "cancelling" \in Range(events)
  /\ panels.summary # NoSummary
  /\ isCancelling' = FALSE
  /\ Show([panels EXCEPT !.summary.lifecycle = "cancelling"])
  /\ UNCHANGED <<eventVars, started, printed, phase, drops, reloads>>

\* The request fails, or its answer finds no summary.
CancelForgotten ==
  /\ isCancelling
  /\ isCancelling' = FALSE
  /\ UNCHANGED <<eventVars, started, stream, cursor, printed, phase, panels, board,
                 rolledBack, drops, reloads>>

\* refreshAll: the stream is closed and everything is loaded again.
Refresh ==
  /\ phase = "live"
  /\ reloads < MaxReloads
  /\ reloads' = reloads + 1
  /\ phase' = "summary"
  /\ panels' = NoPanels
  /\ board' = BoardOf(NoPanels)
  /\ stream' = [stream EXCEPT !["dashboard"] = Closed]
  /\ cursor' = [cursor EXCEPT !["dashboard"] = 0]
  /\ rolledBack' = FALSE
  /\ UNCHANGED <<eventVars, started, printed, isCancelling, drops>>

Next ==
  \/ \E w \in Writers :
       \/ \E kind \in Kinds : AppendEvent(w, kind)
       \/ \E commits \in BOOLEAN : EndTransaction(w, commits)
  \/ \E f \in Followers : StartFollower(f) \/ Connect(f) \/ Poll(f) \/ Drop(f)
  \/ WriteLine \/ ApplyFrame
  \/ \E fails \in BOOLEAN :
       Load(fails) \/ \E panel \in {"summary", "events", "logs"} : Retry(panel, fails)
  \/ Cancel \/ CancelAccepted \/ CancelForgotten \/ Refresh

Spec == Init /\ [][Next]_vars

\* The poll loop and the clients' timers and readers run by themselves; nobody
\* is bound to append.
FairSpec ==
  /\ Spec
  /\ WF_vars(Connect("cli") \/ Poll("cli") \/ WriteLine)
  /\ WF_vars(Connect("dashboard") \/ Poll("dashboard") \/ ApplyFrame
             \/ \E fails \in BOOLEAN : Load(fails))

-----------------------------------------------------------------------------
\* Whatever transactions overlap and connections break, --follow prints every
\* committed event once and in order, from the first one on.
FollowedOnce == printed = [i \in 1..Len(printed) |-> i]

\* The logs panel was read later than the page of events and covers more.
LogsAhead == Top(panels.logs) > Top(panels.events)

\* The board shows every event up to its watermark, except between its page and
\* the top of its logs, unless it was reset behind the stream.
TimelineComplete ==
  ~rolledBack =>
    \A s \in 1..board.watermark :
      \/ s \in ToSet(board.timeline)
      \/ LogsAhead /\ Top(panels.events) < s /\ s <= Top(panels.logs)

\* Where summary and page were read at the same point, the board's counter is the
\* length of its timeline, and its lifecycle the one its summary was read with, as
\* the events behind it have changed it.
SummaryAgrees ==
  ~rolledBack /\ ~LogsAhead /\ panels.summary # NoSummary
  /\ panels.summary.count = Top(panels.events) =>
    LET shown == ToSet(board.timeline)
        behind == {s \in shown : s > panels.summary.count}
    IN /\ board.summary.count = Len(board.timeline)
       /\ board.summary.lifecycle = LastLifecycle(events, behind, panels.summary.lifecycle)
       /\ board.summary.lifecycle = "ended" => \E s \in shown : events[s] = "ended"

\* The live view is the run's own: no event below the watermark is missing, the
\* summary is that of the events shown, and an ended run has its ending there.
BoardExact == phase = "live" => TimelineComplete /\ SummaryAgrees

Reached(f) ==
  CASE f = "cli" -> Len(printed)
    [] f = "dashboard" -> board.watermark

\* Whenever the writers pause, every committed event reaches every follower that
\* was started, unless the board was reset behind the stream.
CatchesUp ==
  []<>(\A f \in started, s \in DOMAIN events :
         s <= Reached(f) \/ (f = "dashboard" /\ rolledBack))

\* The events the CLI has printed.
printedEvents == [i \in 1..Len(printed) |-> events[printed[i]]]

Feed ==
  INSTANCE EventFeed
    WITH Events <- Kinds, feed <- events, delivered <- printedEvents

\* Transactions, polls, cursors and lost connections make no difference to the
\* reader: it gets the events of a log that only grows, one after the other.
FollowsFeed == Feed!Spec

-----------------------------------------------------------------------------
(* What makes the safety properties inductive.                             *)

\* The committed sequences have no gap, and one transaction at most has
\* appended more: the sequences that follow.
NumbersInOrder ==
  /\ events \in Seq(Kinds)
  /\ Len(events) <= MaxEvents
  /\ open \in [Writers -> UNION {[(Len(events) + 1)..last -> Kinds] :
                                   last \in Len(events)..MaxEvents}]
  /\ \A w \in Writers : open[w] # <<>> => RowFree(w)

\* How far a connection's frames have been taken.
Taken_(f) == stream[f].boundary - Len(stream[f].frames)

\* The frames in flight are the rows up to the boundary, and the cursor is not
\* ahead of them.
FramesInOrder ==
  \A f \in Followers :
    /\ cursor[f] <= Len(events)
    /\ ~stream[f].up => stream[f] = Closed
    /\ stream[f].up =>
         /\ stream[f].boundary <= Len(events)
         /\ cursor[f] <= Taken_(f)
         /\ \A i \in 1..Len(stream[f].frames) : stream[f].frames[i] = Taken_(f) + i

\* What has been printed ends where the cursor is and the frames go on.
PrintsInOrder ==
  /\ FollowedOnce
  /\ cursor["cli"] = Len(printed)
  /\ stream["cli"].up => Taken_("cli") = Len(printed)

EndedBy(first, last) == \E s \in first..last : events[s] = "ended"

\* A row that has ended has its ending in the log.
RowFits == row = "ended" => EndedBy(1, Len(events))

\* The panels show a prefix of the events, logs among the events there are, and
\* the summary of a prefix.
PanelsFit(given) ==
  /\ \E top \in 0..Len(events) : given.events = 1..top /\ given.next \in {0, top}
  /\ given.logs \subseteq 1..Len(events)
  /\ given.summary.count <= Len(events)
  /\ given.summary # NoSummary => /\ given.summary.lifecycle # "none"
                                  /\ given.summary.lifecycle = "ended" =>
                                       EndedBy(1, given.summary.count)

\* The board goes on from its panels, one event after the other.
BoardFollows ==
  /\ board.watermark <= Len(events)
  /\ board.watermark >= Top(panels.events \cup panels.logs)
  /\ \E shown \in SUBSET (1..board.watermark) : board.timeline = Ascending(shown)
  /\ board.summary = NoSummary <=> panels.summary = NoSummary
  /\ board.summary.count <= panels.summary.count + board.watermark
  /\ phase # "live" => ~stream["dashboard"].up /\ ~rolledBack
  /\ ~rolledBack =>
       /\ cursor["dashboard"] <= board.watermark
       /\ stream["dashboard"].up => Taken_("dashboard") <= board.watermark
       /\ TimelineComplete
       /\ ~LogsAhead /\ panels.summary # NoSummary =>
            /\ board.summary.count = panels.summary.count + board.watermark - Top(panels.events)
            /\ board.summary.lifecycle =
                 LastLifecycle(events, (Top(panels.events) + 1)..board.watermark,
                               panels.summary.lifecycle)

IInv ==
  /\ TypeOK
  /\ NumbersInOrder
  /\ RowFits
  /\ FramesInOrder
  /\ PrintsInOrder
  /\ PanelsFit(panels)
  /\ BoardFollows

=============================================================================
