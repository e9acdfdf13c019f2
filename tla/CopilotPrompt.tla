---------------------------- MODULE CopilotPrompt ----------------------------
(***************************************************************************)
(* One delegation to app-builder.copilot.prompt.v1: a copilot process is   *)
(* spawned, and one session holds the prompt, then a request for JSON that *)
(* fits the output schema, repeated while the reply does not fit.  All     *)
(* exchanges write to one transcript; the text of an exchange is the part  *)
(* behind the offset taken before it.  A timer runs over the whole of it.  *)
(* When it fires, stdin is ended and SIGTERM sent at once, and the         *)
(* rejection follows when the process exits or two seconds later: until    *)
(* then a reply that was under way still counts.                           *)
(*                                                                         *)
(* The agent is outside: it replies, streams text before its reply, exits  *)
(* or stays silent as it likes.                                            *)
(***************************************************************************)
EXTENDS Naturals, Sequences

CONSTANTS
  MaxRetries,   \* MAX_SCHEMA_RETRIES
  MaxChunks     \* bound: chunks of text in one exchange

ASSUME PromptAssumption == MaxRetries \in Nat /\ MaxChunks \in Nat

VARIABLES
  step,         \* where executeWithCopilotAcp is
  attempt,      \* of the follow-up
  sent,         \* the request at hand reached the agent
  process,      \* the copilot process
  timer,        \* the timeout of the whole execution
  transcript,   \* the exchange each chunk of text belongs to
  offset,       \* transcript length when the exchange began
  outcome       \* what the execution settled to

promptVars == <<step, attempt, sent, process, timer, transcript, offset, outcome>>

Exchanges == {"initialize", "newSession", "prompt", "followUp"}

Outcomes == {"none", "valid", "exhausted", "error", "timeout"}

PromptTypeOK ==
  /\ step \in Exchanges \cup {"idle", "terminating", "returned"}
  /\ attempt \in 0..MaxRetries
  /\ sent \in BOOLEAN
  /\ process \in {"none", "running", "signalled", "exited"}
  /\ timer \in {"off", "armed", "fired"}
  /\ transcript \in Seq(0..(MaxRetries + 2))
  /\ offset \in 0..Len(transcript)
  /\ outcome \in Outcomes

PromptInit ==
  /\ step = "idle"
  /\ attempt = 0
  /\ sent = FALSE
  /\ process = "none"
  /\ timer = "off"
  /\ transcript = <<>>
  /\ offset = 0
  /\ outcome = "none"

\* stdin is ended exactly when the process has been signalled.
Writable == process = "running"

\* A number for the exchange at hand; only the last two kinds produce text.
Exchange ==
  CASE step = "prompt" -> 1
    [] step = "followUp" -> attempt + 2
    [] OTHER -> 0

Replied == sent /\ process # "exited"

\* spawn, and the first request.
Spawn ==
  /\ step = "idle"
  /\ step' = "initialize"
  /\ attempt' = 0
  /\ sent' = TRUE
  /\ process' = "running"
  /\ timer' = "armed"
  /\ transcript' = <<>>
  /\ offset' = 0
  /\ outcome' = "none"

\* sessionUpdate with a text chunk; it comes before the reply it belongs to.
StreamChunk ==
  /\ step \in {"prompt", "followUp"}
  /\ Replied
  /\ Len(transcript) - offset < MaxChunks
  /\ transcript' = Append(transcript, Exchange)
  /\ UNCHANGED <<step, attempt, sent, process, timer, offset, outcome>>

TakeOffsetOnce == IF offset = 0 THEN Len(transcript) ELSE offset

TakeOffset == Len(transcript)

\* The next request of the session.
Exchanged ==
  /\ Replied
  /\ step' = CASE step = "initialize" -> "newSession"
               [] step = "newSession" -> "prompt"
               [] step = "prompt" -> "followUp"
               [] OTHER -> step
  /\ step \in {"initialize", "newSession", "prompt"}
  /\ offset' = TakeOffset
  /\ sent' = Writable
  /\ UNCHANGED <<attempt, process, timer, transcript, outcome>>

SettleUnterminated(result) ==
  /\ outcome' = result
  /\ sent' = FALSE
  /\ timer' = IF timer = "armed" THEN "off" ELSE timer
  /\ step' = "returned"
  /\ UNCHANGED <<attempt, process, transcript, offset>>

\* The promise settles: its timer is cleared, and the finally block terminates
\* the process unless the timer has done so.
Settle(result) ==
  /\ outcome' = result
  /\ sent' = FALSE
  /\ IF timer = "fired"
     THEN step' = "returned" /\ UNCHANGED <<process, timer>>
     ELSE /\ step' = "terminating"
          /\ timer' = "off"
          /\ process' = IF process = "running" THEN "signalled" ELSE process
  /\ UNCHANGED <<attempt, transcript, offset>>

\* The reply to a follow-up parses and fits the schema.
AcceptReply ==
  /\ step = "followUp"
  /\ Replied
  /\ Len(transcript) > offset
  /\ Settle("valid")

RejectReplyOnceMore ==
  /\ step = "followUp"
  /\ Replied
  /\ IF attempt <= MaxRetries
     THEN /\ attempt' = attempt + 1
          /\ offset' = TakeOffset
          /\ sent' = Writable
          /\ UNCHANGED <<step, process, timer, transcript, outcome>>
     ELSE Settle("exhausted")

\* It does not, and is asked for again, or it was the last attempt.
RejectReply ==
  /\ step = "followUp"
  /\ Replied
  /\ IF attempt < MaxRetries
     THEN /\ attempt' = attempt + 1
          /\ offset' = TakeOffset
          /\ sent' = Writable
          /\ UNCHANGED <<step, process, timer, transcript, outcome>>
     ELSE Settle("exhausted")

\* The agent answers with an error, or the connection breaks.
ConnectionFails ==
  /\ step \in Exchanges
  /\ Settle("error")

ProcessExits ==
  /\ process \in {"running", "signalled"}
  /\ process' = "exited"
  /\ UNCHANGED <<step, attempt, sent, timer, transcript, offset, outcome>>

TimeoutFires ==
  /\ step \in Exchanges
  /\ timer = "armed"
  /\ timer' = "fired"
  /\ process' = IF process = "running" THEN "signalled" ELSE process
  /\ UNCHANGED <<step, attempt, sent, transcript, offset, outcome>>

TimeoutRejectsOnExit ==
  /\ step \in Exchanges
  /\ timer = "fired"
  /\ process = "exited"
  /\ Settle("timeout")

\* Exit or two seconds after the timeout: the promise is rejected.
TimeoutRejects ==
  /\ step \in Exchanges
  /\ timer = "fired"
  /\ Settle("timeout")

\* Exit or two seconds after SIGTERM; there is no SIGKILL.
TerminateReturns ==
  /\ step = "terminating"
  /\ step' = "returned"
  /\ UNCHANGED <<attempt, sent, process, timer, transcript, offset, outcome>>

PromptStep ==
  \/ StreamChunk \/ Exchanged \/ AcceptReply \/ RejectReply
  \/ ConnectionFails \/ ProcessExits
  \/ TimeoutFires \/ TimeoutRejects \/ TerminateReturns

\* The timers run whatever the agent does.
PromptFairness ==
  /\ WF_promptVars(TimeoutFires)
  /\ WF_promptVars(TimeoutRejects)
  /\ WF_promptVars(TerminateReturns)

-----------------------------------------------------------------------------
\* What is parsed as the reply of an attempt is text of that attempt only: no
\* chunk of the prompt or of an earlier attempt is read again.
OwnText ==
  step \in {"prompt", "followUp"} =>
    \A i \in (offset + 1)..Len(transcript) : transcript[i] = Exchange

\* A delegation returns only with its process gone or told to go, by the timer
\* or by the finally block but not left to neither.
NothingLeftRunning == step \in {"returned", "idle"} => process # "running"

=============================================================================
