------------------------------- MODULE SpecDoc -------------------------------
(***************************************************************************)
(* The app-builder.spec-doc.v1 workflow: integration passes of a           *)
(* specification document, a consistency check after each pass, and the    *)
(* queue of numbered questions a human answers in between, with the detour *)
(* of a free text that turns out to be a question of the human's own.      *)
(*                                                                         *)
(* The variables are the persisted state data of the run, field by field.  *)
(* A state's handler is one step of the orchestrator, so one action: its   *)
(* transition and its data are written together.  A question is asked by a *)
(* feedback child run whose idempotency key names the question, the pass   *)
(* and the attempt; a handler that runs again finds the same child, and    *)
(* the same response.  What a language model returns is a free choice      *)
(* within what its output schema and the handler's checks accept.          *)
(***************************************************************************)
EXTENDS Naturals, Sequences, FiniteSets, Functions

CONSTANTS
  Completion,     \* COMPLETION_CONFIRMATION_QUESTION_ID
  Questions,      \* question ids a consistency check may return, in their order
  FollowUps,      \* question ids an expansion may return
  QuestionTexts,  \* what a human may ask back, normalized
  MaxQuestions,   \* bound: questions of one check
  MaxChecks,      \* bound: consistency checks
  MaxAttempts,    \* bound: attempts at one question
  MaxDetours,     \* bound: attempts at all questions
  MaxAnswers      \* bound: recorded answers

\* Ids are ordered as the queue is sorted.  No schema and no handler keeps a model
\* from returning the id of the completion question.
ASSUME QuestionAssumption ==
  Completion \in Nat /\ Questions \subseteq Nat /\ FollowUps \subseteq Nat

ASSUME BoundAssumption == {MaxQuestions, MaxChecks, MaxAttempts, MaxDetours, MaxAnswers} \subseteq Nat

VARIABLES
  state,         \* the run's current state, or how it ended
  queue,         \* the questions of this pass
  queueIndex,    \* 0-based index of the question at hand
  answers,       \* normalizedAnswers
  deferred,      \* deferredQuestionIds, the top last
  attempts,      \* feedbackRequestAttemptsByQuestionId
  notes,         \* researchNotes: question and text
  pending,       \* pendingClarification: question and text, if any
  stash,         \* stashedActionableItems
  source,        \* the source a transition put into the state data
  items,         \* the actionableItems it put there
  checks,        \* consistencyCheckPasses
  feedback,      \* the feedback children: what each was answered, by its key
  found,         \* history: the latest check has found action items
  passed,        \* history: how many answers there were at the latest integration
  askedBy,       \* history: the question whose detour produced a follow-up
  reserved       \* history: a model has returned the completion question's id

workVars == <<answers, deferred, attempts, notes, pending>>
itemVars == <<stash, source, items, checks, found>>
vars == <<state, queue, queueIndex, answers, deferred, attempts, notes, pending,
          stash, source, items, checks, feedback, found, passed, askedBy, reserved>>

States ==
  {"start", "IntegrateIntoSpec", "LogicalConsistencyCheckCreateFollowUpQuestions",
   "NumberedOptionsHumanRequest", "ClassifyCustomPrompt",
   "ExpandQuestionWithClarification", "Done"}

Ended == {"completed", "failed"}

Ids == Questions \cup FollowUps \cup {Completion}

None == [question |-> Completion, text |-> ""]

\* An answer has the ids of its selected options, at most one here, and says
\* whether free text came with it.
Answers == [question : Ids, options : SUBSET {1, 2}, text : BOOLEAN]

\* What the feedback route accepts: one known option, or text, or both.
Responses ==
  {r \in [options : {{}, {1}, {2}}, text : BOOLEAN] : r.options # {} \/ r.text}

Awaiting == [options |-> {}, text |-> FALSE]

Keys == [question : Ids, pass : 0..MaxChecks, attempt : 0..MaxAttempts]

\* A set of action items is named by the check that found it; 0 is none.
TypeOK ==
  /\ state \in States \cup Ended
  /\ queue \in Seq([id : Ids, answered : BOOLEAN])
  /\ queueIndex \in Nat
  /\ answers \in Seq(Answers)
  /\ deferred \in Seq(Ids)
  /\ attempts \in [Ids -> 0..MaxAttempts]
  /\ notes \subseteq [question : Ids, text : QuestionTexts]
  /\ pending \in [question : Ids, text : QuestionTexts] \cup {None}
  /\ stash \in 0..MaxChecks
  /\ source \in {"unset", "consistency-action-items", "consistency-action-items-with-feedback"}
  /\ items \in 0..MaxChecks
  /\ checks \in 0..MaxChecks
  /\ DOMAIN feedback \subseteq Keys
  /\ \A key \in DOMAIN feedback : feedback[key] \in Responses \cup {Awaiting}
  /\ found \in BOOLEAN
  /\ passed \in Nat
  /\ askedBy \in [FollowUps -> Ids]
  /\ reserved \in BOOLEAN

Init ==
  /\ state = "start"
  /\ queue = <<>>
  /\ queueIndex = 0
  /\ answers = <<>>
  /\ deferred = <<>>
  /\ attempts = [q \in Ids |-> 0]
  /\ notes = {}
  /\ pending = None
  /\ stash = 0
  /\ source = "unset"
  /\ items = 0
  /\ checks = 0
  /\ feedback = <<>>
  /\ found = FALSE
  /\ passed = 0
  /\ askedBy = [q \in FollowUps |-> Completion]
  /\ reserved = FALSE

-----------------------------------------------------------------------------
(* Helpers on the queue and on the stack of deferred questions.            *)

\* findIndex by questionId: 0-based, and the length when there is none.
IndexOf(items_, id) ==
  IF \E i \in 1..Len(items_) : items_[i].id = id
  THEN (CHOOSE i \in 1..Len(items_) :
          items_[i].id = id /\ \A j \in 1..(i - 1) : items_[j].id # id) - 1
  ELSE Len(items_)

InQueue(id) == \E i \in 1..Len(queue) : queue[i].id = id

\* What a check returns, as sortByQuestionId leaves it: an id may be there twice.
SortedLists ==
  {ids \in UNION {[1..n -> Questions] : n \in 0..MaxQuestions} :
     \A i, j \in 1..Len(ids) : i < j => ids[i] <= ids[j]}

\* buildQuestionQueue: the questions returned, or the one completion question.
QueueOf(ids) ==
  IF ids = <<>> THEN <<[id |-> Completion, answered |-> FALSE]>>
  ELSE [i \in 1..Len(ids) |-> [id |-> ids[i], answered |-> FALSE]]

InsertAt(items_, index, item) ==
  SubSeq(items_, 1, index) \o <<item>> \o SubSeq(items_, index + 1, Len(items_))

Exhausted == queueIndex >= Len(queue)

Current == queue[queueIndex + 1].id

\* The idempotency key of the feedback child for the current question.
CurrentKey == [question |-> Current, pass |-> checks, attempt |-> attempts[Current]]

Peek(stack) == stack[Len(stack)]

TopInQueueNever(stack) == FALSE

\* The question to revisit first is still in the queue.
TopInQueue(stack) == stack # <<>> /\ InQueue(Peek(stack))

Pop(stack) == SubSeq(stack, 1, Len(stack) - 1)

Defer(stack, id) ==
  IF \E i \in 1..Len(stack) : stack[i] = id THEN stack ELSE Append(stack, id)

\* Where the queue goes on once a detour is over.
ResumeIndex(id) ==
  IF deferred # <<>> /\ Peek(deferred) = id THEN IndexOf(queue, id) ELSE queueIndex

-----------------------------------------------------------------------------
(* start, IntegrateIntoSpec and the consistency check.                     *)

Start ==
  /\ state = "start"
  /\ state' = "IntegrateIntoSpec"
  /\ UNCHANGED <<queue, queueIndex, workVars, itemVars, feedback, passed, askedBy, reserved>>

ResolvedSource ==
  CASE source # "unset" -> source
    [] source = "unset" /\ answers = <<>> -> "workflow-input"
    [] source = "unset" /\ answers # <<>> -> "numbered-options-feedback"

CarriesFeedbackOnly == ResolvedSource = "numbered-options-feedback"

CarriesAnswers ==
  ResolvedSource \in {"numbered-options-feedback", "consistency-action-items-with-feedback"}

CarriedItems ==
  IF ResolvedSource \in {"consistency-action-items", "consistency-action-items-with-feedback"}
  THEN items ELSE 0

\* The pass succeeds.  source and items are part of the data that is spread
\* into the next state's data: nothing takes them out again.
Integrate ==
  /\ state = "IntegrateIntoSpec"
  /\ state' = "LogicalConsistencyCheckCreateFollowUpQuestions"
  /\ passed' = Len(answers)
  /\ UNCHANGED <<queue, queueIndex, workVars, itemVars, feedback, askedBy, reserved>>

\* The child reports follow-up questions and perhaps action items.
CheckAsks(ids, withItems) ==
  /\ state = "LogicalConsistencyCheckCreateFollowUpQuestions"
  /\ checks < MaxChecks
  /\ withItems => ids # <<>>
  /\ state' = "NumberedOptionsHumanRequest"
  /\ checks' = checks + 1
  /\ queue' = QueueOf(ids)
  /\ queueIndex' = 0
  /\ stash' = IF withItems THEN checks + 1 ELSE stash
  /\ found' = withItems
  /\ reserved' = (reserved \/ Completion \in Range(ids))
  /\ UNCHANGED <<workVars, source, items, feedback, passed, askedBy>>

\* The child reports action items only.
CheckActs ==
  /\ state = "LogicalConsistencyCheckCreateFollowUpQuestions"
  /\ checks < MaxChecks
  /\ state' = "IntegrateIntoSpec"
  /\ checks' = checks + 1
  /\ queue' = <<>>
  /\ queueIndex' = 0
  /\ source' = "consistency-action-items"
  /\ items' = checks + 1
  /\ found' = TRUE
  /\ UNCHANGED <<workVars, stash, feedback, passed, askedBy, reserved>>

\* A delegation to the copilot or to a child fails, returns what its schema
\* rejects, or the feedback child ends without a response.
DelegationFails ==
  /\ state \in {"IntegrateIntoSpec", "LogicalConsistencyCheckCreateFollowUpQuestions",
                "NumberedOptionsHumanRequest", "ClassifyCustomPrompt",
                "ExpandQuestionWithClarification"}
  /\ state = "NumberedOptionsHumanRequest" => ~Exhausted
  /\ state' = "failed"
  /\ UNCHANGED <<queue, queueIndex, workVars, itemVars, feedback, passed, askedBy, reserved>>

-----------------------------------------------------------------------------
(* NumberedOptionsHumanRequest.                                            *)

Asking == state = "NumberedOptionsHumanRequest"

ToIntegrationDroppingStash ==
  /\ state' = "IntegrateIntoSpec"
  /\ stash' = 0
  /\ UNCHANGED <<source, items, checks, found>>

\* Leaving for the next pass, with the stashed items if there are any.
ToIntegration ==
  /\ state' = "IntegrateIntoSpec"
  /\ IF stash # 0
     THEN /\ source' = "consistency-action-items-with-feedback"
          /\ items' = stash
          /\ stash' = 0
     ELSE UNCHANGED <<source, items, stash>>
  /\ UNCHANGED <<checks, found>>

\* The queue is exhausted but a deferred question is still in it.
RevisitDeferred ==
  /\ Asking /\ Exhausted
  /\ TopInQueue(deferred)
  /\ queueIndex' = IndexOf(queue, Peek(deferred))
  /\ UNCHANGED <<state, queue, workVars, itemVars, feedback, passed, askedBy, reserved>>

\* The latest answer to the completion question selected "done".
ConfirmedIn(records) ==
  \E i \in 1..Len(records) :
    /\ records[i].question = Completion
    /\ 1 \in records[i].options
    /\ \A j \in (i + 1)..Len(records) : records[j].question # Completion

\* The queue is exhausted on entry, after a custom answer to its last question.
LeaveExhausted ==
  /\ Asking /\ Exhausted
  /\ ~TopInQueue(deferred)
  /\ IF ConfirmedIn(answers)
     THEN state' = "Done" /\ UNCHANGED itemVars
     ELSE ToIntegration
  /\ UNCHANGED <<queue, queueIndex, workVars, feedback, passed, askedBy, reserved>>

\* The feedback child is launched; the run parks until it has a response.
Ask ==
  /\ Asking /\ ~Exhausted
  /\ CurrentKey \notin DOMAIN feedback
  /\ feedback' = [key \in DOMAIN feedback \cup {CurrentKey} |->
                    IF key = CurrentKey THEN Awaiting ELSE feedback[key]]
  /\ UNCHANGED <<state, queue, queueIndex, workVars, itemVars, passed, askedBy, reserved>>

\* The human responds; an issue's options are not told apart.
Respond(key, response) ==
  /\ feedback[key] = Awaiting
  /\ key.question # Completion => 2 \notin response.options
  /\ feedback' = [feedback EXCEPT ![key] = response]
  /\ UNCHANGED <<state, queue, queueIndex, workVars, itemVars, passed, askedBy, reserved>>

\* The child has its response, from now or from an earlier visit.
Answered ==
  /\ Asking /\ ~Exhausted
  /\ CurrentKey \in DOMAIN feedback
  /\ feedback[CurrentKey] # Awaiting
  /\ Len(answers) < MaxAnswers

Response == feedback[CurrentKey]

\* What every response changes: its answer is appended, its item marked.
Record ==
  /\ answers' = Append(answers, [question |-> Current, options |-> Response.options,
                                 text |-> Response.text])
  /\ queue' = [queue EXCEPT ![queueIndex + 1].answered = TRUE]
  /\ UNCHANGED <<attempts, notes, pending, feedback, passed, askedBy, reserved>>

\* Free text is classified first; the stack of deferred questions stays.
RecordText ==
  /\ Answered
  /\ Response.text
  /\ Record
  /\ queueIndex' = queueIndex + 1
  /\ state' = "ClassifyCustomPrompt"
  /\ UNCHANGED <<deferred, itemVars>>

\* The stack after an answer without text.
StillDeferred ==
  IF deferred # <<>> /\ Peek(deferred) = Current THEN Pop(deferred) ELSE deferred

GoesBackNever == FALSE

\* The top of that stack is in the queue and is not the next question anyway.
GoesBack ==
  /\ TopInQueue(StillDeferred)
  /\ IndexOf(queue, Peek(StillDeferred)) # queueIndex + 1

RecordAndGoBack ==
  /\ Answered
  /\ ~Response.text
  /\ GoesBack
  /\ Record
  /\ deferred' = StillDeferred
  /\ queueIndex' = IndexOf(queue, Peek(StillDeferred))
  /\ UNCHANGED <<state, itemVars>>

RecordConfirmation ==
  /\ Answered
  /\ ~Response.text
  /\ ~GoesBack
  /\ Current = Completion
  /\ Record
  /\ deferred' = StillDeferred
  /\ queueIndex' = queueIndex + 1
  /\ state' = IF 1 \in Response.options THEN "Done" ELSE "IntegrateIntoSpec"
  /\ UNCHANGED itemVars

RecordAndGoOn ==
  /\ Answered
  /\ ~Response.text
  /\ ~GoesBack
  /\ Current # Completion
  /\ Record
  /\ deferred' = StillDeferred
  /\ queueIndex' = queueIndex + 1
  /\ IF queueIndex + 1 < Len(queue) THEN UNCHANGED <<state, itemVars>> ELSE ToIntegration

-----------------------------------------------------------------------------
(* ClassifyCustomPrompt and ExpandQuestionWithClarification.               *)

LastAnswer == answers[Len(answers)]

ClassifiedQuestionAtIndex ==
  IF Exhausted THEN queue[queueIndex].id ELSE queue[queueIndex + 1].id

\* The queue index was advanced when the text was recorded.
ClassifiedQuestion == queue[queueIndex].id

\* The text is an answer: it is recorded once more, in its normalized form.
CustomAnswer ==
  /\ state = "ClassifyCustomPrompt"
  /\ Len(answers) < MaxAnswers
  /\ answers' = Append(answers, [question |-> ClassifiedQuestion,
                                 options |-> LastAnswer.options, text |-> TRUE])
  /\ state' = "NumberedOptionsHumanRequest"
  /\ UNCHANGED <<queue, queueIndex, deferred, attempts, notes, pending, itemVars,
                 feedback, passed, askedBy, reserved>>

CustomQuestionUnbounded(text) ==
  LET id == ClassifiedQuestion IN
  /\ state = "ClassifyCustomPrompt"
  /\ queue' = [queue EXCEPT ![queueIndex].answered = FALSE]
  /\ answers' = SubSeq(answers, 1, Len(answers) - 1)
  /\ deferred' = Append(deferred, id)
  /\ attempts' = [attempts EXCEPT ![id] = @ + 1]
  /\ pending' = [question |-> id, text |-> text]
  /\ state' = "ExpandQuestionWithClarification"
  /\ UNCHANGED <<queueIndex, notes, itemVars, feedback, passed, askedBy, reserved>>

\* The text is a question: the answer is taken back and its question deferred.
CustomQuestion(text) ==
  LET id == ClassifiedQuestion IN
  /\ state = "ClassifyCustomPrompt"
  /\ attempts[id] < MaxAttempts /\ SumFunction(attempts) < MaxDetours
  /\ queue' = [queue EXCEPT ![queueIndex].answered = FALSE]
  /\ answers' = SubSeq(answers, 1, Len(answers) - 1)
  /\ deferred' = Defer(deferred, id)
  /\ attempts' = [attempts EXCEPT ![id] = @ + 1]
  /\ pending' = [question |-> id, text |-> text]
  /\ state' = "ExpandQuestionWithClarification"
  /\ UNCHANGED <<queueIndex, notes, itemVars, feedback, passed, askedBy, reserved>>

\* The research finds the answer, or a note of an earlier detour has it.
Research ==
  /\ state = "ExpandQuestionWithClarification"
  /\ queueIndex' = ResumeIndex(pending.question)
  /\ notes' = notes \cup {pending}
  /\ pending' = None
  /\ state' = "NumberedOptionsHumanRequest"
  /\ UNCHANGED <<queue, answers, deferred, attempts, itemVars, feedback, passed, askedBy, reserved>>

\* The research needs the human: a follow-up becomes the next question.
FollowUp(id) ==
  /\ state = "ExpandQuestionWithClarification"
  /\ pending \notin notes
  /\ id # pending.question
  /\ queue' = InsertAt(queue, queueIndex, [id |-> id, answered |-> FALSE])
  /\ askedBy' = [askedBy EXCEPT ![id] = pending.question]
  /\ reserved' = (reserved \/ id = Completion)
  /\ pending' = None
  /\ state' = "NumberedOptionsHumanRequest"
  /\ UNCHANGED <<queueIndex, answers, deferred, attempts, notes, itemVars, feedback, passed>>

-----------------------------------------------------------------------------
(* Done.                                                                   *)

\* The first answer to the completion question must select one option.
Finish ==
  LET confirmations == {i \in 1..Len(answers) : answers[i].question = Completion}
      first == CHOOSE i \in confirmations : \A j \in confirmations : i <= j
      accepted == confirmations # {} /\ Cardinality(answers[first].options) = 1
  IN /\ state = "Done"
     /\ state' = IF accepted THEN "completed" ELSE "failed"
     /\ UNCHANGED <<queue, queueIndex, workVars, itemVars, feedback, passed, askedBy, reserved>>

Next ==
  \/ Start \/ Integrate \/ CheckActs \/ DelegationFails
  \/ \E ids \in SortedLists, withItems \in BOOLEAN : CheckAsks(ids, withItems)
  \/ RevisitDeferred \/ LeaveExhausted \/ Ask
  \/ \E key \in DOMAIN feedback, response \in Responses : Respond(key, response)
  \/ RecordText \/ RecordAndGoBack \/ RecordConfirmation \/ RecordAndGoOn
  \/ CustomAnswer
  \/ \E text \in QuestionTexts : CustomQuestion(text)
  \/ Research
  \/ \E id \in FollowUps : FollowUp(id)
  \/ Finish

Spec == Init /\ [][Next]_vars

-----------------------------------------------------------------------------
(* Properties.                                                             *)

\* Every recorded answer, in its original and in its normalized form, is one
\* the human gave to that question: no option is attributed to another one.
AnswersAreTheHumans ==
  \A i \in 1..Len(answers) :
    \E key \in DOMAIN feedback :
      /\ key.question = answers[i].question
      /\ feedback[key].options = answers[i].options
      /\ feedback[key].text = answers[i].text

AnsweredIn(id) == \E i \in 1..Len(queue) : queue[i].id = id /\ queue[i].answered

\* A question the queue has passed is answered or waits on the stack, and none
\* is open when the queue is left.
LeavesNothing ==
  /\ Asking => \A i \in 1..queueIndex :
       \/ AnsweredIn(queue[i].id)
       \/ \E j \in 1..Len(deferred) : deferred[j] = queue[i].id
  /\ state \in {"Done", "IntegrateIntoSpec"} =>
       \A i \in 1..Len(queue) : AnsweredIn(queue[i].id)

\* A question is passed over only in a run in which a model has given one of its
\* questions the id of the completion question: the handler takes the answer to
\* it for the human's last word.  An id that is in the queue twice, from a check
\* or as a follow-up, counts as answered when one of its items is: the second
\* item is credited with the response to the first.
NothingSkipped == ~reserved => LeavesNothing

\* The action items of a check are in the input of the integration that follows
\* it, whatever detours the questions took in between.  When they are not, a
\* model's question had the id of the completion question, and they are still
\* stashed: no detour and no such answer loses them.
ItemsReachTheSpec ==
  [][Integrate /\ found => CarriedItems = checks \/ (reserved /\ stash = checks)]_vars

OnStack(id) == \E j \in 1..Len(deferred) : deferred[j] = id

\* The id of a question that waits on the stack is in the queue twice: a check
\* returned it twice, or a follow-up has it.
DeferredTwice ==
  \E i, j \in 1..Len(queue) : i # j /\ queue[i].id = queue[j].id /\ OnStack(queue[i].id)

\* While a question is deferred, the human is asked only that question or a
\* follow-up of it, unless the last answer was a free text, a deferred id is in
\* the queue twice, or an answer to a model's question with the id of the
\* completion question has left its stack to a later pass.
DetourFirst ==
  [][Ask /\ deferred # <<>> =>
       \/ Current = Peek(deferred)
       \/ Current \in FollowUps /\ askedBy[Current] = Peek(deferred)
       \/ answers # <<>> /\ LastAnswer.text
       \/ DeferredTwice
       \/ reserved]_vars

\* An integration leaves out answers given since the one before it only when it
\* carries the action items of an earlier check instead.
LostOnlyToStaleItems ==
  [][Integrate /\ Len(answers) > passed =>
       \/ CarriesAnswers
       \/ CarriedItems # 0 /\ CarriedItems < checks]_vars

-----------------------------------------------------------------------------
(* What makes the safety properties inductive.                             *)

InDetours ==
  state \in {"NumberedOptionsHumanRequest", "ClassifyCustomPrompt",
             "ExpandQuestionWithClarification"}

\* The index points into the queue, and behind an item whose text is being
\* classified.  Nothing is there before the first pass.
IndexInQueue ==
  /\ state = "start" => queue = <<>> /\ source = "unset" /\ ~found
  /\ InDetours => queue # <<>> /\ queueIndex <= Len(queue)
  /\ state \in {"ClassifyCustomPrompt", "ExpandQuestionWithClarification"} => queueIndex # 0
  /\ state = "ClassifyCustomPrompt" =>
       answers # <<>> /\ LastAnswer.question = ClassifiedQuestion /\ LastAnswer.text
  /\ state = "ExpandQuestionWithClarification" =>
       pending.question = ClassifiedQuestion /\ pending.text \in QuestionTexts

\* Answers come from responses, and a response is never taken back.
AnswersGiven ==
  \A i \in 1..Len(answers) :
    \E key \in DOMAIN feedback :
      /\ feedback[key] # Awaiting
      /\ key.question = answers[i].question
      /\ feedback[key].options = answers[i].options
      /\ feedback[key].text = answers[i].text

\* The items found last are stashed until an integration carries them; what a
\* check without questions has left in the state data is older after the next.
ItemsKept ==
  /\ found /\ InDetours =>
       stash = checks /\ checks # 0 /\ (InQueue(Completion) => reserved)
  /\ found /\ state = "IntegrateIntoSpec" =>
       CarriedItems = checks \/ (reserved /\ stash = checks)
  /\ state = "LogicalConsistencyCheckCreateFollowUpQuestions" => Len(answers) = passed
  /\ source = "consistency-action-items" =>
       /\ items # 0 /\ items <= checks
       /\ InDetours => items < checks
       /\ state = "IntegrateIntoSpec" => items < checks \/ Len(answers) = passed

Settled(id) == AnsweredIn(id) \/ OnStack(id)

AtHand(i) == Asking /\ i = queueIndex + 1

\* The first item with its question: where a detour resumes.
First(i) == \A j \in 1..(i - 1) : queue[j].id # queue[i].id

\* The queue has been at this item or behind it.
Behind(i) ==
  \/ i <= queueIndex
  \/ \E k \in i..Len(queue) : First(k) /\ OnStack(queue[k].id)

\* What is on the stack is in the queue, and what the queue has passed is settled.
StackInQueue ==
  IF InDetours
  THEN /\ \A j \in 1..Len(deferred) : InQueue(deferred[j])
       /\ \A i, j \in 1..Len(deferred) : deferred[i] = deferred[j] => i = j
       /\ \A i \in 1..Len(queue) : Behind(i) => Settled(queue[i].id) \/ AtHand(i)
       /\ state = "ExpandQuestionWithClarification" => OnStack(pending.question)
  ELSE state \notin Ended => deferred = <<>>

\* The completion question comes first, and everything else in its queue is a
\* detour of it: it is asked again only when they are over.
CompletionFirst ==
  InDetours =>
    /\ \A i \in 2..Len(queue) : queue[i].id # Completion
    /\ queue[1].id = Completion =>
         /\ \A i \in 1..Len(queue) : Settled(queue[i].id) \/ AtHand(i)
         /\ deferred = <<>> => Len(queue) = 1
         /\ deferred # <<>> => deferred[1] = Completion
         /\ Asking /\ queueIndex = 0 /\ deferred # <<>> => Peek(deferred) = Completion

\* Why the question at hand, or the one a detour has begun with, is not the one
\* on top of the stack.
DetourAccount ==
  /\ Asking /\ ~Exhausted /\ deferred # <<>> =>
       \/ Current = Peek(deferred)
       \/ /\ Current \in FollowUps /\ askedBy[Current] = Peek(deferred)
          /\ OnStack(Current) => DeferredTwice
       \/ answers # <<>> /\ LastAnswer.text
       \/ DeferredTwice
  /\ state = "ClassifyCustomPrompt" /\ OnStack(ClassifiedQuestion) =>
       \/ ClassifiedQuestion = Peek(deferred)
       \/ Len(answers) > 1 /\ answers[Len(answers) - 1].text
       \/ DeferredTwice
  /\ state = "ExpandQuestionWithClarification" =>
       \/ pending.question = Peek(deferred)
       \/ answers # <<>> /\ LastAnswer.text
       \/ DeferredTwice

IInv ==
  /\ TypeOK
  /\ IndexInQueue
  /\ AnswersGiven
  /\ ItemsKept
  /\ ~reserved => StackInQueue /\ CompletionFirst /\ LeavesNothing /\ DetourAccount

=============================================================================
