------------------------- MODULE ConsistencyFollowUp -------------------------
(***************************************************************************)
(* app-builder.spec-doc.consistency-follow-up.v1: every prompt layer is    *)
(* delegated in turn, its output merged into an aggregate, and a last      *)
(* delegation, PlanResolution, writes the result from that coverage.       *)
(* Delegations are those of CopilotPrompt, one at a time.                  *)
(*                                                                         *)
(* The child and its prompts run inside a step of the parent, in one       *)
(* transaction: what a crash leaves of them is nothing, and the parent     *)
(* launches a new child afterwards.                                        *)
(***************************************************************************)
EXTENDS CopilotPrompt

CONSTANTS
  LayerKeys,     \* the readiness checklist keys of each prompt layer, in order
  Issues,        \* ids a stage may report: blocking issues,
  Items,         \*   action items,
  FollowUpIds,   \*   and follow-up questions
  MaxCrashes     \* bound: crashes of the server

Layers == 1..Len(LayerKeys)
Checklist == UNION {LayerKeys[l] : l \in Layers}

ASSUME LayerAssumption ==
  /\ LayerKeys \in Seq(SUBSET Checklist)
  /\ \A l \in Layers : LayerKeys[l] # {}

ASSUME CrashAssumption == MaxCrashes \in Nat

VARIABLES
  state,        \* of the child run
  stageIndex,   \* layers executed
  aggregate,    \* what the stages found, each finding with the stage it is from
  executed,     \* the output of each executed stage
  final,        \* finalOutput has been written
  crashes

childVars == <<state, stageIndex, aggregate, executed, final>>
vars == <<childVars, promptVars, crashes>>

StageOutputs ==
  [issues : SUBSET Issues, items : SUBSET Items, questions : SUBSET FollowUpIds,
   checklist : SUBSET Checklist]

Found(ids) == [id : ids, stage : Layers]

\* A checklist is the set of its keys that are true.  The ids seen so far and
\* the stages they came from are those of the aggregate.
TypeOK ==
  /\ PromptTypeOK
  /\ state \in {"start", "ExecutePromptLayer", "PlanResolution", "Done",
                "completed", "failed"}
  /\ stageIndex \in 0..Len(LayerKeys)
  /\ aggregate \in [issues : SUBSET Found(Issues), items : SUBSET Found(Items),
                    questions : SUBSET Found(FollowUpIds), checklist : SUBSET Checklist]
  /\ executed \in Seq(StageOutputs)
  /\ final \in BOOLEAN
  /\ crashes \in 0..MaxCrashes

NoFindings == [issues |-> {}, items |-> {}, questions |-> {}, checklist |-> Checklist]

ChildInit ==
  /\ state = "start"
  /\ stageIndex = 0
  /\ aggregate = NoFindings
  /\ executed = <<>>
  /\ final = FALSE

Init == ChildInit /\ PromptInit /\ crashes = 0

\* The start handler, with an input and layers that pass its checks.
Start ==
  /\ state = "start"
  /\ Layers # {}
  /\ state' = "ExecutePromptLayer"
  /\ UNCHANGED <<stageIndex, aggregate, executed, final, promptVars, crashes>>

\* The start handler rejects its input.
RejectInput ==
  /\ state = "start"
  /\ state' = "failed"
  /\ UNCHANGED <<stageIndex, aggregate, executed, final, promptVars, crashes>>

Delegating == state \in {"ExecutePromptLayer", "PlanResolution"}

Delegate ==
  /\ Delegating
  /\ Spawn
  /\ UNCHANGED <<childVars, crashes>>

Delegated == Delegating /\ step = "returned"

\* The handler goes on with what the delegation returned.
TakeResult ==
  /\ Delegated
  /\ step' = "idle"
  /\ UNCHANGED <<attempt, sent, process, timer, transcript, offset, outcome, crashes>>

Seen(findings) == {f.id : f \in findings}

MergeAll(findings, ids, stage) == findings \cup [id : ids, stage : {stage}]

\* An id that an earlier stage has produced is skipped.
Merge(findings, ids, stage) ==
  findings \cup [id : ids \ Seen(findings), stage : {stage}]

\* Each key of the layer stays true only if the stage says so too.
MergedChecklist(checklist, passed, keys) ==
  {key \in checklist : key \in keys => key \in passed}

\* The layer's output passes schema and contract and is merged.
MergeStageOutput(output) ==
  LET stage == stageIndex + 1 IN
  /\ state = "ExecutePromptLayer"
  /\ outcome = "valid"
  /\ TakeResult
  /\ aggregate' =
       [issues |-> Merge(aggregate.issues, output.issues, stage),
        items |-> Merge(aggregate.items, output.items, stage),
        questions |-> Merge(aggregate.questions, output.questions, stage),
        checklist |-> MergedChecklist(aggregate.checklist, output.checklist, LayerKeys[stage])]
  /\ executed' = Append(executed, output)
  /\ stageIndex' = stage
  /\ state' = IF stage >= Len(LayerKeys) THEN "PlanResolution" ELSE "ExecutePromptLayer"
  /\ UNCHANGED final

\* The resolution writes the child's result itself; the aggregate is its input.
AuthorResolution ==
  /\ state = "PlanResolution"
  /\ outcome = "valid"
  /\ TakeResult
  /\ final' = TRUE
  /\ state' = "Done"
  /\ UNCHANGED <<stageIndex, aggregate, executed>>

\* The delegation failed, or its output breaks the schema or the contract.
DelegationFails ==
  /\ TakeResult
  /\ state' = "failed"
  /\ UNCHANGED <<stageIndex, aggregate, executed, final>>

\* Done validates the result once more.
Finish(accepted) ==
  /\ state = "Done"
  /\ state' = IF final /\ accepted THEN "completed" ELSE "failed"
  /\ UNCHANGED <<stageIndex, aggregate, executed, final, promptVars, crashes>>

PromptSteps == Delegating /\ PromptStep /\ UNCHANGED <<childVars, crashes>>

\* The server dies and a new child run starts over; the copilot process of the
\* dead server has lost its stdin and is nobody's child.
Crash ==
  /\ state \notin {"completed", "failed"}
  /\ crashes < MaxCrashes
  /\ crashes' = crashes + 1
  /\ state' = "start"
  /\ stageIndex' = 0
  /\ aggregate' = NoFindings
  /\ executed' = <<>>
  /\ final' = FALSE
  /\ step' = "idle"
  /\ attempt' = 0
  /\ sent' = FALSE
  /\ process' = "none"
  /\ timer' = "off"
  /\ transcript' = <<>>
  /\ offset' = 0
  /\ outcome' = "none"

Handler ==
  \/ Start \/ RejectInput \/ Delegate
  \/ \E output \in StageOutputs : MergeStageOutput(output)
  \/ AuthorResolution \/ DelegationFails
  \/ \E accepted \in BOOLEAN : Finish(accepted)

Next == Handler \/ PromptSteps \/ Crash

Spec == Init /\ [][Next]_vars

FairSpec == Spec /\ WF_vars(Handler) /\ PromptFairness

-----------------------------------------------------------------------------
ReportedBefore(id, field, stage) ==
  \E earlier \in 1..(stage - 1) : id \in executed[earlier][field]

\* What PlanResolution is given is what all the stages said: every id that some
\* executed stage reported, once and under the first stage that did, a checklist
\* key is true unless a stage that owns it said otherwise, and no layer is left
\* out whatever the earlier ones reported.
CoverageIsExact ==
  /\ \A field \in {"issues", "items", "questions"} :
       aggregate[field] =
         UNION {[id : {id \in executed[stage][field] : ~ReportedBefore(id, field, stage)},
                 stage : {stage}] : stage \in 1..Len(executed)}
  /\ aggregate.checklist =
       {key \in Checklist : \A stage \in 1..Len(executed) :
          key \in LayerKeys[stage] => key \in executed[stage].checklist}
  /\ state \in {"PlanResolution", "Done", "completed"} => Len(executed) = Len(LayerKeys)

\* With the timers and handlers running, the child ends whatever the agent does.
ChildEnds == <>[](state \in {"completed", "failed"})

-----------------------------------------------------------------------------
(* What makes the safety properties inductive.                             *)

\* Whoever settles the execution or fires its timer has dealt with the process.
ProcessToldToGo ==
  timer = "fired" \/ step = "terminating" => process # "running"

\* stageIndex counts the executed stages, and there is one left to execute
\* while the child is in ExecutePromptLayer.
StagesCounted ==
  /\ stageIndex = Len(executed)
  /\ state = "start" => executed = <<>>
  /\ state = "ExecutePromptLayer" => Len(executed) < Len(LayerKeys)

\* The ids of the aggregate are those that some executed stage reported.
SeenIsReported ==
  \A field \in {"issues", "items", "questions"} :
    Seen(aggregate[field]) = UNION {executed[stage][field] : stage \in 1..Len(executed)}

IInv ==
  /\ TypeOK
  /\ OwnText
  /\ ProcessToldToGo
  /\ NothingLeftRunning
  /\ StagesCounted
  /\ SeenIsReported
  /\ CoverageIsExact

=============================================================================
