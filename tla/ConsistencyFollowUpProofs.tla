---------------------- MODULE ConsistencyFollowUpProofs ----------------------
(***************************************************************************)
(* Proofs about ConsistencyFollowUp and the delegations of CopilotPrompt   *)
(* it makes, for every sequence of layers, every number of schema retries, *)
(* and whatever the agent replies.                                         *)
(***************************************************************************)
EXTENDS ConsistencyFollowUp, TLAPS

-----------------------------------------------------------------------------
(* One delegation.                                                         *)

PromptInv == PromptTypeOK /\ OwnText /\ ProcessToldToGo /\ NothingLeftRunning

LEMMA Retries == MaxRetries \in Nat /\ MaxChunks \in Nat
  BY PromptAssumption

LEMMA ExchangeType ==
  ASSUME PromptTypeOK
  PROVE  Exchange \in 0..(MaxRetries + 2)
  BY Retries DEF PromptTypeOK, Exchange

\* Settling never leaves the process without a signal.
LEMMA SettleKeeps ==
  ASSUME PromptInv, NEW result \in Outcomes, Settle(result)
  PROVE  PromptInv'
  BY DEF Settle, PromptInv, PromptTypeOK, OwnText, ProcessToldToGo, NothingLeftRunning,
         Exchanges

\* A new exchange starts behind all text there is.
LEMMA NewExchangeKeeps ==
  ASSUME PromptInv,
         step \in Exchanges, step' \in Exchanges,
         attempt' \in 0..MaxRetries,
         offset' = TakeOffset, sent' = Writable,
         UNCHANGED <<process, timer, transcript, outcome>>
  PROVE  PromptInv'
<1>1. PromptTypeOK'
  BY DEF PromptInv, PromptTypeOK, TakeOffset, Writable, Exchanges
<1>2. OwnText'
  BY <1>1 DEF OwnText, PromptTypeOK, TakeOffset
<1>3. ProcessToldToGo' /\ NothingLeftRunning'
  BY DEF PromptInv, ProcessToldToGo, NothingLeftRunning, Exchanges
<1> QED
  BY <1>1, <1>2, <1>3 DEF PromptInv

LEMMA StreamChunkKeeps ==
  ASSUME PromptInv, StreamChunk
  PROVE  PromptInv'
<1>1. /\ transcript \in Seq(0..(MaxRetries + 2)) /\ Exchange \in 0..(MaxRetries + 2)
      /\ transcript' = Append(transcript, Exchange)
      /\ offset \in 0..Len(transcript)
      /\ UNCHANGED <<step, attempt, sent, process, timer, offset, outcome>>
  BY ExchangeType DEF StreamChunk, PromptInv, PromptTypeOK
<1>2. /\ transcript' \in Seq(0..(MaxRetries + 2))
      /\ Len(transcript') = Len(transcript) + 1
      /\ transcript'[Len(transcript) + 1] = Exchange
      /\ \A i \in 1..Len(transcript) : transcript'[i] = transcript[i]
  BY <1>1
<1>3. PromptTypeOK'
  BY <1>1, <1>2 DEF PromptInv, PromptTypeOK
<1>4. Exchange' = Exchange
  BY <1>1 DEF Exchange
<1>5. OwnText'
  <2>1. \A i \in (offset + 1)..Len(transcript) : transcript[i] = Exchange
    BY DEF StreamChunk, PromptInv, OwnText
  <2>2. \A i \in (offset + 1)..Len(transcript') : transcript'[i] = Exchange
    BY <1>1, <1>2, <2>1
  <2> QED
    BY <1>1, <1>4, <2>2 DEF OwnText
<1>6. ProcessToldToGo' /\ NothingLeftRunning'
  BY <1>1 DEF PromptInv, ProcessToldToGo, NothingLeftRunning
<1> QED
  BY <1>3, <1>5, <1>6 DEF PromptInv

LEMMA PromptStepKeeps ==
  ASSUME PromptInv, PromptStep
  PROVE  PromptInv'
<1>1. CASE StreamChunk
  BY <1>1, StreamChunkKeeps
<1>2. CASE Exchanged
  <2>1. /\ step \in Exchanges /\ step' \in Exchanges
        /\ attempt' \in 0..MaxRetries
        /\ offset' = TakeOffset /\ sent' = Writable
        /\ UNCHANGED <<process, timer, transcript, outcome>>
    BY <1>2 DEF Exchanged, Exchanges, PromptInv, PromptTypeOK
  <2> QED
    BY <2>1, NewExchangeKeeps
<1>3. CASE AcceptReply
  BY <1>3, SettleKeeps DEF AcceptReply, Outcomes
<1>4. CASE RejectReply
  <2>1. CASE attempt < MaxRetries
    <3>1. attempt + 1 \in 0..MaxRetries
      BY <2>1, Retries DEF PromptInv, PromptTypeOK
    <3>2. /\ step \in Exchanges /\ step' = step
          /\ attempt' = attempt + 1
          /\ offset' = TakeOffset /\ sent' = Writable
          /\ UNCHANGED <<process, timer, transcript, outcome>>
      BY <1>4, <2>1 DEF RejectReply, Exchanges
    <3> QED
      BY <3>1, <3>2, NewExchangeKeeps
  <2>2. CASE ~(attempt < MaxRetries)
    BY <1>4, <2>2, SettleKeeps DEF RejectReply, Outcomes
  <2> QED
    BY <2>1, <2>2
<1>5. CASE ConnectionFails
  BY <1>5, SettleKeeps DEF ConnectionFails, Outcomes
<1>6. CASE ProcessExits \/ TimeoutFires \/ TerminateReturns
  <2>1. Exchange' = Exchange \/ step' = "returned"
    BY <1>6 DEF ProcessExits, TimeoutFires, TerminateReturns, Exchange
  <2>2. PromptTypeOK' /\ ProcessToldToGo' /\ NothingLeftRunning'
    BY <1>6 DEF ProcessExits, TimeoutFires, TerminateReturns, PromptInv, PromptTypeOK,
                ProcessToldToGo, NothingLeftRunning, Exchanges
  <2>3. OwnText'
    BY <1>6, <2>1 DEF ProcessExits, TimeoutFires, TerminateReturns, PromptInv, OwnText
  <2> QED
    BY <2>2, <2>3 DEF PromptInv
<1>7. CASE TimeoutRejects
  BY <1>7, SettleKeeps DEF TimeoutRejects, Outcomes
<1> QED
  BY <1>1, <1>2, <1>3, <1>4, <1>5, <1>6, <1>7 DEF PromptStep

LEMMA FreshPrompt ==
  /\ PromptInit => PromptInv
  /\ PromptInit' => PromptInv'
<1>1. 0 \in 0..MaxRetries
  BY Retries
<1>2. ASSUME PromptInit PROVE PromptInv
  <2>1. transcript \in Seq(0..(MaxRetries + 2)) /\ offset \in 0..Len(transcript)
    BY <1>2 DEF PromptInit
  <2>2. PromptTypeOK
    BY <1>1, <1>2, <2>1 DEF PromptInit, PromptTypeOK, Outcomes
  <2> QED
    BY <1>2, <2>2 DEF PromptInit, PromptInv, OwnText, ProcessToldToGo, NothingLeftRunning
<1>3. ASSUME PromptInit' PROVE PromptInv'
  <2>1. transcript' \in Seq(0..(MaxRetries + 2)) /\ offset' \in 0..Len(transcript')
    BY <1>3 DEF PromptInit
  <2>2. PromptTypeOK'
    BY <1>1, <1>3, <2>1 DEF PromptInit, PromptTypeOK, Outcomes
  <2> QED
    BY <1>3, <2>2 DEF PromptInit, PromptInv, OwnText, ProcessToldToGo, NothingLeftRunning
<1> QED
  BY <1>2, <1>3

LEMMA SpawnKeeps ==
  ASSUME PromptInv, Spawn
  PROVE  PromptInv'
  BY Retries DEF PromptInv, Spawn, PromptTypeOK, OwnText, ProcessToldToGo, NothingLeftRunning,
                 Exchanges, Outcomes

LEMMA TakeResultKeeps ==
  ASSUME PromptInv, TakeResult
  PROVE  PromptInv'
  BY DEF PromptInv, TakeResult, Delegated, PromptTypeOK, OwnText, ProcessToldToGo,
         NothingLeftRunning

LEMMA PromptUnchanged ==
  ASSUME PromptInv, UNCHANGED promptVars
  PROVE  PromptInv'
  BY DEF PromptInv, promptVars, PromptTypeOK, OwnText, Exchange, ProcessToldToGo,
         NothingLeftRunning
-----------------------------------------------------------------------------
(* Merging the outputs of the stages.                                      *)

\* The ids that a stage is the first to report.
NewIn(reports, stage) ==
  {id \in reports[stage] : \A earlier \in 1..(stage - 1) : id \notin reports[earlier]}

\* The findings of the first n stages, each with the stage that reported it first.
FirstFindings(reports, n) ==
  UNION {[id : NewIn(reports, stage), stage : {stage}] : stage \in 1..n}

LEMMA SeenAfterMerge ==
  ASSUME NEW findings, NEW ids, NEW stage
  PROVE  Seen(Merge(findings, ids, stage)) = Seen(findings) \cup ids
<1> DEFINE merged == Merge(findings, ids, stage)
<1>1. ASSUME NEW id \in Seen(merged) PROVE id \in Seen(findings) \cup ids
  <2>1. PICK f \in merged : f.id = id
    BY DEF Seen
  <2> QED
    BY <2>1 DEF Merge, Seen
<1>2. ASSUME NEW id \in Seen(findings) PROVE id \in Seen(merged)
  BY <1>2 DEF Merge, Seen
<1>3. ASSUME NEW id \in ids, id \notin Seen(findings) PROVE id \in Seen(merged)
  <2> DEFINE f == [id |-> id, stage |-> stage]
  <2>1. f \in merged /\ f.id = id
    BY <1>3 DEF Merge
  <2> QED
    BY <2>1 DEF Seen
<1> QED
  BY <1>1, <1>2, <1>3

\* Merging the next stage's report into exact findings keeps them exact.
LEMMA MergeIsExact ==
  ASSUME NEW n \in Nat, NEW reports, NEW findings,
         findings = FirstFindings(reports, n),
         Seen(findings) = UNION {reports[stage] : stage \in 1..n}
  PROVE  LET merged == Merge(findings, reports[n + 1], n + 1) IN
         /\ merged = FirstFindings(reports, n + 1)
         /\ Seen(merged) = UNION {reports[stage] : stage \in 1..(n + 1)}
<1> DEFINE merged == Merge(findings, reports[n + 1], n + 1)
<1>1. 1..(n + 1) = 1..n \cup {n + 1}
  OBVIOUS
<1>2. Seen(merged) = UNION {reports[stage] : stage \in 1..(n + 1)}
  <2>1. Seen(merged) = Seen(findings) \cup reports[n + 1]
    BY SeenAfterMerge
  <2> HIDE DEF merged
  <2> QED
    BY <1>1, <2>1
<1>3. reports[n + 1] \ Seen(findings) = NewIn(reports, n + 1)
  <2>1. (n + 1) - 1 = n
    OBVIOUS
  <2> QED
    BY <2>1 DEF NewIn
<1>4. merged = findings \cup [id : NewIn(reports, n + 1), stage : {n + 1}]
  BY <1>3 DEF Merge
<1>5. merged = FirstFindings(reports, n + 1)
  <2> HIDE DEF merged
  <2> QED
    BY <1>1, <1>4 DEF FirstFindings
<1> QED
  BY <1>2, <1>5

\* The findings are typed: whatever a stage reports is one of the ids, and its
\* stage one of the layers.
LEMMA MergeType ==
  ASSUME NEW Ids, NEW findings \in SUBSET Found(Ids), NEW ids \in SUBSET Ids,
         NEW stage \in Layers
  PROVE  Merge(findings, ids, stage) \in SUBSET Found(Ids)
  BY DEF Merge, Found

-----------------------------------------------------------------------------
(* The child.                                                              *)

\* The reports of one field, as the executed stages made them.
Reports(field) == [stage \in 1..Len(executed) |-> executed[stage][field]]

Fields == {"issues", "items", "questions"}

\* The aggregate, in terms of the executed stages.
FieldExact(field) ==
  /\ aggregate[field] = FirstFindings(Reports(field), Len(executed))
  /\ Seen(aggregate[field]) = UNION {Reports(field)[stage] : stage \in 1..Len(executed)}

LEMMA FieldExactMeans ==
  ASSUME executed \in Seq(StageOutputs)
  PROVE  (\A field \in Fields : FieldExact(field)) <=>
           /\ SeenIsReported
           /\ \A field \in Fields :
                aggregate[field] =
                  UNION {[id : {id \in executed[stage][field] : ~ReportedBefore(id, field, stage)},
                          stage : {stage}] : stage \in 1..Len(executed)}
<1> SUFFICES ASSUME NEW field \in Fields
             PROVE  /\ FirstFindings(Reports(field), Len(executed)) =
                         UNION {[id : {id \in executed[stage][field] :
                                         ~ReportedBefore(id, field, stage)},
                                 stage : {stage}] : stage \in 1..Len(executed)}
                    /\ UNION {Reports(field)[stage] : stage \in 1..Len(executed)} =
                         UNION {executed[stage][field] : stage \in 1..Len(executed)}
  BY DEF FieldExact, SeenIsReported, Fields
<1>1. Len(executed) \in Nat
  OBVIOUS
<1>2. \A stage \in 1..Len(executed) : Reports(field)[stage] = executed[stage][field]
  BY DEF Reports
<1>3. ASSUME NEW stage \in 1..Len(executed)
      PROVE  NewIn(Reports(field), stage) =
               {id \in executed[stage][field] : ~ReportedBefore(id, field, stage)}
  <2>1. \A earlier \in 1..(stage - 1) : earlier \in 1..Len(executed)
    BY <1>1
  <2> QED
    BY <1>2, <2>1 DEF NewIn, ReportedBefore
<1> QED
  BY <1>2, <1>3 DEF FirstFindings
\* The checklist keys no stage that covers them has failed to confirm.
ChecklistExact ==
  aggregate.checklist =
    {key \in Checklist : \A stage \in 1..Len(executed) :
       key \in LayerKeys[stage] => key \in executed[stage].checklist}

AllExecuted ==
  state \in {"PlanResolution", "Done", "completed"} => Len(executed) = Len(LayerKeys)

ChildType ==
  /\ state \in {"start", "ExecutePromptLayer", "PlanResolution", "Done",
                "completed", "failed"}
  /\ stageIndex \in 0..Len(LayerKeys)
  /\ aggregate \in [issues : SUBSET Found(Issues), items : SUBSET Found(Items),
                    questions : SUBSET Found(FollowUpIds), checklist : SUBSET Checklist]
  /\ executed \in Seq(StageOutputs)
  /\ final \in BOOLEAN

ChildInv ==
  /\ ChildType
  /\ StagesCounted
  /\ \A field \in Fields : FieldExact(field)
  /\ ChecklistExact
  /\ AllExecuted

Parts == PromptInv /\ ChildInv /\ crashes \in 0..MaxCrashes

LEMMA IInvParts == IInv <=> Parts
<1>1. ChildType => executed \in Seq(StageOutputs)
  BY DEF ChildType
<1>2. ChildType /\ PromptTypeOK /\ crashes \in 0..MaxCrashes <=> TypeOK
  BY DEF ChildType, TypeOK
<1>3. ASSUME ChildType
      PROVE  (\A field \in Fields : FieldExact(field)) /\ ChecklistExact /\ AllExecuted
               <=> SeenIsReported /\ CoverageIsExact
  BY <1>1, <1>3, FieldExactMeans DEF CoverageIsExact, ChecklistExact, AllExecuted, Fields
<1> QED
  BY <1>2, <1>3 DEF IInv, PromptInv, ChildInv, Parts

LEMMA IInvPartsNext == IInv' <=> Parts'
  BY IInvParts, PTL

LEMMA LayerCount == Len(LayerKeys) \in Nat /\ LayerKeys \in Seq(SUBSET Checklist)
  BY LayerAssumption

LEMMA NothingFoundType ==
  /\ NoFindings \in [issues : SUBSET Found(Issues), items : SUBSET Found(Items),
                     questions : SUBSET Found(FollowUpIds), checklist : SUBSET Checklist]
  /\ <<>> \in Seq(StageOutputs)
  BY DEF NoFindings

\* Before the first stage nothing is found, and no key is in doubt.
LEMMA NothingExecuted ==
  ASSUME executed = <<>>, aggregate = NoFindings, stageIndex = 0, final = FALSE,
         state = "start"
  PROVE  ChildInv
<1>1. Len(executed) = 0 /\ 1..Len(executed) = {}
  OBVIOUS
<1>2. ChildType
  <2>1. stageIndex \in 0..Len(LayerKeys)
    BY LayerCount
  <2>2. executed \in Seq(StageOutputs)
    OBVIOUS
  <2> QED
    BY <2>1, <2>2, NothingFoundType DEF ChildType
<1>5. StagesCounted /\ AllExecuted
  BY <1>1 DEF StagesCounted, AllExecuted
<1>3. ChecklistExact
  BY <1>1 DEF ChecklistExact, NoFindings
<1>4. ASSUME NEW field \in Fields PROVE FieldExact(field)
  <2>1. aggregate[field] = {}
    BY DEF NoFindings, Fields
  <2> QED
    BY <1>1, <2>1 DEF FieldExact, FirstFindings, Seen
<1> QED
  BY <1>2, <1>3, <1>4, <1>5 DEF ChildInv

\* The handlers that move on without a stage's output.
LEMMA SameCoverage ==
  ASSUME ChildInv,
         UNCHANGED <<stageIndex, aggregate, executed>>,
         final' \in BOOLEAN,
         state' \in {"start", "ExecutePromptLayer", "PlanResolution", "Done",
                     "completed", "failed"},
         state' = "start" => executed = <<>>,
         state' = "ExecutePromptLayer" => Len(executed) < Len(LayerKeys),
         state' \in {"PlanResolution", "Done", "completed"} =>
           Len(executed) = Len(LayerKeys)
  PROVE  ChildInv'
<1>1. ChildType' /\ StagesCounted' /\ AllExecuted' /\ ChecklistExact'
  BY DEF ChildInv, ChildType, StagesCounted, AllExecuted, ChecklistExact
<1>2. ASSUME NEW field \in Fields PROVE FieldExact(field)'
  BY DEF ChildInv, FieldExact, Reports
<1> QED
  BY <1>1, <1>2 DEF ChildInv

LEMMA MergeStageKeeps ==
  ASSUME ChildInv, NEW output \in StageOutputs, MergeStageOutput(output)
  PROVE  ChildInv'
<1> DEFINE n == Len(executed)
<1> DEFINE stage == n + 1
<1>1. /\ executed \in Seq(StageOutputs) /\ n \in Nat /\ stageIndex = n
      /\ n < Len(LayerKeys)
      /\ stage \in Layers
      /\ Len(LayerKeys) \in Nat
  BY LayerCount DEF ChildInv, ChildType, StagesCounted, MergeStageOutput, Layers
<1>2. /\ executed' \in Seq(StageOutputs)
      /\ Len(executed') = stage
      /\ executed'[stage] = output
      /\ \A s \in 1..n : executed'[s] = executed[s]
      /\ executed' # <<>>
  BY <1>1 DEF MergeStageOutput
<1>3. /\ aggregate' =
           [issues |-> Merge(aggregate.issues, output.issues, stage),
            items |-> Merge(aggregate.items, output.items, stage),
            questions |-> Merge(aggregate.questions, output.questions, stage),
            checklist |-> MergedChecklist(aggregate.checklist, output.checklist, LayerKeys[stage])]
      /\ stageIndex' = stage
      /\ state' = IF stage >= Len(LayerKeys) THEN "PlanResolution" ELSE "ExecutePromptLayer"
      /\ final' = final
  BY <1>1 DEF MergeStageOutput
<1>4. ChildType'
  <2>1. /\ output.issues \in SUBSET Issues /\ output.items \in SUBSET Items
        /\ output.questions \in SUBSET FollowUpIds
        /\ aggregate.issues \in SUBSET Found(Issues) /\ aggregate.items \in SUBSET Found(Items)
        /\ aggregate.questions \in SUBSET Found(FollowUpIds)
        /\ aggregate.checklist \in SUBSET Checklist
    BY DEF StageOutputs, ChildInv, ChildType
  <2>2. /\ Merge(aggregate.issues, output.issues, stage) \in SUBSET Found(Issues)
        /\ Merge(aggregate.items, output.items, stage) \in SUBSET Found(Items)
        /\ Merge(aggregate.questions, output.questions, stage) \in SUBSET Found(FollowUpIds)
    BY <1>1, <2>1, MergeType
  <2>3. MergedChecklist(aggregate.checklist, output.checklist, LayerKeys[stage])
          \in SUBSET Checklist
    BY <2>1 DEF MergedChecklist
  <2>4. aggregate' \in [issues : SUBSET Found(Issues), items : SUBSET Found(Items),
                        questions : SUBSET Found(FollowUpIds), checklist : SUBSET Checklist]
    BY <1>3, <2>2, <2>3
  <2>5. stageIndex' \in 0..Len(LayerKeys) /\ final' \in BOOLEAN
    BY <1>1, <1>3 DEF ChildInv, ChildType
  <2> QED
    BY <1>2, <1>3, <2>4, <2>5 DEF ChildType
<1>5. StagesCounted' /\ AllExecuted'
  BY <1>1, <1>2, <1>3 DEF StagesCounted, AllExecuted
<1>6. ChecklistExact'
  <2>1. aggregate'.checklist =
          {key \in aggregate.checklist : key \in LayerKeys[stage] => key \in output.checklist}
    BY <1>3 DEF MergedChecklist
  <2>2. aggregate.checklist =
          {key \in Checklist : \A s \in 1..n :
             key \in LayerKeys[s] => key \in executed[s].checklist}
    BY DEF ChildInv, ChecklistExact
  <2>3. 1..Len(executed') = 1..n \cup {stage}
    BY <1>1, <1>2
  <2>4. \A key \in Checklist :
          (\A s \in 1..Len(executed') : key \in LayerKeys[s] => key \in executed'[s].checklist)
          <=> /\ \A s \in 1..n : key \in LayerKeys[s] => key \in executed[s].checklist
              /\ key \in LayerKeys[stage] => key \in output.checklist
    BY <1>2, <2>3
  <2> HIDE DEF n, stage
  <2> QED
    BY <2>1, <2>2, <2>4 DEF ChecklistExact
<1>7. ASSUME NEW field \in Fields PROVE FieldExact(field)'
  <2> DEFINE reports == [s \in 1..Len(executed') |-> executed'[s][field]]
  <2>1. /\ reports[stage] = output[field]
        /\ \A s \in 1..n : reports[s] = Reports(field)[s]
        /\ reports = Reports(field)'
    BY <1>1, <1>2 DEF Reports
  <2>2. aggregate'[field] = Merge(aggregate[field], output[field], stage)
    BY <1>3 DEF Fields
  <2>3. FirstFindings(Reports(field), n) = FirstFindings(reports, n)
    <3>1. ASSUME NEW s \in 1..n PROVE NewIn(Reports(field), s) = NewIn(reports, s)
      <4>1. \A earlier \in 1..(s - 1) : earlier \in 1..n
        BY <1>1
      <4> QED
        BY <2>1, <4>1 DEF NewIn
    <3> QED
      BY <3>1 DEF FirstFindings
  <2>4. /\ aggregate[field] = FirstFindings(reports, n)
        /\ Seen(aggregate[field]) = UNION {reports[s] : s \in 1..n}
    <3>1. FieldExact(field)
      BY DEF ChildInv
    <3> HIDE DEF reports
    <3> QED
      BY <2>1, <2>3, <3>1 DEF FieldExact
  <2>5. /\ aggregate'[field] = FirstFindings(reports, stage)
        /\ Seen(aggregate'[field]) = UNION {reports[s] : s \in 1..stage}
    <3> HIDE DEF reports
    <3> QED
      BY <1>1, <2>1, <2>2, <2>4, MergeIsExact
  <2> HIDE DEF reports
  <2> QED
    BY <1>2, <2>1, <2>5 DEF FieldExact
<1> QED
  BY <1>4, <1>5, <1>6, <1>7 DEF ChildInv

-----------------------------------------------------------------------------
(* Every step of child and delegation keeps both invariants.               *)

LEMMA NextKeeps == IInv /\ [Next]_vars => IInv'
<1> SUFFICES ASSUME PromptInv, ChildInv, crashes \in 0..MaxCrashes, [Next]_vars
             PROVE  PromptInv' /\ ChildInv' /\ crashes' \in 0..MaxCrashes
  BY IInvParts, IInvPartsNext DEF Parts
<1>1. CASE Start \/ RejectInput \/ (\E accepted \in BOOLEAN : Finish(accepted))
  <2>1. UNCHANGED promptVars /\ crashes' = crashes
    BY <1>1 DEF Start, RejectInput, Finish
  <2>2. ChildInv'
    <3>1. Start => Len(executed) < Len(LayerKeys)
      BY LayerCount DEF Start, Layers, ChildInv, StagesCounted
    <3>2. state = "Done" => Len(executed) = Len(LayerKeys)
      BY DEF ChildInv, AllExecuted
    <3>3. /\ UNCHANGED <<stageIndex, aggregate, executed>> /\ final' \in BOOLEAN
          /\ \/ state' = "ExecutePromptLayer" /\ Start
             \/ state' = "failed"
             \/ state' = "completed" /\ state = "Done"
      BY <1>1 DEF Start, RejectInput, Finish, ChildInv, ChildType
    <3> QED
      BY <3>1, <3>2, <3>3, SameCoverage
  <2> QED
    BY <2>1, <2>2, PromptUnchanged
<1>2. CASE Delegate
  BY <1>2, SpawnKeeps, SameCoverage
     DEF Delegate, childVars, ChildInv, ChildType, StagesCounted, AllExecuted
<1>3. ASSUME NEW output \in StageOutputs, MergeStageOutput(output)
      PROVE  PromptInv' /\ ChildInv' /\ crashes' \in 0..MaxCrashes
  BY <1>3, MergeStageKeeps, TakeResultKeeps DEF MergeStageOutput, TakeResult
<1>4. CASE AuthorResolution \/ DelegationFails
  <2>1. PromptInv' /\ crashes' = crashes
    BY <1>4, TakeResultKeeps DEF AuthorResolution, DelegationFails, TakeResult
  <2>2. ChildInv'
    BY <1>4, SameCoverage DEF AuthorResolution, DelegationFails, ChildInv, ChildType, AllExecuted
  <2> QED
    BY <2>1, <2>2
<1>5. CASE PromptSteps
  BY <1>5, PromptStepKeeps, SameCoverage
     DEF PromptSteps, childVars, ChildInv, ChildType, StagesCounted, AllExecuted
<1>6. CASE Crash
  <2>1. PromptInv'
    <3>1. PromptInit'
      BY <1>6 DEF Crash, PromptInit
    <3> QED
      BY <3>1, FreshPrompt
  <2>2. ChildInv'
    <3>1. /\ executed' = <<>> /\ aggregate' = NoFindings /\ stageIndex' = 0
          /\ final' = FALSE /\ state' = "start"
      BY <1>6 DEF Crash
    <3>2. 1..Len(executed') = {} /\ Len(executed') = 0
      BY <3>1
    <3>3. /\ ChildType' /\ StagesCounted' /\ AllExecuted'
          /\ ChecklistExact'
      <4>1. ChildType'
        <5>1. stageIndex' \in 0..Len(LayerKeys)
          BY <3>1, LayerCount
        <5>2. executed' \in Seq(StageOutputs)
          BY <3>1
        <5> QED
          BY <3>1, <5>1, <5>2, NothingFoundType DEF ChildType
      <4>2. StagesCounted' /\ AllExecuted'
        BY <3>1, <3>2 DEF StagesCounted, AllExecuted
      <4>3. ChecklistExact'
        BY <3>1, <3>2 DEF ChecklistExact, NoFindings
      <4> QED
        BY <4>1, <4>2, <4>3
    <3>4. ASSUME NEW field \in Fields PROVE FieldExact(field)'
      <4>1. aggregate'[field] = {}
        BY <3>1 DEF NoFindings, Fields
      <4> QED
        BY <3>2, <4>1 DEF FieldExact, FirstFindings, Seen
    <3> QED
      BY <3>3, <3>4 DEF ChildInv
  <2>3. crashes' \in 0..MaxCrashes
    BY <1>6, CrashAssumption DEF Crash
  <2> QED
    BY <2>1, <2>2, <2>3
<1>7. CASE UNCHANGED vars
  <2>1. UNCHANGED promptVars /\ UNCHANGED childVars /\ crashes' = crashes
    BY <1>7 DEF vars
  <2> QED
    BY <2>1, PromptUnchanged, SameCoverage
       DEF childVars, ChildInv, ChildType, StagesCounted, AllExecuted
<1> QED
  BY <1>1, <1>2, <1>3, <1>4, <1>5, <1>6, <1>7 DEF Next, Handler

LEMMA Invariance == Spec => []IInv
<1>1. Init => IInv
  <2> SUFFICES ASSUME Init PROVE PromptInv /\ ChildInv /\ crashes \in 0..MaxCrashes
    BY IInvParts DEF Parts
  <2>1. PromptInv
    BY FreshPrompt DEF Init
  <2>2. ChildInv
    BY NothingExecuted DEF Init, ChildInit
  <2>3. crashes \in 0..MaxCrashes
    BY CrashAssumption DEF Init
  <2> QED
    BY <2>1, <2>2, <2>3
<1>2. IInv /\ [Next]_vars => IInv'
  BY NextKeeps
<1> QED
  BY <1>1, <1>2, PTL DEF Spec

-----------------------------------------------------------------------------
(* The theorems.                                                           *)

\* Child and delegation keep their types: no more than MaxRetries follow-ups
\* are counted and no stage is executed beyond the last layer.
THEOREM TypeCorrect == Spec => []TypeOK
<1>1. IInv => TypeOK
  BY DEF IInv
<1> QED
  BY <1>1, Invariance, PTL

\* However text, replies, exits and the timer interleave, a reply is parsed
\* from the text of its own exchange (copilot-prompt.ts 204-298).
THEOREM RepliesReadOwnText == Spec => []OwnText
<1>1. IInv => OwnText
  BY DEF IInv
<1> QED
  BY <1>1, Invariance, PTL

\* A delegation that has returned has told its process to go, whether it
\* succeeded, failed or timed out (copilot-prompt.ts 171-298).
THEOREM ProcessesAreToldToGo == Spec => []NothingLeftRunning
<1>1. IInv => NothingLeftRunning
  BY DEF IInv
<1> QED
  BY <1>1, Invariance, PTL

\* The aggregate the resolution is given holds exactly what the executed layers
\* reported, each finding with its first layer, and the resolution is not
\* reached before every layer has been executed, for every sequence of layers
\* (consistency-follow-up-child.ts).
THEOREM SweepIsComplete == Spec => []CoverageIsExact
<1>1. IInv => CoverageIsExact
  BY DEF IInv
<1> QED
  BY <1>1, Invariance, PTL

=============================================================================
