-------------------------- MODULE DeepPipelineProofs --------------------------
(* Proofs about the deep call, for any deadline, retry configuration,      *)
(* scores of the models and thresholds that are no approvals.              *)
EXTENDS DeepPipeline, TLAPS

LEMMA WaitBound == LongestWait \in Nat
  BY PipelineAssumption DEF LongestWait, MaxScore

LEMMA InputType ==
  ASSUME input \in Inputs
  PROVE  /\ input.domain \in {"cross_border", "stock"}
         /\ input.kind \in {"inprocess", "external"}
         /\ input.local \in {NoPrimary, Evidence}
  BY PipelineAssumption DEF Inputs

LEMMA AssessmentType ==
  ASSUME NEW p \in Assessments \cup {NoPrimary, Evidence}
  PROVE  /\ p.score \in Score
         /\ p.needs \in BOOLEAN
         /\ p.by = "model" <=> p \in Assessments
  <1>1. CASE p \in Assessments
    BY <1>1, PipelineAssumption DEF Assessments
  <1>2. CASE p = NoPrimary
    <2>1. p.score = 0 /\ p.needs = FALSE /\ p.by = "none"
      BY <1>2 DEF NoPrimary
    <2>2. p.by # "model" /\ p \notin Assessments
      BY <2>1 DEF Assessments
    <2>3. p.score \in Score
      BY <2>1 DEF Score
    <2>4. p.needs \in BOOLEAN
      BY <2>1
    <2>5. QED
      BY <2>2, <2>3, <2>4
  <1>3. CASE p = Evidence
    <2>1. p.score = 40 /\ p.needs = TRUE /\ p.by = "rules"
      BY <1>3 DEF Evidence
    <2>2. p.by # "model" /\ p \notin Assessments
      BY <2>1 DEF Assessments
    <2>3. p.score \in Score
      BY <2>1 DEF Score
    <2>4. p.needs \in BOOLEAN
      BY <2>1
    <2>5. QED
      BY <2>2, <2>3, <2>4
  <1>4. QED
    BY <1>1, <1>2, <1>3

LEMMA CheckTypes ==
    /\ Opinions \subseteq Checks
    /\ NoSecondary \in Checks
    /\ \A s \in Score : Placeholder("skipped", s) \in Checks
    /\ \A s \in Score : Placeholder("degraded", s) \in Checks
  <1>1. Opinions \subseteq Checks
    BY PipelineAssumption DEF Opinions, Checks
  <1>2. NoSecondary \in Checks
    <2>1. 0 \in Score
      BY DEF Score
    <2>2. QED
      BY <2>1 DEF NoSecondary, Checks
  <1>3. \A s \in Score : Placeholder("skipped", s) \in Checks /\ Placeholder("degraded", s) \in Checks
    BY DEF Placeholder, Checks
  <1>4. QED
    BY <1>1, <1>2, <1>3

LEMMA DecisionType == \A s \in Score : DecisionFromScore(s) \in Decisions
  BY DEF DecisionFromScore, Decisions

(* The score that decides, the score that is shown and the output made of  *)
(* them are well formed.                                                   *)
LEMMA OutputType ==
  ASSUME primary \in Assessments \cup {NoPrimary, Evidence}, secondary \in Checks
  PROVE  /\ DecidingScore(primary, secondary) \in Score
         /\ PipelineOutput \in DeepOutputs
  <1>1. primary.score \in Score /\ secondary.score \in Score
    BY AssessmentType DEF Checks
  <1>2. DecidingScore(primary, secondary) \in {primary.score, secondary.score, 70}
    <2>1. CASE secondary.status # "ran"
      BY <2>1 DEF DecidingScore
    <2>2. CASE secondary.status = "ran" /\ IsCB /\ secondary.confirmed /\ secondary.score < 65
      BY <2>2 DEF DecidingScore
    <2>3. CASE secondary.status = "ran" /\ ~(IsCB /\ secondary.confirmed /\ secondary.score < 65)
      BY <2>3 DEF DecidingScore
    <2>4. QED
      BY <2>1, <2>2, <2>3
  <1>3. DecidingScore(primary, secondary) \in Score
    BY <1>1, <1>2 DEF Score
  <1>4. OutputScore(primary, secondary) \in Score
    BY <1>1, <1>3 DEF OutputScore
  <1>5. QED
    BY <1>3, <1>4, DecisionType DEF PipelineOutput, DeepOutputs

-----------------------------------------------------------------------------
(* Type correctness.  The number of attempts stays within its type because *)
(* of what retry.go:42-55 does: a backoff is entered before the last        *)
(* attempt only, and only by a stage that calls a model.                    *)
RetryInv ==
    /\ stage \in ModelStages =>
        /\ retry # "none"
        /\ attempt \in 1 .. MaxAttempts
        /\ input.kind = "inprocess"
    /\ stage \notin ModelStages => retry = "none"
    /\ stage = "external" => input.kind = "external"
    /\ retry = "backoff" => attempt < MaxAttempts

TypeInv == TypeOK /\ RetryInv

LEMMA InitTyped == Init => TypeInv
  <1> SUFFICES ASSUME Init PROVE TypeOK /\ RetryInv
    BY DEF TypeInv
  <1>1. primary \in Assessments \cup {NoPrimary, Evidence}
    BY InputType DEF Init
  <1>2. NoOutput \in DeepOutputs /\ NoAnswer \in Answers /\ NoSecondary \in Checks
    BY CheckTypes DEF NoOutput, DeepOutputs, NoAnswer, Answers, Score, Shown
  <1>3. QED
    BY <1>1, <1>2, WaitBound, PipelineAssumption
       DEF Init, TypeOK, Stages, RetryInv, ModelStages

(* What the steps share.                                                   *)
LEMMA CallTyped ==
  ASSUME TypeOK, NEW s \in ModelStages, NEW n \in 1 .. MaxAttempts, Call(s, n)
  PROVE  /\ stage' \in Stages
         /\ retry' \in {"none", "calling", "backoff"}
         /\ attempt' \in 0 .. MaxAttempts
         /\ wait' \in 0 .. LongestWait
         /\ left' \in 0 .. Deadline
         /\ calls' \in Nat /\ lateCalls' \in Nat
  BY WaitBound, PipelineAssumption DEF TypeOK, Call, Stages, Running

LEMMA EndTyped ==
  ASSUME TypeOK, NEW s \in Stages, End(s)
  PROVE  /\ stage' \in Stages
         /\ retry' \in {"none", "calling", "backoff"}
         /\ attempt' \in 0 .. MaxAttempts
         /\ wait' \in 0 .. LongestWait
         /\ left' \in 0 .. Deadline
         /\ calls' \in Nat /\ lateCalls' \in Nat
  BY WaitBound, PipelineAssumption DEF TypeOK, End, history

LEMMA FirstAttempt == 1 \in 1 .. MaxAttempts
  BY PipelineAssumption

LEMMA DegradeTyped ==
  ASSUME TypeOK, Degrade, UNCHANGED <<input, answer>>
  PROVE  TypeOK'
  <1>1. primary.score \in Score
    BY AssessmentType DEF TypeOK
  <1>2. secondary' \in Checks
    BY <1>1, CheckTypes DEF Degrade
  <1>3. audit' \subseteq Entries
    BY DEF TypeOK, Degrade, Entries
  <1>4. Call("report", 1)
    BY DEF Degrade
  <1>5. QED
    BY <1>2, <1>3, <1>4, CallTyped, FirstAttempt DEF TypeOK, Degrade, ModelStages

LEMMA StageFailsTyped ==
  ASSUME TypeOK, StageFails, UNCHANGED <<input, answer>>
  PROVE  TypeOK'
  <1>1. CASE stage = "secondary" /\ Degrade
    BY <1>1, DegradeTyped
  <1>2. CASE End("failed") /\ UNCHANGED <<state, audit, output>>
    BY <1>2, EndTyped DEF TypeOK, Stages, state
  <1>3. QED
    BY <1>1, <1>2 DEF StageFails

LEMMA PrimaryTyped ==
  ASSUME TypeOK, NEW p \in Assessments, PrimaryAnswers(p)
  PROVE  TypeOK'
  <1>1. p.score \in Score
    BY AssessmentType
  <1>2. secondary' \in Checks /\ audit' \subseteq Entries
    BY <1>1, CheckTypes DEF TypeOK, PrimaryAnswers, Entries
  <1>3. Call("secondary", 1) \/ Call("report", 1)
    BY DEF PrimaryAnswers
  <1>4. QED
    BY <1>2, <1>3, CallTyped, FirstAttempt DEF TypeOK, PrimaryAnswers, ModelStages, result

LEMMA AnswerTyped ==
  ASSUME TypeOK, FinalizeDeep \/ FinalizeLocal
  PROVE  TypeOK'
  <1>1. CASE FinalizeDeep
    <2>1. audit' \subseteq Entries
      BY <1>1 DEF TypeOK, FinalizeDeep, Entries
    <2>2. output.score \in Score /\ output.dec \in Decisions \cup {"", "other"}
      BY DEF TypeOK, DeepOutputs
    <2>3. answer'.dec \in Decisions \cup {"", "other"}
      BY <1>1, <2>2, DecisionType DEF FinalizeDeep
    <2>4. answer' \in Answers
      BY <1>1, <2>1, <2>2, DecisionType DEF FinalizeDeep, Answers, Shown
    <2>5. QED
      BY <1>1, <2>1, <2>4 DEF FinalizeDeep, TypeOK, Stages, timing, state, history
  <1>2. CASE FinalizeLocal
    <2>1. audit' \subseteq Entries
      BY <1>2 DEF TypeOK, FinalizeLocal, Entries
    <2>2. answer' \in Answers
      BY <1>2, <2>1 DEF FinalizeLocal, Answers, Shown, Score, Decisions
    <2>3. QED
      BY <1>2, <2>1, <2>2 DEF FinalizeLocal, TypeOK, Stages, timing, state, history
  <1>3. QED
    BY <1>1, <1>2

LEMMA StepTyped == TypeInv /\ [Next]_vars => TypeOK'
  <1> SUFFICES ASSUME TypeOK, RetryInv, [Next]_vars PROVE TypeOK'
    BY DEF TypeInv
  <1>1. CASE Invoke
    BY <1>1, CallTyped, EndTyped, FirstAttempt
       DEF Invoke, TypeOK, ModelStages, Stages, Running, state, result
  <1>2. ASSUME NEW p \in Assessments, PrimaryAnswers(p) PROVE TypeOK'
    BY <1>2, PrimaryTyped
  <1>3. ASSUME NEW s \in Opinions, SecondaryAnswers(s) PROVE TypeOK'
    <2>1. secondary' \in Checks /\ audit' \subseteq Entries
      BY <1>3, CheckTypes DEF TypeOK, SecondaryAnswers, Entries
    <2>2. Call("report", 1)
      BY <1>3 DEF SecondaryAnswers
    <2>3. QED
      BY <1>3, <2>1, <2>2, CallTyped, FirstAttempt
         DEF TypeOK, SecondaryAnswers, ModelStages, result
  <1>4. CASE ReportAnswers
    <2>1. output' \in DeepOutputs
      BY <1>4, OutputType DEF TypeOK, ReportAnswers
    <2>2. audit' \subseteq Entries
      BY <1>4 DEF TypeOK, ReportAnswers, Entries
    <2>3. End("returned")
      BY <1>4 DEF ReportAnswers
    <2>4. QED
      BY <1>4, <2>1, <2>2, <2>3, EndTyped DEF TypeOK, ReportAnswers, Stages, state
  <1>5. CASE Unparsable \/ CallFailsForGood \/ BackoffCut
    BY <1>5, StageFailsTyped DEF Unparsable, CallFailsForGood, BackoffCut
  <1>6. CASE CallFailsForNow
    <2>1. wait' \in 0 .. LongestWait
      BY <1>6 DEF CallFailsForNow, Delays
    <2>2. QED
      BY <1>6, <2>1 DEF CallFailsForNow, TypeOK, state, result, history
  <1>7. CASE CallAgain
    <2>1. stage \in ModelStages /\ attempt + 1 \in 1 .. MaxAttempts
      BY <1>7, PipelineAssumption DEF CallAgain, RetryInv
    <2>2. Call(stage, attempt + 1)
      BY <1>7 DEF CallAgain
    <2>3. QED
      BY <1>7, <2>1, <2>2, CallTyped DEF CallAgain, TypeOK, state, result
  <1>8. ASSUME NEW out \in Printed, SubprocessAnswers(out) PROVE TypeOK'
    <2>1. output' \in DeepOutputs
      BY <1>8, PipelineAssumption DEF SubprocessAnswers, Printed, DeepOutputs
    <2>2. QED
      BY <1>8, <2>1, EndTyped DEF SubprocessAnswers, TypeOK, Stages, state
  <1>9. CASE SubprocessFails
    BY <1>9, EndTyped DEF SubprocessFails, TypeOK, Stages, state, result
  <1>10. CASE FinalizeDeep \/ FinalizeLocal
    BY <1>10, AnswerTyped
  <1>11. CASE Tick \/ ClientGone
    <2>1. left' \in 0 .. Deadline /\ wait' \in 0 .. LongestWait
      BY <1>11, WaitBound, PipelineAssumption DEF Tick, ClientGone, TypeOK
    <2>2. QED
      BY <1>11, <2>1 DEF Tick, ClientGone, TypeOK, state, result, history
  <1>12. CASE UNCHANGED vars
    BY <1>12 DEF vars, TypeOK, timing, state, result, history
  <1>13. QED
    BY <1>1, <1>2, <1>3, <1>4, <1>5, <1>6, <1>7, <1>8, <1>9, <1>10, <1>11, <1>12
       DEF Next, Step

LEMMA StepRetry == TypeInv /\ [Next]_vars => RetryInv'
  <1> SUFFICES ASSUME TypeOK, RetryInv, [Next]_vars PROVE RetryInv'
    BY DEF TypeInv
  <1> USE DEF RetryInv, ModelStages
  <1>1. CASE Invoke
    <2>1. input.kind \in {"inprocess", "external"}
      BY InputType DEF TypeOK
    <2>2. QED
      BY <1>1, <2>1, FirstAttempt DEF Invoke, Call, End
  <1>2. ASSUME NEW p \in Assessments, PrimaryAnswers(p) PROVE RetryInv'
    BY <1>2, FirstAttempt DEF PrimaryAnswers, Responds, Call
  <1>3. ASSUME NEW s \in Opinions, SecondaryAnswers(s) PROVE RetryInv'
    BY <1>3, FirstAttempt DEF SecondaryAnswers, Responds, Call
  <1>4. CASE ReportAnswers
    BY <1>4 DEF ReportAnswers, End
  <1>5. CASE Unparsable \/ CallFailsForGood \/ BackoffCut
    BY <1>5, FirstAttempt DEF Unparsable, CallFailsForGood, BackoffCut, StageFails, Degrade, Call, End
  <1>6. CASE CallFailsForNow
    BY <1>6 DEF CallFailsForNow
  <1>7. CASE CallAgain
    BY <1>7, PipelineAssumption DEF CallAgain, Call
  <1>8. ASSUME NEW out \in Printed, SubprocessAnswers(out) PROVE RetryInv'
    BY <1>8 DEF SubprocessAnswers, End
  <1>9. CASE SubprocessFails
    BY <1>9 DEF SubprocessFails, End
  <1>10. CASE FinalizeDeep \/ FinalizeLocal
    BY <1>10 DEF FinalizeDeep, FinalizeLocal, timing
  <1>11. CASE Tick \/ ClientGone
    BY <1>11 DEF Tick, ClientGone
  <1>12. CASE UNCHANGED vars
    BY <1>12 DEF vars, timing
  <1>13. QED
    BY <1>1, <1>2, <1>3, <1>4, <1>5, <1>6, <1>7, <1>8, <1>9, <1>10, <1>11, <1>12
       DEF Next, Step

(* The attempts of a call stay below their limit, the waiting time below    *)
(* its bound, and the output and the answer are well formed                 *)
(* (llm/retry.go:42-64, 83-101, deep.go:176-216).                           *)
THEOREM TypeCorrect == Spec => []TypeOK
  <1>1. TypeInv /\ [Next]_vars => TypeInv'
    BY StepTyped, StepRetry DEF TypeInv
  <1>2. TypeInv => TypeOK
    BY DEF TypeInv
  <1>3. QED
    BY InitTyped, <1>1, <1>2, PTL DEF Spec

LEMMA TypeHolds == Spec => []TypeInv
  <1>1. TypeInv /\ [Next]_vars => TypeInv'
    BY StepTyped, StepRetry DEF TypeInv
  <1>2. QED
    BY InitTyped, <1>1, PTL DEF Spec

-----------------------------------------------------------------------------
(* The calls.  Before the deadline no call is late; after it a call has no *)
(* retry, so a stage makes at most one late call, and only a degraded      *)
(* check is followed by another stage.                                     *)
CallInv ==
    /\ stage \in {"idle", "external"} => calls = 0
    /\ stage = "primary" => calls <= attempt
    /\ stage = "secondary" => calls <= MaxAttempts + attempt
    /\ stage = "report" => calls <= 2 * MaxAttempts + attempt
    /\ calls <= 3 * MaxAttempts
    /\ left > 0 \/ retry = "backoff" => lateCalls = 0
    /\ stage \in {"idle", "external"} => lateCalls = 0
    /\ stage \in {"primary", "secondary"} => lateCalls <= 1
    /\ lateCalls <= 2

LEMMA InitCalls == Init => CallInv
  BY PipelineAssumption DEF Init, CallInv

LEMMA StepCalls == TypeInv /\ CallInv /\ [Next]_vars => CallInv'
  <1> SUFFICES ASSUME TypeOK, RetryInv, CallInv, [Next]_vars PROVE CallInv'
    BY DEF TypeInv
  <1>0. /\ MaxAttempts \in Nat \ {0}
        /\ calls \in Nat /\ lateCalls \in Nat /\ left \in Nat /\ attempt \in Nat
    BY PipelineAssumption DEF TypeOK
  <1> USE <1>0 DEF CallInv
  <1>1. CASE Invoke
    BY <1>1 DEF Invoke, Call, End, history
  <1>2. ASSUME NEW p \in Assessments, PrimaryAnswers(p) PROVE CallInv'
    <2>1. stage = "primary" /\ attempt <= MaxAttempts /\ left > 0
      BY <1>2 DEF PrimaryAnswers, Responds, RetryInv, ModelStages
    <2>2. Call("secondary", 1) \/ Call("report", 1)
      BY <1>2 DEF PrimaryAnswers
    <2>3. QED
      BY <2>1, <2>2 DEF Call
  <1>3. ASSUME NEW s \in Opinions, SecondaryAnswers(s) PROVE CallInv'
    <2>1. stage = "secondary" /\ attempt <= MaxAttempts /\ left > 0
      BY <1>3 DEF SecondaryAnswers, Responds, RetryInv, ModelStages
    <2>2. QED
      BY <1>3, <2>1 DEF SecondaryAnswers, Call
  <1>4. CASE ReportAnswers
    BY <1>4 DEF ReportAnswers, Responds, End, history
  <1>5. CASE Unparsable \/ CallFailsForGood \/ BackoffCut
    <2>1. CASE End("failed")
      BY <2>1 DEF End, history
    <2>2. CASE stage = "secondary" /\ Degrade
      <3>1. attempt <= MaxAttempts
        BY <2>2 DEF RetryInv, ModelStages
      <3>2. QED
        BY <2>2, <3>1 DEF Degrade, Call
    <2>3. QED
      BY <1>5, <2>1, <2>2 DEF Unparsable, CallFailsForGood, BackoffCut, StageFails
  <1>6. CASE CallFailsForNow
    BY <1>6 DEF CallFailsForNow, history
  <1>7. CASE CallAgain
    <2>1. stage \in ModelStages /\ attempt < MaxAttempts
      BY <1>7 DEF CallAgain, RetryInv
    <2>2. QED
      BY <1>7, <2>1 DEF CallAgain, Call, ModelStages
  <1>8. ASSUME NEW out \in Printed, SubprocessAnswers(out) PROVE CallInv'
    BY <1>8 DEF SubprocessAnswers, End, history
  <1>9. CASE SubprocessFails
    BY <1>9 DEF SubprocessFails, End, history
  <1>10. CASE FinalizeDeep \/ FinalizeLocal
    BY <1>10 DEF FinalizeDeep, FinalizeLocal, timing, history, RetryInv, ModelStages
  <1>11. CASE Tick \/ ClientGone
    BY <1>11 DEF Tick, ClientGone, history
  <1>12. CASE UNCHANGED vars
    BY <1>12 DEF vars, timing, history
  <1>13. QED
    BY <1>1, <1>2, <1>3, <1>4, <1>5, <1>6, <1>7, <1>8, <1>9, <1>10, <1>11, <1>12
       DEF Next, Step

(* However the retries of the three stages fall under their common         *)
(* deadline, a deep call makes at most three times MaxAttempts model calls *)
(* and at most two after the deadline (llm/retry.go:42-64).                *)
THEOREM CallsAlwaysBounded == Spec => []CallsBounded
  <1>1. CallInv => CallsBounded
    BY DEF CallInv, CallsBounded
  <1>2. QED
    BY TypeHolds, InitCalls, StepCalls, <1>1, PTL DEF Spec

-----------------------------------------------------------------------------
(* The shared pipeline state.                                              *)

(* What the pipeline wrote into the audit buffer up to the report.         *)
Trail ==
    {"primary"} \cup
    (IF secondary.status = "ran" THEN {"secondary"}
     ELSE IF secondary.status = "degraded" THEN {"secondary_degraded"}
     ELSE IF IsCB THEN {"skip_secondary"} ELSE {})

(* No model answer has been written, or one of the primary assessment and  *)
(* something for the check.                                                *)
Untouched == primary = input.local /\ secondary = NoSecondary

Asked ==
    /\ primary \in Assessments
    /\ secondary.status \in {"skipped", "degraded", "ran"}
    /\ secondary.status = "degraded" => NeedsSecondary(primary)

(* The three ways to have answered.                                        *)
AnsweredByModels ==
    /\ Asked
    /\ answer.records = Trail \cup {"report", "deep_runtime"}
    /\ answer.dec = DecisionFromScore(DecidingScore(primary, secondary))
    /\ answer.score = OutputScore(primary, secondary)
    /\ output.assessed

AnsweredBySubprocess ==
    /\ input.kind = "external"
    /\ "deep_runtime" \in answer.records

AnsweredLocally ==
    /\ answer.dec = "REVIEW"
    /\ answer.primary # "model"
    /\ \/ Untouched /\ answer.records = {"arbiter"}
       \/ Asked /\ answer.records = Trail \cup {"arbiter"}

FlowInv ==
    /\ stage \in {"idle", "primary", "external"} => Untouched /\ audit = {}
    /\ stage = "secondary" =>
        primary \in Assessments /\ NeedsSecondary(primary) /\ audit = {"primary"}
    /\ stage = "report" => Asked /\ audit = Trail
    /\ stage = "failed" => (Untouched /\ audit = {}) \/ (Asked /\ audit = Trail)
    /\ stage = "returned" =>
        \/ Asked /\ audit = Trail \cup {"report"} /\ output = PipelineOutput
        \/ input.kind = "external"
    /\ stage = "answered" => AnsweredByModels \/ AnsweredBySubprocess \/ AnsweredLocally

LEMMA InitFlow == Init => FlowInv
  BY DEF Init, FlowInv, Untouched

(* A stage that fails leaves the trail of what was written.                *)
LEMMA StageFailsFlow ==
  ASSUME TypeInv, FlowInv, StageFails, UNCHANGED <<input, answer>>
  PROVE  FlowInv'
  <1>1. CASE stage = "secondary" /\ Degrade
    <2>1. Asked'
      BY <1>1 DEF FlowInv, Degrade, Placeholder, Asked, NeedsSecondary, IsCB
    <2>2. audit' = Trail'
      BY <1>1 DEF FlowInv, Degrade, Placeholder, Trail, IsCB
    <2>3. QED
      BY <1>1, <2>1, <2>2 DEF FlowInv, Degrade, Call
  <1>2. CASE stage \in {"primary", "report"} /\ End("failed") /\ UNCHANGED <<state, audit, output>>
    BY <1>2 DEF FlowInv, End, state, Untouched, Asked, NeedsSecondary, Trail, IsCB
  <1>3. QED
    BY <1>1, <1>2 DEF StageFails

LEMMA PrimaryFlow ==
  ASSUME TypeInv, FlowInv, NEW p \in Assessments, PrimaryAnswers(p)
  PROVE  FlowInv'
  <1>1. stage = "primary" /\ secondary = NoSecondary /\ audit = {}
    BY DEF PrimaryAnswers, Responds, FlowInv, Untouched
  <1>2. CASE NeedsSecondary(p)
    BY <1>1, <1>2 DEF PrimaryAnswers, Call, FlowInv, NeedsSecondary, IsCB
  <1>3. CASE ~NeedsSecondary(p)
    <2>1. Asked' /\ audit' = Trail'
      BY <1>1, <1>3 DEF PrimaryAnswers, Asked, Trail, Placeholder, IsCB
    <2>2. QED
      BY <1>3, <2>1 DEF PrimaryAnswers, Call, FlowInv
  <1>4. QED
    BY <1>2, <1>3

LEMMA SecondaryFlow ==
  ASSUME TypeInv, FlowInv, NEW s \in Opinions, SecondaryAnswers(s)
  PROVE  FlowInv'
  <1>1. s.status = "ran"
    BY DEF Opinions
  <1>2. Asked' /\ audit' = Trail'
    BY <1>1 DEF FlowInv, SecondaryAnswers, Responds, Asked, Trail
  <1>3. QED
    BY <1>2 DEF SecondaryAnswers, Call, FlowInv

LEMMA ReportFlow ==
  ASSUME TypeInv, FlowInv, ReportAnswers
  PROVE  FlowInv'
  <1>1. Asked /\ audit = Trail
    BY DEF FlowInv, ReportAnswers, Responds
  <1>2. Asked' /\ Trail' = Trail /\ PipelineOutput' = PipelineOutput
    BY <1>1 DEF ReportAnswers, state, Asked, NeedsSecondary, Trail, IsCB, PipelineOutput,
                OutputScore, DecidingScore
  <1>3. QED
    BY <1>1, <1>2 DEF ReportAnswers, End, FlowInv

LEMMA FinalizeFlow ==
  ASSUME TypeInv, FlowInv, FinalizeDeep \/ FinalizeLocal
  PROVE  FlowInv'
  <1>1. CASE FinalizeDeep /\ Asked /\ audit = Trail \cup {"report"} /\ output = PipelineOutput
    <2>1. Asked' /\ Trail' = Trail
      BY <1>1 DEF FinalizeDeep, state, Asked, NeedsSecondary, Trail, IsCB
    <2>2. /\ DecidingScore(primary, secondary)' = DecidingScore(primary, secondary)
          /\ OutputScore(primary, secondary)' = OutputScore(primary, secondary)
      BY <1>1 DEF FinalizeDeep, state, DecidingScore, OutputScore, IsCB
    <2>3. /\ output.dec = DecisionFromScore(DecidingScore(primary, secondary))
          /\ output.score = OutputScore(primary, secondary)
          /\ output.assessed
      BY <1>1 DEF PipelineOutput
    <2>4. output.dec # ""
      BY <2>3, OutputType, DecisionType DEF TypeInv, TypeOK, Decisions
    <2>5. answer'.records = Trail \cup {"report", "deep_runtime"}
      BY <1>1 DEF FinalizeDeep
    <2>6. answer'.dec = output.dec /\ answer'.score = output.score /\ output' = output
      BY <1>1, <2>4 DEF FinalizeDeep
    <2>7. AnsweredByModels'
      BY <2>1, <2>2, <2>3, <2>5, <2>6 DEF AnsweredByModels, DecisionFromScore
    <2>8. QED
      BY <1>1, <2>7 DEF FinalizeDeep, FlowInv
  <1>2. CASE FinalizeDeep /\ input.kind = "external"
    <2>1. AnsweredBySubprocess'
      BY <1>2 DEF FinalizeDeep, AnsweredBySubprocess
    <2>2. QED
      BY <1>2, <2>1 DEF FinalizeDeep, FlowInv
  <1>3. CASE FinalizeLocal
    <2>1. Trail' = Trail /\ (Asked => Asked') /\ (Untouched => Untouched')
      BY <1>3 DEF FinalizeLocal, state, Asked, NeedsSecondary, Trail, IsCB, Untouched
    <2>2. answer'.dec = "REVIEW" /\ answer'.primary # "model"
      BY <1>3 DEF FinalizeLocal
    <2>3. answer'.records = audit \cup {"arbiter"}
      BY <1>3 DEF FinalizeLocal
    <2>4. (Untouched /\ audit = {}) \/ (Asked /\ audit = Trail)
      BY <1>3 DEF FinalizeLocal, FlowInv
    <2>5. AnsweredLocally'
      BY <2>1, <2>2, <2>3, <2>4 DEF AnsweredLocally
    <2>6. QED
      BY <1>3, <2>5 DEF FinalizeLocal, FlowInv
  <1>4. QED
    BY <1>1, <1>2, <1>3 DEF FinalizeDeep, FlowInv

LEMMA SameFlow ==
  ASSUME TypeInv, FlowInv, UNCHANGED <<input, stage, state, audit, output, answer>>
  PROVE  FlowInv'
  <1>1. /\ UNCHANGED <<Trail, Untouched, Asked, PipelineOutput>>
        /\ UNCHANGED <<NeedsSecondary(primary), OutputScore(primary, secondary),
                       DecisionFromScore(DecidingScore(primary, secondary))>>
    BY DEF state, Trail, Untouched, Asked, PipelineOutput, NeedsSecondary, OutputScore,
           DecidingScore, DecisionFromScore, IsCB
  <1>2. (AnsweredByModels => AnsweredByModels') /\ (AnsweredLocally => AnsweredLocally')
        /\ (AnsweredBySubprocess => AnsweredBySubprocess')
    BY <1>1 DEF AnsweredByModels, AnsweredLocally, AnsweredBySubprocess
  <1>3. QED
    BY <1>1, <1>2 DEF FlowInv, state

LEMMA StepFlow == TypeInv /\ FlowInv /\ [Next]_vars => FlowInv'
  <1> SUFFICES ASSUME TypeInv, FlowInv, [Next]_vars PROVE FlowInv'
    OBVIOUS
  <1>1. CASE Invoke
    BY <1>1 DEF Invoke, Call, End, state, FlowInv, Untouched
  <1>2. ASSUME NEW p \in Assessments, PrimaryAnswers(p) PROVE FlowInv'
    BY <1>2, PrimaryFlow
  <1>3. ASSUME NEW s \in Opinions, SecondaryAnswers(s) PROVE FlowInv'
    BY <1>3, SecondaryFlow
  <1>4. CASE ReportAnswers
    BY <1>4, ReportFlow
  <1>5. CASE Unparsable \/ CallFailsForGood \/ BackoffCut
    BY <1>5, StageFailsFlow DEF Unparsable, CallFailsForGood, BackoffCut
  <1>6. CASE CallFailsForNow \/ CallAgain \/ Tick \/ ClientGone \/ UNCHANGED vars
    BY <1>6, SameFlow DEF CallFailsForNow, CallAgain, Call, Tick, ClientGone, vars, result
  <1>7. ASSUME NEW out \in Printed, SubprocessAnswers(out) PROVE FlowInv'
    <2>1. input.kind = "external"
      BY <1>7 DEF SubprocessAnswers, TypeInv, RetryInv
    <2>2. QED
      BY <1>7, <2>1 DEF SubprocessAnswers, End, FlowInv
  <1>8. CASE SubprocessFails
    BY <1>8 DEF SubprocessFails, End, state, FlowInv, Untouched
  <1>9. CASE FinalizeDeep \/ FinalizeLocal
    BY <1>9, FinalizeFlow
  <1>10. QED
    BY <1>1, <1>2, <1>3, <1>4, <1>5, <1>6, <1>7, <1>8, <1>9 DEF Next, Step

LEMMA FlowHolds == Spec => [](TypeInv /\ FlowInv)
  BY TypeHolds, InitFlow, StepFlow, PTL DEF Spec

-----------------------------------------------------------------------------
(* What the invariant says of the answers.                                 *)

(* An answer that names the deep runtime, from an in-process one, is made  *)
(* by the models, since the other two kinds are told apart.                *)
LEMMA ByPipelineIsByModels ==
  ASSUME TypeInv, FlowInv, Answered, ByPipeline
  PROVE  AnsweredByModels
  <1>1. ~AnsweredBySubprocess
    BY DEF ByPipeline, AnsweredBySubprocess
  <1>2. ~AnsweredLocally
    BY DEF ByPipeline, ByDeep, AnsweredLocally, Trail
  <1>3. QED
    BY <1>1, <1>2 DEF FlowInv, Answered

LEMMA NotByDeepIsLocal ==
  ASSUME TypeInv, FlowInv, Answered, ~ByDeep
  PROVE  AnsweredLocally
  BY DEF FlowInv, Answered, ByDeep, AnsweredByModels, AnsweredBySubprocess

(* A check is asked for only on a score that is no approval.               *)
LEMMA NeedsSecondaryIsNoApproval ==
  ASSUME NEW p \in Assessments, NeedsSecondary(p)
  PROVE  DecisionFromScore(p.score) # "APPROVE"
  <1>1. p.score \in 0 .. 100
    BY AssessmentType DEF Score
  <1>2. p.score >= 35
    BY <1>1, ThresholdAssumption DEF NeedsSecondary
  <1>3. QED
    BY <1>1, <1>2 DEF DecisionFromScore

(* A check that fails for a technical reason never ends in an approval,    *)
(* for any two thresholds of at least 35 (cb_graph.go:101-115,             *)
(* stock_graph.go:104-117).                                                *)
THEOREM DegradedNeverApprovesAlways == Spec => []DegradedNeverApproves
  <1>1. TypeInv /\ FlowInv => DegradedNeverApproves
    <2> SUFFICES ASSUME TypeInv, FlowInv, Answered, ByPipeline, secondary.status = "degraded"
                 PROVE  answer.dec # "APPROVE"
      BY DEF DegradedNeverApproves
    <2>1. AnsweredByModels
      BY ByPipelineIsByModels
    <2>2. DecidingScore(primary, secondary) = primary.score
      BY DEF DecidingScore
    <2>3. QED
      BY <2>1, <2>2, NeedsSecondaryIsNoApproval DEF AnsweredByModels, Asked
  <1>2. QED
    BY FlowHolds, <1>1, PTL

(* The audit of a verdict of the models names exactly the model answers    *)
(* that made it (deep_ai.go:29, 41, 57, 75, 88, 125-136).                  *)
THEOREM RecordsAlwaysMatchVerdict == Spec => []RecordsMatchVerdict
  <1>1. TypeInv /\ FlowInv => RecordsMatchVerdict
    <2> SUFFICES ASSUME TypeInv, FlowInv, Answered, ByPipeline
                 PROVE  /\ {"primary", "report"} \subseteq answer.records
                        /\ "secondary" \in answer.records <=> secondary.status = "ran"
                        /\ "secondary_degraded" \in answer.records
                            <=> secondary.status = "degraded"
                        /\ "skip_secondary" \in answer.records
                            <=> IsCB /\ secondary.status = "skipped"
      BY DEF RecordsMatchVerdict
    <2>1. AnsweredByModels
      BY ByPipelineIsByModels
    <2>2. QED
      BY <2>1 DEF AnsweredByModels, Asked, Trail
  <1>2. QED
    BY FlowHolds, <1>1, PTL

(* A failed deep call is answered for review on the local evidence, and    *)
(* its audit tells whether a model had spoken (orchestrator.go:77-88,      *)
(* deep_ai.go:97-116).                                                     *)
THEOREM FallbackAlwaysLocal == Spec => []FallbackIsLocal
  <1>1. TypeInv /\ FlowInv => FallbackIsLocal
    <2> SUFFICES ASSUME TypeInv, FlowInv, Answered, ~ByDeep
                 PROVE  /\ answer.dec = "REVIEW"
                        /\ answer.primary # "model"
                        /\ "report" \notin answer.records
                        /\ "primary" \in answer.records <=> primary.by = "model"
      BY DEF FallbackIsLocal
    <2>1. AnsweredLocally
      BY NotByDeepIsLocal
    <2>2. CASE Untouched /\ answer.records = {"arbiter"}
      <3>1. primary.by # "model"
        BY <2>2, InputType DEF Untouched, NoPrimary, Evidence, TypeInv, TypeOK
      <3>2. QED
        BY <2>1, <2>2, <3>1 DEF AnsweredLocally
    <2>3. CASE Asked /\ answer.records = Trail \cup {"arbiter"}
      <3>1. primary.by = "model"
        BY <2>3, AssessmentType DEF Asked
      <3>2. QED
        BY <2>1, <2>3, <3>1 DEF AnsweredLocally, Trail
    <2>4. QED
      BY <2>1, <2>2, <2>3 DEF AnsweredLocally
  <1>2. QED
    BY FlowHolds, <1>1, PTL

(* Score and decision of an answer of the models belong together, except   *)
(* for a payment whose check ran (deep.go:180-198).                        *)
THEOREM ScoreAlwaysExplainsDecision == Spec => []ScoreExplainsDecision
  <1>1. TypeInv /\ FlowInv => ScoreExplainsDecision
    <2> SUFFICES ASSUME TypeInv, FlowInv, Answered, ByPipeline, ~(IsCB /\ secondary.status = "ran")
                 PROVE  answer.dec = DecisionFromScore(answer.score)
      BY DEF ScoreExplainsDecision
    <2>1. AnsweredByModels
      BY ByPipelineIsByModels
    <2>2. OutputScore(primary, secondary) = DecidingScore(primary, secondary)
      BY DEF OutputScore, DecidingScore
    <2>3. QED
      BY <2>1, <2>2 DEF AnsweredByModels
  <1>2. QED
    BY FlowHolds, <1>1, PTL

-----------------------------------------------------------------------------
(* The refinement.                                                         *)

LEMMA InitMaps == Init => Abstract!CInit
  BY DEF Init, Abstract!CInit, Phase

LEMMA StepMaps ==
  TypeInv /\ FlowInv /\ [Next]_vars => [Abstract!CNext]_(Abstract!call)
  <1> SUFFICES ASSUME TypeInv, FlowInv, [Next]_vars
               PROVE  Abstract!CNext \/ UNCHANGED <<Phase, left>>
    BY DEF Abstract!call
  <1> USE DEF Phase, Running, ModelStages, Abstract!CNext
  <1>1. CASE Invoke
    BY <1>1 DEF Invoke, Call, End, Abstract!Start
  <1>2. CASE \/ \E p \in Assessments : PrimaryAnswers(p)
             \/ \E s \in Opinions : SecondaryAnswers(s)
             \/ CallFailsForNow \/ CallAgain \/ UNCHANGED vars
    <2>1. UNCHANGED left
      BY <1>2 DEF PrimaryAnswers, SecondaryAnswers, CallFailsForNow, CallAgain, Call, vars, timing
    <2>2. stage = stage' \/ (stage \in Running /\ stage' \in Running)
      BY <1>2 DEF PrimaryAnswers, SecondaryAnswers, Responds, CallFailsForNow, CallAgain, Call, vars
    <2>3. UNCHANGED answer
      BY <1>2 DEF PrimaryAnswers, SecondaryAnswers, CallFailsForNow, CallAgain, vars, result
    <2>4. QED
      BY <2>1, <2>2, <2>3 DEF Answered, ByDeep
  <1>3. CASE ReportAnswers \/ \E out \in Printed : SubprocessAnswers(out)
    BY <1>3 DEF ReportAnswers, Responds, SubprocessAnswers, End, Abstract!Return
  <1>4. CASE Unparsable \/ CallFailsForGood \/ BackoffCut
    <2>1. CASE stage = "secondary" /\ Degrade
      BY <2>1 DEF Degrade, Call
    <2>2. CASE stage \in {"primary", "report"} /\ End("failed")
      BY <2>2 DEF End, Answered, Abstract!GiveUp
    <2>3. QED
      BY <1>4, <2>1, <2>2 DEF Unparsable, CallFailsForGood, BackoffCut, StageFails
  <1>5. CASE SubprocessFails
    BY <1>5 DEF SubprocessFails, End, Answered, Abstract!GiveUp
  <1>6. CASE FinalizeDeep
    BY <1>6 DEF FinalizeDeep, timing, Answered, ByDeep
  <1>7. CASE FinalizeLocal
    <2>1. "deep_runtime" \notin answer'.records
      BY <1>7 DEF FinalizeLocal, FlowInv, Trail
    <2>2. QED
      BY <1>7, <2>1 DEF FinalizeLocal, timing, Answered, ByDeep
  <1>8. CASE Tick \/ ClientGone
    <2>1. left \in Nat
      BY PipelineAssumption DEF TypeInv, TypeOK
    <2>2. QED
      BY <1>8, <2>1 DEF Tick, ClientGone, Abstract!Elapse
  <1>9. QED
    BY <1>1, <1>2, <1>3, <1>4, <1>5, <1>6, <1>7, <1>8 DEF Next, Step

(* A deep call ends once and never with an output after its deadline, as   *)
(* the orchestrator expects (orchestrator.go:74-77): the safety part of    *)
(* ImplementsDeepCall.                                                     *)
THEOREM ImplementsDeepCallSafely == Spec => Abstract!CSafe
  BY FlowHolds, InitMaps, StepMaps, PTL DEF Spec, Abstract!CSafe

-----------------------------------------------------------------------------
(* What a deep call hands to the orchestrator.                             *)

Decides == Answered => answer.dec \in Decisions \cup {"other"}

LEMMA StepDecides == TypeInv /\ TypeInv' /\ Decides /\ [Next]_vars => Decides'
  <1> SUFFICES ASSUME TypeInv, TypeInv', Decides, [Next]_vars, Answered'
               PROVE  answer'.dec \in Decisions \cup {"other"}
    BY DEF Decides
  <1>1. stage' = "answered"
    BY DEF Answered
  <1>2. CASE FinalizeDeep
    <2>1. output \in DeepOutputs /\ output.score \in Score
      BY DEF TypeInv, TypeOK, DeepOutputs
    <2>2. answer'.dec = IF output.dec = "" THEN DecisionFromScore(output.score) ELSE output.dec
      BY <1>2 DEF FinalizeDeep
    <2>3. output.dec \in Decisions \cup {"", "other"}
      BY <2>1 DEF DeepOutputs
    <2>4. QED
      BY <2>1, <2>2, <2>3, DecisionType
  <1>3. CASE FinalizeLocal
    BY <1>3 DEF FinalizeLocal, Decisions
  <1>4. CASE UNCHANGED <<stage, answer>>
    BY <1>1, <1>4 DEF Decides, Answered
  <1>5. CASE Invoke
    BY <1>1, <1>5 DEF Invoke, Call, End
  <1>6. ASSUME NEW p \in Assessments, PrimaryAnswers(p) PROVE stage' # "answered"
    BY <1>6 DEF PrimaryAnswers, Call
  <1>7. ASSUME NEW s \in Opinions, SecondaryAnswers(s) PROVE stage' # "answered"
    BY <1>7 DEF SecondaryAnswers, Call
  <1>8. CASE ReportAnswers \/ Unparsable \/ CallFailsForGood \/ BackoffCut
    BY <1>1, <1>8 DEF ReportAnswers, Unparsable, CallFailsForGood, BackoffCut, StageFails, Degrade,
                      Call, End
  <1>9. CASE CallFailsForNow \/ CallAgain
    BY <1>4, <1>9 DEF CallFailsForNow, CallAgain, Call, result
  <1>10. ASSUME NEW out \in Printed, SubprocessAnswers(out) PROVE stage' # "answered"
    BY <1>10 DEF SubprocessAnswers, End
  <1>11. CASE SubprocessFails
    BY <1>1, <1>11 DEF SubprocessFails, End
  <1>12. CASE Tick \/ ClientGone \/ UNCHANGED vars
    BY <1>4, <1>12 DEF Tick, ClientGone, vars, result
  <1>13. QED
    BY <1>1, <1>2, <1>3, <1>5, <1>6, <1>7, <1>8, <1>9, <1>10, <1>11, <1>12 DEF Next, Step

(* An answer always has a decision, even of a subprocess that printed      *)
(* none; that of an in-process runtime is one of the three, and that of a  *)
(* failed call is a review (orchestrator.go:84-88, 195-199).  These are    *)
(* the outcomes of a deep call that Orchestrator chooses from.             *)
THEOREM AnswersHaveDecisions ==
  Spec => [](Answered =>
              /\ answer.dec \in Decisions \cup {"other"}
              /\ ByPipeline => answer.dec \in Decisions
              /\ ~ByDeep => answer.dec = "REVIEW")
  <1>1. Init => Decides
    BY DEF Init, Decides, Answered
  <1>2. TypeInv /\ FlowInv /\ Decides =>
          (Answered =>
              /\ answer.dec \in Decisions \cup {"other"}
              /\ ByPipeline => answer.dec \in Decisions
              /\ ~ByDeep => answer.dec = "REVIEW")
    <2> SUFFICES ASSUME TypeInv, FlowInv, Decides, Answered
                 PROVE  /\ answer.dec \in Decisions \cup {"other"}
                        /\ ByPipeline => answer.dec \in Decisions
                        /\ ~ByDeep => answer.dec = "REVIEW"
      OBVIOUS
    <2>1. answer.dec \in Decisions \cup {"other"}
      BY DEF Decides
    <2>2. ASSUME ByPipeline PROVE answer.dec \in Decisions
      <3>1. answer.dec = DecisionFromScore(DecidingScore(primary, secondary))
        BY <2>2, ByPipelineIsByModels DEF AnsweredByModels
      <3>2. DecidingScore(primary, secondary) \in Score
        BY OutputType DEF TypeInv, TypeOK
      <3>3. QED
        BY <3>1, <3>2, DecisionType
    <2>3. ASSUME ~ByDeep PROVE answer.dec = "REVIEW"
      BY <2>3, NotByDeepIsLocal DEF AnsweredLocally
    <2>4. QED
      BY <2>1, <2>2, <2>3
  <1>3. QED
    BY FlowHolds, <1>1, StepDecides, <1>2, PTL DEF Spec
=============================================================================
