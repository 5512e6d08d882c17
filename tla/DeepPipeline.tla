----------------------------- MODULE DeepPipeline -----------------------------
(***************************************************************************)
(* One deep call: Invoke of an in-process runtime (native or eino: primary *)
(* assessment, secondary check if it is needed, report, each one a model   *)
(* call with retries) or of an external one (cli or codex: a subprocess    *)
(* whose stdout is parsed), and the answer the orchestrator makes of it.   *)
(*                                                                         *)
(* All stages share one deadline, and an in-process runtime works on the   *)
(* pipeline state and the audit buffer of the rule engine, which the       *)
(* fallback of a failed call uses as well.  A model call takes any time;   *)
(* when the deadline has passed it fails (external: the client honours its *)
(* context).                                                               *)
(***************************************************************************)
EXTENDS RiskPolicy

CONSTANTS
    Domains,                  \* the business lines in use
    Kinds,                    \* "inprocess", "external"
    Scores,                   \* the scores that models give
    Deadline,                 \* DeepTimeoutMs
    MaxAttempts, BaseDelay, MaxDelay,  \* RetryConfig
    CBThreshold,              \* PrimaryRiskScore, 55 by default
    StockThreshold            \* PrimaryStockRiskScore, 45 by default

ASSUME PipelineAssumption ==
    /\ Domains \subseteq {"cross_border", "stock"}
    /\ Kinds \subseteq {"inprocess", "external"}
    /\ Scores \subseteq Score
    /\ Deadline \in Nat \ {0}
    /\ MaxAttempts \in Nat \ {0}
    /\ BaseDelay \in Nat \ {0}
    /\ MaxDelay \in Nat \ {0}

(* A second opinion is never asked for on a score that is an approval.     *)
ASSUME ThresholdAssumption ==
    /\ CBThreshold \in Nat /\ CBThreshold >= 35
    /\ StockThreshold \in Nat /\ StockThreshold >= 35

VARIABLES
    input,     \* the request: domain, kind of runtime, what the engines left
    stage,     \* where Invoke is
    retry,     \* the model call: "none", "calling", "backoff"
    attempt,   \* its attempts so far
    wait,      \* time left of the backoff
    left,      \* time left of the deadline
    primary, secondary,  \* fields of the shared pipeline state
    audit,     \* the entries in the shared audit buffer
    output,    \* the DeepOutput
    answer,    \* the ScreeningResult
    calls,     \* history: model calls made
    lateCalls  \* history: model calls made after the deadline

state == <<primary, secondary>>
result == <<output, answer>>
timing == <<retry, attempt, wait, left>>
history == <<calls, lateCalls>>
vars == <<input, stage, timing, state, audit, result, history>>

ModelStages == {"primary", "secondary", "report"}
Running == ModelStages \cup {"external"}
Stages == {"idle", "answered", "failed", "returned"} \cup Running

NoPrimary == [score |-> 0, needs |-> FALSE, by |-> "none"]
Assessments == [score : Scores, needs : BOOLEAN, by : {"model"}]
Evidence == [score |-> 40, needs |-> TRUE, by |-> "rules"]
NoSecondary == [status |-> "none", score |-> 0, confirmed |-> FALSE]
Opinions == [status : {"ran"}, score : Scores, confirmed : BOOLEAN]
Checks == [status : {"none", "skipped", "degraded", "ran"}, score : Score, confirmed : BOOLEAN]
Placeholder(status, s) == [status |-> status, score |-> s, confirmed |-> FALSE]

(* What a subprocess may print: an output object, with or without a        *)
(* primary assessment (a nested object) and a report, alone, in a code     *)
(* fence or after other text.                                              *)
Printed ==
    [dec : Decisions \cup {"", "other"}, score : Scores, assessed : BOOLEAN,
     report : BOOLEAN, place : {"whole", "fenced", "tail"}]

DeepOutputs ==
    [dec : Decisions \cup {"", "other"}, score : Score, assessed : BOOLEAN, report : BOOLEAN]
NoOutput == [dec |-> "", score |-> 0, assessed |-> FALSE, report |-> FALSE]

(* The result: whose primary assessment it shows, and the audit it was     *)
(* flushed with.                                                           *)
Shown == {"nobody", "rules", "model", "orchestrator"}
Entries ==
    {"primary", "skip_secondary", "secondary", "secondary_degraded", "report",
     "deep_runtime", "arbiter"}
Answers ==
    [dec : Decisions \cup {"", "other"}, score : Score, primary : Shown, records : SUBSET Entries]
NoAnswer == [dec |-> "", score |-> 0, primary |-> "nobody", records |-> {}]

(* A stock gate always leaves an assessment, a payment's rules only if     *)
(* they decided; ForceAIReview is a field of the stock gate.               *)
Inputs ==
    {i \in [domain : Domains, kind : Kinds, force : BOOLEAN, local : {NoPrimary, Evidence}] :
        IF i.domain = "stock" THEN i.local = Evidence ELSE ~i.force}

IsCB == input.domain = "cross_border"

-----------------------------------------------------------------------------
(* llm/retry.go: base, twice as much after each failure, up to a maximum,  *)
(* plus jitter below a fifth.                                              *)
Doubled[n \in Nat] == IF n = 0 THEN BaseDelay ELSE 2 * Doubled[n - 1]
Delay(n) ==
    LET capped == IF n > 0 /\ Doubled[n] > MaxDelay THEN MaxDelay ELSE Doubled[n]
    IN MaxScore(capped, BaseDelay)
LongestWait == 2 * MaxScore(BaseDelay, MaxDelay)
Delays(n) ==
    {d \in 0 .. LongestWait : Delay(n) <= d /\ d < Delay(n) + MaxScore(Delay(n) \div 5, 1)}

(* Variant: the model's wish for a second opinion is enough.               *)
NeedsSecondaryIfWished(p) == p.needs \/ (~IsCB /\ input.force /\ p.score >= 45)

(* cbNeedsSecondary, stockNeedsSecondary. *)
NeedsSecondary(p) ==
    \/ IsCB /\ p.needs /\ p.score >= CBThreshold
    \/ ~IsCB /\ p.needs /\ p.score >= StockThreshold
    \/ ~IsCB /\ input.force /\ p.score >= 45

(* The score that decides: a second opinion replaces the first; for a      *)
(* payment, a confirmed one counts as a rejection.                         *)
DecidingScore(p, s) ==
    CASE s.status # "ran"                                  -> p.score
      [] s.status = "ran" /\ IsCB /\ s.confirmed /\ s.score < 65 -> 70
      [] OTHER                                             -> s.score

(* Variant: the stock output is scored like the cross-border one.          *)
OutputScoreOfPrimary(p, s) == p.score

(* deepOutputFromCB scores by the primary, finalizeStockScreeningResult by *)
(* what decided.                                                           *)
OutputScore(p, s) == IF IsCB THEN p.score ELSE DecidingScore(p, s)

(* parseDeepOutputJSON: an object among other text is found only if it is  *)
(* last and flat; an empty one is refused.                                 *)
Accepted(out) ==
    /\ out.place = "tail" => ~out.assessed
    /\ out.dec # "" \/ out.assessed \/ out.report

-----------------------------------------------------------------------------
Init ==
    /\ input \in Inputs
    /\ stage = "idle"
    /\ retry = "none" /\ attempt = 0 /\ wait = 0 /\ left = Deadline
    /\ primary = input.local
    /\ secondary = NoSecondary
    /\ audit = {}
    /\ output = NoOutput
    /\ answer = NoAnswer
    /\ calls = 0 /\ lateCalls = 0

(* A model call: the first attempt of a stage or a later one.              *)
Call(s, n) ==
    /\ stage' = s
    /\ retry' = "calling"
    /\ attempt' = n
    /\ wait' = 0
    /\ calls' = calls + 1
    /\ lateCalls' = IF left = 0 THEN lateCalls + 1 ELSE lateCalls
    /\ UNCHANGED left

(* No more model calls: Invoke ends in s. *)
End(s) ==
    /\ stage' = s
    /\ retry' = "none"
    /\ attempt' = 0
    /\ wait' = 0
    /\ UNCHANGED <<left, history>>

Invoke ==
    /\ stage = "idle"
    /\ IF input.kind = "inprocess" THEN Call("primary", 1) ELSE End("external")
    /\ UNCHANGED <<input, state, audit, result>>

(* A response arrives in time.                                             *)
Responds(s) == stage = s /\ retry = "calling" /\ left > 0

(* Variant: the runtime works on a copy with an audit buffer of its own.   *)
PrimaryAnswersCopy(p) ==
    /\ Responds("primary")
    /\ primary' = p
    /\ IF NeedsSecondary(p)
       THEN /\ Call("secondary", 1)
            /\ UNCHANGED <<secondary, audit>>
       ELSE /\ Call("report", 1)
            /\ secondary' = Placeholder("skipped", p.score)
            /\ UNCHANGED audit
    /\ UNCHANGED <<input, result>>

(* applyCBPrimary, applyStockPrimary and the branch after them.  Only the  *)
(* cross-border pipeline writes an audit step when it skips the check.     *)
PrimaryAnswers(p) ==
    /\ Responds("primary")
    /\ primary' = p
    /\ IF NeedsSecondary(p)
       THEN /\ Call("secondary", 1)
            /\ audit' = audit \cup {"primary"}
            /\ UNCHANGED secondary
       ELSE /\ Call("report", 1)
            /\ secondary' = Placeholder("skipped", p.score)
            /\ audit' = audit \cup {"primary"} \cup (IF IsCB THEN {"skip_secondary"} ELSE {})
    /\ UNCHANGED <<input, result>>

(* applyCBSecondary, applyStockSecondary: the two flags of the model's own *)
(* object are overwritten.                                                 *)
SecondaryAnswers(s) ==
    /\ Responds("secondary")
    /\ secondary' = s
    /\ audit' = audit \cup {"secondary"}
    /\ Call("report", 1)
    /\ UNCHANGED <<input, primary, result>>

(* The check fails for a technical reason; the pipeline goes on.           *)
Degrade ==
    /\ secondary' = Placeholder("degraded", primary.score)
    /\ audit' = audit \cup {"secondary_degraded"}
    /\ Call("report", 1)
    /\ UNCHANGED <<primary, output>>

(* The output of a pipeline that has done its last stage.                  *)
PipelineOutput ==
    [dec |-> DecisionFromScore(DecidingScore(primary, secondary)),
     score |-> OutputScore(primary, secondary), assessed |-> TRUE, report |-> TRUE]

(* applyCBReport with ApplyAIDecisionCodes, applyStockReport, and the      *)
(* output made of the state.                                               *)
ReportAnswers ==
    /\ Responds("report")
    /\ output' = PipelineOutput
    /\ audit' = audit \cup {"report"}
    /\ End("returned")
    /\ UNCHANGED <<input, state, answer>>

(* Variant: a report that cannot be had is left out.                       *)
StageFailsWithoutReport ==
    \/ /\ stage = "primary"
       /\ End("failed")
       /\ UNCHANGED <<state, audit, output>>
    \/ /\ stage = "report"
       /\ output' = PipelineOutput
       /\ End("returned")
       /\ UNCHANGED <<state, audit>>
    \/ stage = "secondary" /\ Degrade

(* Primary and report end the pipeline with their error, the check does    *)
(* not.                                                                    *)
StageFails ==
    \/ /\ stage \in {"primary", "report"}
       /\ End("failed")
       /\ UNCHANGED <<state, audit, output>>
    \/ stage = "secondary" /\ Degrade

(* A response that is not the JSON asked for; a report is any text.        *)
Unparsable ==
    /\ Responds(stage)
    /\ stage # "report"
    /\ StageFails
    /\ UNCHANGED <<input, answer>>

(* GenerateWithRetry after an error: the last attempt, an error that is    *)
(* not worth a retry, or a context that is done.                           *)
CallFailsForGood ==
    /\ retry = "calling"
    /\ StageFails
    /\ UNCHANGED <<input, answer>>

(* Variant: no limit on attempts. *)
CallFailsForNowAlways ==
    /\ retry = "calling"
    /\ left > 0
    /\ retry' = "backoff"
    /\ wait' \in Delays(attempt - 1)
    /\ UNCHANGED <<input, stage, attempt, left, state, audit, result, history>>

(* Variant: the next attempt follows at once, whatever the context says.   *)
CallFailsForNowAtOnce ==
    /\ retry = "calling"
    /\ attempt < MaxAttempts
    /\ retry' = "backoff"
    /\ wait' = 0
    /\ UNCHANGED <<input, stage, attempt, left, state, audit, result, history>>

(* A retriable error before the last attempt, in time: back off.           *)
CallFailsForNow ==
    /\ retry = "calling"
    /\ attempt < MaxAttempts
    /\ left > 0
    /\ retry' = "backoff"
    /\ wait' \in Delays(attempt - 1)
    /\ UNCHANGED <<input, stage, attempt, left, state, audit, result, history>>

(* The backoff is over, even if the deadline is reached at the same time.  *)
CallAgain ==
    /\ retry = "backoff"
    /\ wait = 0
    /\ Call(stage, attempt + 1)
    /\ UNCHANGED <<input, state, audit, result>>

(* The deadline, or the client's departure, ends the backoff.              *)
BackoffCut ==
    /\ retry = "backoff"
    /\ left = 0
    /\ StageFails
    /\ UNCHANGED <<input, answer>>

-----------------------------------------------------------------------------
(* The external runtimes.                                                  *)

(* The subprocess exits with 0 and prints an acceptable output.            *)
SubprocessAnswers(out) ==
    /\ stage = "external"
    /\ left > 0
    /\ Accepted(out)
    /\ output' = [dec |-> out.dec, score |-> out.score, assessed |-> out.assessed,
                  report |-> out.report]
    /\ End("returned")
    /\ UNCHANGED <<input, state, audit, answer>>

(* Any other stdout, another exit code, a missing command, its own timeout *)
(* or the deadline, which kills it.                                        *)
SubprocessFails ==
    /\ stage = "external"
    /\ End("failed")
    /\ UNCHANGED <<input, state, audit, result>>

-----------------------------------------------------------------------------
(* The orchestrator's part.                                                *)

(* finalizeDeep.  An output without a primary assessment is shown with the *)
(* rules' one, or one made of the score.                                   *)
FinalizeDeep ==
    /\ stage = "returned"
    /\ audit' = audit \cup {"deep_runtime"}
    /\ answer' =
        [dec |-> IF output.dec = "" THEN DecisionFromScore(output.score) ELSE output.dec,
         score |-> output.score,
         primary |-> CASE output.assessed -> "model"
                       [] ~output.assessed /\ input.local # NoPrimary -> "rules"
                       [] OTHER -> "orchestrator",
         records |-> audit']
    /\ stage' = "answered"
    /\ UNCHANGED <<input, timing, state, output, history>>

(* Variant: the fallback shows what the shared state holds by now.         *)
FinalizeLocalFromState ==
    /\ stage = "failed"
    /\ audit' = audit \cup {"arbiter"}
    /\ answer' =
        [dec |-> "REVIEW", score |-> 50,
         primary |-> IF primary # NoPrimary THEN primary.by ELSE "orchestrator",
         records |-> audit']
    /\ stage' = "answered"
    /\ UNCHANGED <<input, timing, state, output, history>>

(* finalizeLocalGeneric after a failed call, with the assessment the rule  *)
(* engine returned and its audit buffer.  The score is that of the arbiter *)
(* and at least 50.                                                        *)
FinalizeLocal ==
    /\ stage = "failed"
    /\ audit' = audit \cup {"arbiter"}
    /\ answer' =
        [dec |-> "REVIEW", score |-> 50,
         primary |-> IF input.local # NoPrimary THEN "rules" ELSE "orchestrator",
         records |-> audit']
    /\ stage' = "answered"
    /\ UNCHANGED <<input, timing, state, output, history>>

-----------------------------------------------------------------------------
(* Time passes in a model call, a backoff or a subprocess.                 *)
Tick ==
    /\ stage \in Running
    /\ left > 0
    /\ left' = left - 1
    /\ wait' = IF wait > 0 THEN wait - 1 ELSE 0
    /\ UNCHANGED <<input, stage, retry, attempt, state, audit, result, history>>

(* The client goes away: the request's context is done.                    *)
ClientGone ==
    /\ stage \in Running
    /\ left > 0
    /\ left' = 0
    /\ UNCHANGED <<input, stage, retry, attempt, wait, state, audit, result, history>>

Step ==
    \/ Invoke
    \/ \E p \in Assessments : PrimaryAnswers(p)
    \/ \E s \in Opinions : SecondaryAnswers(s)
    \/ ReportAnswers
    \/ Unparsable \/ CallFailsForGood \/ CallFailsForNow
    \/ CallAgain \/ BackoffCut
    \/ \E out \in Printed : SubprocessAnswers(out)
    \/ SubprocessFails
    \/ FinalizeDeep \/ FinalizeLocal

Next == Step \/ Tick \/ ClientGone

Spec == Init /\ [][Next]_vars

(* Once the context is done, a model call and a subprocess end; before, a  *)
(* model may take its time.  The goroutine's own steps do not wait.        *)
Due == (stage \notin Running \/ left = 0) /\ Step

FairSpec == Spec /\ WF_vars(Tick) /\ WF_vars(Due)
-----------------------------------------------------------------------------
TypeOK ==
    /\ input \in Inputs
    /\ stage \in Stages
    /\ retry \in {"none", "calling", "backoff"}
    /\ attempt \in 0 .. MaxAttempts
    /\ wait \in 0 .. LongestWait
    /\ left \in 0 .. Deadline
    /\ primary \in Assessments \cup {NoPrimary, Evidence}
    /\ secondary \in Checks
    /\ audit \subseteq Entries
    /\ output \in DeepOutputs
    /\ answer \in Answers
    /\ calls \in Nat /\ lateCalls \in Nat

Answered == stage = "answered"
ByDeep == "deep_runtime" \in answer.records
ByPipeline == ByDeep /\ input.kind = "inprocess"

(* A second check that failed for a technical reason leaves the verdict to *)
(* the first assessment alone (cb_graph.go:101-115, stock_graph.go:104-    *)
(* 117), but never as an approval: a check is asked for only above a       *)
(* threshold that is no approval, so the failure cannot wave a request     *)
(* through whose approval was in doubt.                                    *)
DegradedNeverApproves ==
    Answered /\ ByPipeline /\ secondary.status = "degraded" => answer.dec # "APPROVE"

(* The retries of three stages under one deadline (llm/retry.go:42-64,     *)
(* deep_ai.go:97-116): no more calls than attempts, and after the deadline *)
(* at most two more, one of a backoff that ends with it and one of the     *)
(* stage that follows a degraded check.                                    *)
CallsBounded ==
    /\ calls <= 3 * MaxAttempts
    /\ lateCalls <= 2

(* The audit an in-process verdict is flushed with names every model       *)
(* answer that made it, and says whether the check ran, was skipped        *)
(* (payments only) or failed (deep_ai.go:29, 41, 57, 75, 88, 125-136).     *)
RecordsMatchVerdict ==
    Answered /\ ByPipeline =>
        /\ {"primary", "report"} \subseteq answer.records
        /\ ("secondary" \in answer.records) = (secondary.status = "ran")
        /\ ("secondary_degraded" \in answer.records) = (secondary.status = "degraded")
        /\ ("skip_secondary" \in answer.records) = (IsCB /\ secondary.status = "skipped")

(* A failed call is answered on local evidence, although the pipeline      *)
(* wrote into the state and the audit buffer of the rule engine before it  *)
(* failed: the assessment shown is never the model's, while the audit      *)
(* tells exactly whether the model had given one (orchestrator.go:77-88,   *)
(* 323-333, deep_ai.go:97-116).                                            *)
FallbackIsLocal ==
    Answered /\ ~ByDeep =>
        /\ answer.dec = "REVIEW"
        /\ answer.primary # "model"
        /\ "report" \notin answer.records
        /\ ("primary" \in answer.records) = (primary.by = "model")

(* The score in an answer explains its decision, but for a payment whose   *)
(* check ran: its decision is that of the check, its score that of the     *)
(* first assessment (deep.go:180-198, cb_rules.go:266-280, stock_graph.go: *)
(* 139-155).  The level, which has no part in the model, is that of the    *)
(* score, but HIGH for a rejection, and BLOCKED for that of an order which *)
(* the rules had blocked (orchestrator.go:273-278).                        *)
ScoreExplainsDecision ==
    Answered /\ ByPipeline /\ answer.dec # DecisionFromScore(answer.score) =>
        IsCB /\ secondary.status = "ran"

(* How far the call is, as its caller sees it. *)
Phase ==
    IF stage = "idle" THEN "idle"
    ELSE IF stage \in Running THEN "running"
    ELSE IF stage = "returned" \/ (Answered /\ ByDeep) THEN "output" ELSE "error"

Abstract == INSTANCE DeepCall WITH phase <- Phase, timeLeft <- left

(* Invoke keeps what the orchestrator expects of it: it ends once, with an *)
(* output only before the deadline, and it does end, whatever the models   *)
(* and the subprocess do (orchestrator.go:74-77, llm/retry.go:58-62).      *)
ImplementsDeepCall == Abstract!CSpec
=============================================================================
