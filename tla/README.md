# Verification of risk_control

TLA+ models of the screening engine in this repository, the TLC runs that check
them on small instances, and TLAPS proofs of the main results. `PROJECT.json`
lists components, runs, the source lines behind every definition, the hazards
and the theorems; this file explains them. Paths are relative to `src/`.

## 1. The system

A request (`POST /v1/screen`, the batch runner or `riskctl`) names a
cross-border payment or a stock order. `RiskEngine.Orchestrate` captures the
domain's policy pack, pre-analyses the request into a bucket (fast, light,
deep), runs three local engines (rules, entity graph, light model), lets the
arbiter combine them and either answers or sends the gray zone on: screening
cache, circuit breaker, deep runtime. Every answer is audited; a REVIEW opens a
case for a human; shadow comparison and case drafting run in goroutines after
the answer.

| Component | State | Operations | Interacts through | Correct if |
|---|---|---|---|---|
| Orchestrator (`workflow/orchestrator.go`) | one goroutine per request; local variables | Orchestrate, finalizers, shadow, draft | all shared state below | each verdict has a source, each REVIEW a case, each answer an audit, each request an answer |
| Circuit breaker (`circuit.go`) | failures, openUntil, under a mutex | Allow, Success, Fail | two calls per request with the deep call between | opens on consecutive failures, closes again, late reports bounded |
| Velocity tracker (`velocity.go`) | times per key, under a mutex | Hit | rule engines of primary and shadow packs | the limit holds; blocks are backed by hits |
| Rule engines (`cb_rules.go`, `stock_rules.go`, `engines.go`) | none | fast filter, match routing, decisions | velocity, sanctions store | approvals are cleared, hard blocks win |
| Light model, pre-analysis, arbiter (`preanalyze.go`, `engines.go`) | none | ScoreLightML, Arbitrate, NeedDeep | – | gray zone goes deep, and only it |
| Entity graph (`entity_graph.go`) | links, subjects per device, under a mutex | ObserveLinks | graph engine of both domains | a decision that counts distinct subjects and neighbours |
| Policy registry (`policy_pack.go`) | hubs of atomic pack pointers | Primary, Shadow, Reload | requests, admin endpoint | a request sees one pack; a failed reload changes nothing |
| Screening cache, sanctions list (`store/mysql.go`) | tables | Get/PutScreeningCache, ActiveListVersion, SearchSanctions | orchestrator | a cached verdict is not older than the list asked about |
| Review cases (`store/mysql.go`, `rpc/handle.go`) | table `review_case` | create, draft, list, resolve, get | finalizers, draft goroutine, reviewers | one winner, verdict final, own verdict shown |
| Audit (`tools/audit_buffer.go`, `FlushAudit`) | buffer per request, table | AddStep, AddDecision, FlushAudit | finalizers | nothing answered unaudited |
| Deep runtimes and pipeline (`deep*.go`, `cb_graph.go`, `stock_graph.go`) | pipeline state and audit buffer, shared with the rule engine of the request | Invoke: primary, secondary, report, or a subprocess | LLM, subprocesses | a failed call leaves local evidence; the verdict is what the models said and the audit tells it |
| LLM retry (`llm/retry.go`) | attempt counter | GenerateWithRetry | deep pipeline | bounded by attempts and the deadline |
| Batch (`batch/screen.go`) | channel, result slots | ScreenConcurrent | engine, and through it graph and registry | every slot filled once, terminates |
| Config, CLI, prompts, tracing | – | loading, rendering | – | not modelled |

What is hard here: the breaker is asked and told in two critical sections with
seconds between them; the tracker reads the clock outside its lock and is
shared by two packs; the list version, the search, the cache and the packs
change under a running request; store errors are dropped on purpose; goroutines
outlive the answer; an UPDATE and the SELECT after it are not one transaction;
three model calls with retries share one deadline, and a pipeline that fails has
already written into the state its fallback uses; the process may stop between
any two of these.

## 2. Modules

| Module | Models | Notes |
|---|---|---|
| `CircuitBreaker` | the breaker and the calls around it | time is the time left of the open window |
| `BreakerHistory` | the same with two history variables | streak of failures, reopenings since the last admission |
| `RiskPolicy` | the pure part: pre-analysis, gates, match routing, rule decisions, light model, arbiter, NeedDeep | operators only |
| `LocalScreening` | one request after another through `RiskPolicy` | all input combinations |
| `Orchestrator` | concurrent requests over packs, list, cache, breaker, metrics, jobs, case rows | EXTENDS `RiskPolicy`, INSTANCEs `CircuitBreaker` |
| `Velocity` | the tracker and the loop over a request's keys, per pack | clock reading and critical section are two steps |
| `DeepCall` | abstract: a call under a deadline ends once, with an output in time or an error | – |
| `DeepPipeline` | one Invoke, in-process or by subprocess, with retries, deadline and both finalizers | refines `DeepCall`; EXTENDS `RiskPolicy` |
| `EntityGraph` | the graph and its verdict | an open module: operators and two variables |
| `PolicyRegistry` | hubs, packs, paths, policy files | an open module as well |
| `ScreeningBatch` | feeder, workers, slots, over the two above, with an admin | EXTENDS `EntityGraph`, `PolicyRegistry` |
| `CaseLedger` | abstract: what manual review promises | – |
| `ReviewCase` | rows, draft goroutines, resolve calls, restarts | refines `CaseLedger` |
| `MC*` | instances for TLC | packs, key sets, batches, symmetry |
| `*Proofs` | theorems and proofs | one per component; `AccountingProofs` holds those about the orchestrator's jobs and counters |

**How they compose.** `Orchestrator` takes the local engines as a choice among
outcomes; that these include whatever the engines of `RiskPolicy` make of a payment
or an order, and route like them, is proved (`CrossBorderEnginesCovered`,
`StockEnginesCovered`, which rest on the shape behind `EarlyExitIffDecided` and
`GrayZoneGoesDeep`). It takes the deep call as any outcome that `DeepCall` allows,
which `DeepPipeline` refines, with one of the decisions `AnswersHaveDecisions`
leaves. Its `ReloadPack` is what `PolicyRegistry!Reload`
does when the file loads, and `LocalScreening` takes any verdict of
`EntityGraph!GraphVerdict`. `ScreeningBatch` puts concurrent requests over graph
and registry; its fairness is `EveryRequestAnswered` of `Orchestrator`.

**State and actions against the code.** In `Orchestrator`, `pc[r]` is the place
in `Orchestrate` between two accesses to shared state: `Receive` (lines 15-37),
`ReadListVersion` (engines.go:81), `RunEngines` (39-55 with the search),
`CacheHit`/`CacheMiss` (57-64), `EnterDeep`/`SkipDeep` (66-77),
`DeepReturns`/`DeepFails` (77-92), `Finish` (both finalizers), `PutCache`
(154-173). `req[r]` holds what the code captures at the start, the pack
included; `listVer[r]` the version that becomes part of the cache key,
`seen[r]` the one the search really ran on. `audited`, `route` and `seen` are
observations no action reads to decide. `RunShadow` and `WriteDraft` are the two goroutines; `ReloadPack`,
`PublishList`, `ExpireEntry` and `Elapse` are the environment. To the breaker a
request is what `DeepCallOf` says: in flight from `Allow` to the end of `Invoke`, then
succeeded or failed, as its route tells. `Finish` is one step: it flushes the audit,
tries to file the case, starts the goroutines and gives the answer (the code starts
the draft just before it returns, lines 288-293 and 370-374), so no property speaks of
a draft whose request is not yet answered. In `Velocity` a
pass is one pack checking one request; `Begin`, `NextKey`, `Hit` are its steps.
In `ReviewCase` a case is filed by `Create` and `Answer`, a resolve call is
`Ask`, `Update`, `Fetch`, and `Crash` stops everything but the rows.
In `DeepPipeline`, `stage` is the place in `runDeepAI` (deep_ai.go:97-116) and
`retry` that in `GenerateWithRetry` (llm/retry.go:42-64): `PrimaryAnswers`,
`SecondaryAnswers`, `ReportAnswers` apply a response, `CallFailsForNow`,
`CallAgain`, `BackoffCut`, `CallFailsForGood` are the retry loop, `Unparsable` a
response that is no JSON, `SubprocessAnswers` and `SubprocessFails` the external
runtimes, `FinalizeDeep` and `FinalizeLocal` the orchestrator's answer;
`primary`, `secondary` and `audit` are the fields the rule engine's fallback
shares. In `ScreeningBatch`, `Take`, `Refuse`, `Capture`, `RunGraph`, `Finish`
and `Leave` are a worker's loop (batch/screen.go:20-41), `AdminReloads` and
`AdminEdits` the environment of the registry.

**Abstractions.** Scores are integers (hundredths; the light model compares the
linear score in thousandths with the logit of the threshold, because the sigmoid
is increasing). Membership in a pack's lists is a fact of a request. Amounts are
integers of either sign, since `ValidatePayload` (tools/types.go:58-79) does not
check it and `AmountNorm` is clamped only from above (preanalyze.go:37-42). A
store statement takes effect before its call returns, or fails; a failing UPDATE
may have been committed. `status` and `decision_code` of a case are one field,
since the same statement writes both. A deep verdict may be any decision string;
`"other"` stands for all that are outside the contract. In `DeepPipeline` every
error may be retriable or not; a subprocess prints an object alone, in a fence or
after other text, which is all `parseDeepOutputJSON` tells apart; the
fallback's score is its lower bound 50; texts of reports and reasons are left out,
and with them the wording of a degraded check, which asks for manual review even
if the verdict is a rejection. In `EntityGraph` the count on a link is left out:
only the number of neighbours is read. `PolicyRegistry` has a pack's version and
origin only; that `hub()` gives a name without a hub the default pack is left
out, because the engine asks only for the domains of the two profiles. With `ShadowEnabled` a
shadow pack is assumed to be loaded. The branch without an
audit buffer in `finalizeLocalGeneric` (a stock order that cannot be normalized) is
unreachable, because `PreAnalyze` normalizes first and ends the request with an
error; a request that ends so changes no shared state and is not modelled. The breaker's `totalOpen` and the trace,
report and timing fields are left out: nothing reads them to decide.

**Variants.** Some operators have a sibling named after it with a changed body
and the comment "Variant". They are plausible mistakes (a dropped guard, a missing
reset); no specification uses them. Put in place of the original, each makes the
property it is listed with in `PROJECT.json` fail, which shows that the property
depends on that piece of code.

## 3. Runs

| Run | Instance | What it shows |
|---|---|---|
| `BreakerHistory` | 4 callers, threshold 3, window 3 | openings come from consecutive failures; calls let in before an opening reopen the breaker at most (threshold-1+calls)/threshold times; windows end |
| `LocalScreening` | the shipped packs and one with a lower candidate bound; amounts at -100, -1, 0, 24, 25, 59, 60, 100, 101 percent; texts of 0, 80, 81, 300 bytes; six match sets | what a local approval implies; embargo beats whitelist unless the amount is negative; exactly the gray zone goes deep; early exit iff decided; why stock orders are reviewed |
| `LocalScreening_Subgraph` | as above, smaller | **violated**: the stock gate and the stock subgraph differ |
| `Orchestrator` | 2 requests of either domain, 2 parties, 2 list versions, breaker 1/1, a reload that switches shadow and drafts on | verdict sources, cache against list, cases, audit; jobs follow the captured pack; counters add up |
| `Orchestrator_Answers` | 3 payments of one party, breaker 2/1 | each deep call is let in and reported once, as it ended (refinement of `CircuitBreaker`); every request answered |
| `Orchestrator_TransactionId` | 2 requests, 1 party | **violated**: a cache hit answers with the other request's transaction id |
| `Orchestrator_Contract` | same | **violated**: an arbitrary deep decision is handed out |
| `Velocity` | 3 requests, 2 keys, windows 4 and 3, limit 2, lock delay 1, clock to 4 | rate limit; blocks are backed by passes |
| `Velocity_Blocks` | no delay, clock to 1 | **violated**: shadow passes use up the primary limit |
| `DeepPipeline` | one call, both domains and kinds, a score in every band and on both sides of the thresholds, 3 attempts, base delay 5, maximum 10, deadline 46 | a degraded check never approves; calls are bounded by attempts and deadline; the audit names the answers used; a failed call is answered on local evidence; score and decision part only where a check ran; refinement of `DeepCall` with its liveness |
| `ScreeningBatch` | 3 requests of both domains, one of them invalid in some batches, 2 workers, 2 policy versions and paths, one edit and one reload (any name, target and path) | the graph is the union of what was seen; no verdict gets milder; only loaded files replace a pack; the batch ends with every slot filled |
| `ReviewCase` | 2 cases, 3 resolve calls, drafts on | type, own verdict shown, refusals final, refinement of `CaseLedger` |

The four violated runs state what a comment of the code says; `PROJECT.json`
quotes each one with its line under "findings".

**Bounds.** Two requests are enough for every pairwise interleaving at the
cache, and the properties relate at most two requests; more change nothing but
the counts, and the theorems cover any number. Breaker 1/1 makes opening,
refusal and reopening happen within two requests. For the protocol of the breaker
this would be too small: with a threshold of 1 no failure is ever kept in the count.
`Orchestrator_Answers` therefore has a threshold of 2, at which a first failure
counts, a second one opens and a third request is refused. That a report is neither
lost nor doubled shows in any count, because the call a request has behind it is part
of what the step must match: it ended as the breaker was told. This run has payments
only; an order takes the same steps there, without list and cache. The long histories
are in `BreakerHistory`, whose four callers against a threshold of three make a second
opening by late reports reachable. Three passes of one account are the first
number above the limit of two; windows 4 and 3 differ so that one pack prunes
what the other still counts; the clock bound equals the longer window, so
times leave the shorter window while the run lasts. For the rate limit over
longer histories the theorem takes over. Amounts are taken on both sides of
every comparison in `preanalyze.go` and the rule files. Three resolve calls give
a winner, a loser and a lost answer.
Three attempts make both backoffs happen, the second at its maximum; the deadline
of 46 is longer than the longest backoffs of one stage (at most 5 and 11 units)
and shorter than those of all three, so it is met in every stage, during a call,
during a backoff and between the two. Three requests on two workers leave one to
be taken by a worker that has finished or refused another; they are the first
number that puts a second and a third subject on one device, so that the strict
pack (two subjects, three neighbours) and the lenient one (three and ten) come to
different verdicts on the same graph. One edit and one reload give a
reload that works, one that fails, and one of a name that has no hub.
Symmetry is used only in runs without liveness, over sets whose members are only
compared.

`CHECK_DEADLOCK FALSE` appears in the orchestrator, velocity, deep pipeline and
batch runs, where the finite set of requests is used up, the call is answered or
bounded clocks and counters stop.

**Fairness.** `FairSpec` of `Orchestrator` is weak fairness of each request's own
steps: a goroutine is scheduled, store calls end with their context, and
`Invoke` ends because it gets a context with `DeepTimeoutMs` (orchestrator.go:74).
Nothing is assumed of background jobs, reloads, expiry or the breaker's clock: a
request is answered even if the window never ends. `BreakerHistory` assumes only
that time passes. `DeepPipeline` assumes that time passes and that what is `Due`
happens: the goroutine's own steps do not wait, and once the context is done a
model call, a backoff and a subprocess end (retry.go:58-62 for the backoff; that
clients and `exec.CommandContext` honour the context is external; deep_cli.go:66-72
sets no `WaitDelay`, so a grandchild that keeps the pipes open could delay the end
of a killed subprocess). Nothing is
assumed of a model before the deadline. `ScreeningBatch` assumes that each
worker keeps working and that `ScreenConcurrent` returns after the last one
left; nothing of the admin.

## 4. Proofs

Every theorem holds for all values of the constants under the named `ASSUME`s of
its module: `OrchestratorAssumption`, `LocalAssumption`, `PackAssumption`,
`EmbargoWeights`, `VelocityAssumption`, `PipelineAssumption`,
`ThresholdAssumption`, `GraphAssumption`, `RegistryAssumption`,
`BatchAssumption` and those of the breaker and the cases. They say what the
constructors and the defaults of the code establish (positive counts and delays,
finite sets, scores in their range); `EmbargoWeights` and `ThresholdAssumption` are
conditions on a policy pack that the shipped packs meet.

- `BreakerProofs`. Fuel: reopenings * Threshold + failures + calls in flight never
  exceeds Threshold - 1 + callers. A report spends a call and adds at most one
  failure, an opening turns Threshold failures into one reopening, an admission is
  only possible when the window is over and resets the count. The bound on
  stragglers follows by dropping terms. That an opening follows Threshold
  consecutive failures needs `failures <= streak`.
- `RiskPolicyProofs`, the payment and stock rules. `LocalApprovalIsCleared` and `EmbargoHolds` go through the
  definitions by cases on the gate. `EmbargoHolds` has two parts: off the whitelist the
  rules reject, whatever the amount (`BlockedCountryRuleReject`); on it the light model
  does, by `EmbargoWeights`, because no other term of the linear score is negative when
  the amount is not. The routing theorems rest on
  the shape of a rule result (`RuleEngineShape`, `StockRulesShape`: early exit means
  a verdict): from it the arbiter's vote is REVIEW whenever the rules are undecided
  and nobody rejects, so the remaining conditions of NeedDeep are always met.
  The model routes a match by any candidate, the code by the best score:
  `MatchRoutingIsByBest` proves the two the same, from the fact that a non-empty set
  of scores has a greatest element (`ScoresHaveBest`, a use of the least element of a
  set of naturals). `RuleScoresExplain` and `HardBlocksAreFinal` are by cases on the
  gate again; `LightNeverMilder` compares the linear scores of two payments term by
  term, the rounded ones by monotonicity of the division.
- `OrchestratorProofs`. One inductive invariant in named parts: a request past an
  engine step has the local decision that sent it there; a cache entry was put by
  a finished deep request of the key's party and list version with that very
  decision, whose audit came first and whose search, if any, saw that version or
  a later one; case rows go with REVIEW
  answers. The entries are what makes the properties of cached answers inductive.
  `ImplementsBreaker` maps every step to a breaker step or a stutter: entering the deep
  stage is an admission, and the end of a call a report of how it ended. It needs the
  invariant, by which a request that is routed at the cache or at the breaker was on no
  route before, so that no step undoes how a call ended. Two more
  results need no more than this invariant with the type: an answer stays as it was
  given (`AnswersStayFinal`), and a request is moved only by its own goroutine and
  only to a later stage (`GoroutinesOnlyForward`), so that it is answered after at
  most eight of its steps. That is all of `EveryRequestAnswered` but the fairness.
- `AccountingProofs`, on the same invariant. Jobs: an answer carries the captured
  pack from the moment it exists (`OwnPack`), a request that is done stays as it is
  (`DoneStays`), and a step starts a job only for the request it finishes. Counters:
  a step lets one request arrive, concludes one that was not concluded, or does
  neither (`BooksStep`), and one counter of the right group moves with it.
- `VelocityProofs`. The times a pass may have lost were outside some pack's window
  of a hit that read the clock at most `MaxWait` ago, so all recorded passes of a
  recent interval are still kept when a later pass is let through; counting the
  kept set bounds the interval. For the blocks: a pass hits a key once
  (`RecordedInOrder`), so every time that is counted is that of a recorded pass of
  the window, and a block stays backed because recorded passes are never dropped.
  `PassesEveryKey` says of the loop over several keys what a single hit cannot: a
  pass is let through only if every key let it through, and the key that blocks is
  the last one to count it.
- `DeepPipelineProofs`. `RetryInv` (a backoff comes before the last attempt only)
  carries the types; `CallInv` counts: a stage starts with the attempts of the
  stages before it used up, no call is late before the deadline, and only a degraded
  check is followed by another stage. `FlowInv` says what the shared pipeline state
  and the audit buffer hold at each stage (`Untouched`, or `Asked` with its `Trail`);
  the verdict properties are read off its last line. `DegradedNeverApproves` needs
  `ThresholdAssumption`: the configured thresholds (55 and 45) are at least 35, the
  bound of an approval. Every step maps to a step of `DeepCall` or a stutter.
  `AnswersHaveDecisions`: whatever a subprocess prints or leaves out, the answer has a
  decision, and that of a pipeline is one of the three.
- `ScreeningBatchProofs`. `RegistryOK` with `KnownHavePacks` (a known domain always
  has a pack), `PoolOK` with `WorkInv` (an index is queued, with one worker, or
  done with its slot filled) and `JudgeInv` (a judged request has a pack with
  thresholds). `GraphIsUnion` is inductive beside them; `NeverMilder` follows because
  links and uses only grow and the two counts are monotone (`MoreNeighbours`,
  `MoreSubjects`). `ReturnIsComplete` is the safety half of `BatchAnswersAll`.
  `HandInv` adds that no index is in two hands and `SetInv` how far a request is when
  something of it has been set; from them follow `OneWorkerPerRequest` and
  `RequestsAreSetOnce`, on which it rests that the slots need no lock.
- `ReviewCaseProofs`. The resolver of a row is a call that asked for that case with
  that verdict and has been updated, told or lost its answer; from this follow
  own verdict, final refusals, and, step by step, `Spec => L!Ledger`. One winner
  and finality are proved of the ledger and carried over by the refinement.

**How far the findings reach.** Four runs show that a comment of the code does not
hold. For each the proofs say what does:

| Finding | What is proved |
|---|---|
| an answer bears another transaction id | `TransactionIdScope`: exactly the answers from the result cache do |
| a decision outside the contract | `DecisionContractScope`: only of the request's own deep call; it is never cached, so nobody else gets it |
| shadow passes use up the primary limit | `EarnedWithoutShadow`: without a shadow pack no block is unearned; `BlocksHalfEarned`: with one, more than half of the limit is the requests' own |
| the stock subgraph differs from the gate | `SubgraphScope`: exactly on orders that pass the lists and break the notional or the velocity limit |

These, and the theorems on matches, hard blocks, scores, finality, order and ownership
above, are stated by theorems only. Their invariants follow from the ones the runs
check, or strengthen them.

**Only model-checked.** Liveness (`WindowCloses`, `EveryRequestAnswered`, the
liveness part of `ImplementsDeepCall`, `BatchAnswersAll`): the prover has no
ENABLED. Every invariant and action property of a passing run is proved as well.
`Doubled`, the backoff before its limit, is the only recursive definition. No
proof needs its values: a delay that a step picks lies in `0 .. LongestWait` by the
definition of `Delays`, and that the delay of the code does is seen in the run, in
which no backoff would begin otherwise.

## 5. Plan

The components named in the inventory are modelled, except for those of section 6.
What is left, in order of use:

1. The ranking of candidates and the prefilter as operators over bounded inputs,
   with the order the code relies on.
2. The audit transaction of `FlushAudit` as rows, to say what a partly failed flush
   leaves behind.
3. A composition of `Orchestrator` with the full `PolicyRegistry` in place of its
   pack versions. The state space is the obstacle, not the modules. A proof has no
   such limit: that `ReloadPack` is a reload that loads can be stated as a mapping of
   the registry's steps to pack versions.
4. The symmetry of the graph and the independence of a batch's final graph from the
   schedule, as corollaries of `GraphIsUnion`.

## 6. Not modelled

- Command line, configuration files, prompts, tracing and JSON are pure I/O or text;
  no decision reads what they produce, except for the defaults, which appear as
  assumptions.
- The level of an answer (LOW to BLOCKED), which no step reads.
- What a deep runtime may leave out: an output with a report or an assessment, but no
  decision and no score, is accepted (deep.go:275) and becomes an approval
  (orchestrator.go:195-199). The model has this behaviour; no property is about it,
  because nothing in the repository says what such an output should mean.
- The string similarity of `tools/match.go` and the SQL prefilter: the search
  returns any set of scores. Which rows MySQL returns under a LIMIT without an order
  is not in this repository.
- The rows of the audit tables: an audit is flushed or not, its error changes
  nothing that follows.
- Loading a sanctions list is outside the repository; the model publishes a list
  at once, while the code would take a list for active after its first row
  (`store/mysql.go:188`).
- Memory: the tracker's map and the entity graph only grow. The effect of the
  graph's growth on verdicts is modelled (`NeverMilder`), the memory is not.
