----------------------------- MODULE Orchestrator -----------------------------
(***************************************************************************)
(* RiskEngine.Orchestrate (workflow/orchestrator.go): concurrent request   *)
(* goroutines that share the policy packs, the sanctions list, the         *)
(* screening cache, the circuit breaker, the metrics and the case store.   *)
(*                                                                         *)
(* A request captures its domain's pack, runs the rule, graph and light    *)
(* engines and the arbiter, and then either answers locally or goes on to  *)
(* the cache, the breaker and the deep runtime.  A step of the model is    *)
(* the code between two accesses to shared state.  Scores are left out:    *)
(* the local engines are RiskPolicy's business and a deep verdict may be   *)
(* any decision.  A failed store call is a choice, because its error is    *)
(* what the code reacts to (or ignores).                                   *)
(***************************************************************************)
EXTENDS RiskPolicy, FiniteSets

CONSTANTS
    Requests,        \* the requests; one goroutine serves each
    Parties,         \* normalized counterparties with their country
    Domains,         \* the business lines in use
    RouteBuckets,    \* the buckets that pre-analysis gives
    MaxListVersion,  \* bound on published sanctions lists
    MaxPackVersion,  \* bound on pack reloads
    ShadowPacks,     \* pack versions with ShadowEnabled
    DraftPacks,      \* pack versions with AsyncCaseDraft
    DeepEnabled,     \* a deep runtime is configured and wanted
    BreakerFailures, BreakerOpenSec

ASSUME OrchestratorAssumption ==
    /\ IsFiniteSet(Requests)
    /\ Domains \subseteq {"cross_border", "stock"}
    /\ RouteBuckets \subseteq Buckets
    /\ MaxListVersion \in Nat \ {0}
    /\ MaxPackVersion \in Nat \ {0}
    /\ DeepEnabled \in BOOLEAN
    /\ BreakerFailures \in Int
    /\ BreakerOpenSec \in Int

VARIABLES
    \* shared state
    pack,        \* pack[d]: version of the primary pack of domain d
    listVersion, \* version of the sanctions list in the store
    cache,       \* screening_cache: party and list version to a verdict
    failures, openLeft,  \* the circuit breaker
    metrics,     \* EngineMetrics
    jobs,        \* background goroutines not yet run: <<kind, request>>
    \* state of a request
    pc,          \* where its goroutine is
    req,         \* its input, bucket and captured pack
    listVer,     \* the list version read by RunRules, 0 for the empty string
    seen,        \* the list version the sanctions search ran on, 0 if none
    arb,         \* the arbiter's decision
    route,       \* how the decision was reached
    answer,      \* the ScreeningResult
    audited,     \* an audit flush was tried for it; its error changes nothing
    caseRow      \* its row in review_case: "none", "failed", "open", "drafted"

shared == <<pack, listVersion, cache, failures, openLeft, metrics, jobs>>
breakerVars == <<failures, openLeft>>
vars == <<pack, listVersion, cache, failures, openLeft, metrics, jobs, pc, req,
          listVer, seen, arb, route, answer, audited, caseRow>>

Stages == {"new", "rules", "engines", "cache", "gate", "deep", "finish", "put", "done"}
Routes == {"none", "local", "cache", "breaker", "deepfail", "deep"}
Counters == {"fast", "light", "deep", "LocalOnly", "DeepSkip", "DeepOK", "DeepFail",
             "ShadowDiff"}
PackVersions == 1 .. MaxPackVersion
ListVersions == 0 .. MaxListVersion
Keys == Parties \X ListVersions

NoRequest == [domain |-> "none"]
NoAnswer == [dec |-> "none"]
NoEntry == [dec |-> "none"]
Inputs == [domain : Domains, party : Parties, bucket : RouteBuckets, pack : PackVersions]
(* A deep runtime may put any string where the decision goes.              *)
Verdicts == Decisions \cup {"other"}
Entries == [dec : Verdicts, txn : Requests]
Answers == [dec : Verdicts, txn : Requests, pack : PackVersions]

(* The breaker of module CircuitBreaker.  A request that is past its deep  *)
(* call has learnt how it ended, which decided its route.                  *)
DeepCallOf(r) ==
    IF pc[r] = "deep" THEN "inflight"
    ELSE CASE route[r] = "deep"     -> "succeeded"
           [] route[r] = "deepfail" -> "failed"
           [] OTHER                 -> "idle"

Breaker == INSTANCE CircuitBreaker
    WITH Callers <- Requests, call <- [r \in Requests |-> DeepCallOf(r)]

TypeOK ==
    /\ pack \in [Domains -> PackVersions]
    /\ listVersion \in 1 .. MaxListVersion
    /\ cache \in [Keys -> Entries \cup {NoEntry}]
    /\ failures \in 0 .. Breaker!Threshold - 1
    /\ openLeft \in 0 .. Breaker!OpenFor
    /\ metrics \in [Counters -> Nat]
    /\ jobs \subseteq {"shadow", "draft"} \X Requests
    /\ pc \in [Requests -> Stages]
    /\ req \in [Requests -> Inputs \cup {NoRequest}]
    /\ listVer \in [Requests -> ListVersions]
    /\ seen \in [Requests -> ListVersions]
    /\ arb \in [Requests -> Decisions \cup {"none"}]
    /\ route \in [Requests -> Routes]
    /\ answer \in [Requests -> Answers \cup {NoAnswer}]
    /\ audited \in [Requests -> BOOLEAN]
    /\ caseRow \in [Requests -> {"none", "failed", "open", "drafted"}]

Init ==
    /\ pack = [d \in Domains |-> 1]
    /\ listVersion = 1
    /\ cache = [k \in Keys |-> NoEntry]
    /\ failures = 0
    /\ openLeft = 0
    /\ metrics = [c \in Counters |-> 0]
    /\ jobs = {}
    /\ pc = [r \in Requests |-> "new"]
    /\ req = [r \in Requests |-> NoRequest]
    /\ listVer = [r \in Requests |-> 0]
    /\ seen = [r \in Requests |-> 0]
    /\ arb = [r \in Requests |-> "none"]
    /\ route = [r \in Requests |-> "none"]
    /\ answer = [r \in Requests |-> NoAnswer]
    /\ audited = [r \in Requests |-> FALSE]
    /\ caseRow = [r \in Requests |-> "none"]

-----------------------------------------------------------------------------
IsCB(r) == req[r].domain = "cross_border"

(* Variant: the key leaves the list version out.                           *)
KeyWithoutVersion(r) == <<req[r].party, 0>>

(* cacheKeyForParty.                                                       *)
CacheKey(r) == <<req[r].party, listVer[r]>>

Count(c) == metrics' = [metrics EXCEPT ![c] = @ + 1]
Goto(r, stage) == pc' = [pc EXCEPT ![r] = stage]

(* runShadowGeneric and enqueueCaseDraftGeneric start a goroutine when the *)
(* captured pack asks for it.                                              *)
ShadowJob(r) == IF req[r].pack \in ShadowPacks THEN {<<"shadow", r>>} ELSE {}

(* Variant: the draft asks the pack of the moment.                         *)
DraftJobOfNow(r) == IF pack[req[r].domain] \in DraftPacks THEN {<<"draft", r>>} ELSE {}

DraftJob(r) == IF req[r].pack \in DraftPacks THEN {<<"draft", r>>} ELSE {}

(* The result under construction; finalizeLocalGeneric and finalizeDeep    *)
(* fill it with the request's own transaction id and pack.                 *)
Result(r, dec) == [dec |-> dec, txn |-> r, pack |-> req[r].pack]

-----------------------------------------------------------------------------
(* The goroutine of a request, in program order.                           *)

(* Capture the pack, pre-analyze, count the bucket. *)
Receive(r, input) ==
    /\ pc[r] = "new"
    /\ input.pack = pack[input.domain]
    /\ req' = [req EXCEPT ![r] = input]
    /\ Count(input.bucket)
    /\ Goto(r, "rules")
    /\ UNCHANGED <<pack, listVersion, cache, breakerVars, jobs, listVer, seen, arb,
                   route, answer, audited, caseRow>>

(* RunRuleEngine reads the list version first; an error leaves it empty.   *)
ReadListVersion(r) ==
    /\ pc[r] = "rules"
    /\ IsCB(r)
    /\ \E v \in {0, listVersion} : listVer' = [listVer EXCEPT ![r] = v]
    /\ Goto(r, "engines")
    /\ UNCHANGED <<shared, req, seen, arb, route, answer, audited, caseRow>>

(* The outcomes of the rule engine: a decision, and the version of the     *)
(* list it searched (0: the fast filter decided, the bucket is fast, or    *)
(* the search failed; a stock order has no search).                        *)
RuleOutcomes(r) ==
    IF ~IsCB(r) THEN Decisions \X {0}
    ELSE {<<"REJECT", 0>>, <<"REVIEW", 0>>}
         \cup (IF req[r].bucket = "fast" THEN {<<"APPROVE", 0>>}
               ELSE Decisions \X {listVersion})

(* The rule, graph and light engines, the arbiter and the routing.  A rule *)
(* result ends early unless it is REVIEW (LocalScreening,                  *)
(* EarlyExitIffDecided), and NeedDeep holds for every gray request         *)
(* (GrayZoneGoesDeep).                                                     *)
RunEngines(r) ==
    /\ pc[r] = IF IsCB(r) THEN "engines" ELSE "rules"
    /\ \E rule \in RuleOutcomes(r), graph, light \in Decisions :
        LET dec == Arbitrate({rule[1], graph, light})
            useDeep == UseDeep(DeepEnabled, [early |-> rule[1] # "REVIEW"], dec, TRUE)
        IN /\ seen' = [seen EXCEPT ![r] = rule[2]]
           /\ arb' = [arb EXCEPT ![r] = dec]
           /\ \/ /\ useDeep
                 /\ Goto(r, "cache")
                 /\ UNCHANGED <<metrics, route, answer>>
              \/ /\ ~useDeep
                 /\ Count("LocalOnly")
                 /\ route' = [route EXCEPT ![r] = "local"]
                 /\ answer' = [answer EXCEPT ![r] = Result(r, dec)]
                 /\ Goto(r, "finish")
    /\ UNCHANGED <<pack, listVersion, cache, breakerVars, jobs, req, listVer, audited,
                   caseRow>>

(* lookupCBCache finds an entry: it is returned as it was stored, except   *)
(* for the bucket, the pack version, the engine traces and the runtime.    *)
CacheHit(r) ==
    /\ pc[r] = "cache"
    /\ IsCB(r)
    /\ cache[CacheKey(r)] # NoEntry
    /\ LET entry == cache[CacheKey(r)]
       IN answer' = [answer EXCEPT ![r] = [dec |-> entry.dec, txn |-> entry.txn,
                                           pack |-> req[r].pack]]
    /\ route' = [route EXCEPT ![r] = "cache"]
    /\ jobs' = jobs \cup ShadowJob(r)
    /\ Goto(r, "done")
    /\ UNCHANGED <<pack, listVersion, cache, breakerVars, metrics, req, listVer, seen,
                   arb, audited, caseRow>>

(* No entry, a failed read, or a stock order. *)
CacheMiss(r) ==
    /\ pc[r] = "cache"
    /\ Goto(r, "gate")
    /\ UNCHANGED <<shared, req, listVer, seen, arb, route, answer, audited, caseRow>>

(* The breaker lets the call through: build the input and Invoke. *)
EnterDeep(r) ==
    /\ pc[r] = "gate"
    /\ Breaker!Allow
    /\ Goto(r, "deep")
    /\ UNCHANGED <<shared, req, listVer, seen, arb, route, answer, audited, caseRow>>

(* Variants: an open breaker approves; is not counted; makes the request   *)
(* wait.                                                                   *)
SkipDeepOpen(r) ==
    /\ pc[r] = "gate"
    /\ ~Breaker!Allow
    /\ Count("DeepSkip")
    /\ route' = [route EXCEPT ![r] = "breaker"]
    /\ answer' = [answer EXCEPT ![r] = Result(r, "APPROVE")]
    /\ Goto(r, "finish")
    /\ UNCHANGED <<pack, listVersion, cache, breakerVars, jobs, req, listVer, seen, arb,
                   audited, caseRow>>

SkipDeepUncounted(r) ==
    /\ pc[r] = "gate"
    /\ ~Breaker!Allow
    /\ route' = [route EXCEPT ![r] = "breaker"]
    /\ answer' = [answer EXCEPT ![r] = Result(r, "REVIEW")]
    /\ Goto(r, "finish")
    /\ UNCHANGED <<shared, req, listVer, seen, arb, audited, caseRow>>

SkipDeepWaits(r) ==
    /\ pc[r] = "gate"
    /\ ~Breaker!Allow
    /\ UNCHANGED vars

(* The open breaker turns the request away: REVIEW on local evidence.      *)
SkipDeep(r) ==
    /\ pc[r] = "gate"
    /\ ~Breaker!Allow
    /\ Count("DeepSkip")
    /\ route' = [route EXCEPT ![r] = "breaker"]
    /\ answer' = [answer EXCEPT ![r] = Result(r, "REVIEW")]
    /\ Goto(r, "finish")
    /\ UNCHANGED <<pack, listVersion, cache, breakerVars, jobs, req, listVer, seen, arb,
                   audited, caseRow>>

(* Invoke returns a verdict: the decision of the runtime's output as it is *)
(* written there, or that of its score if it is empty.                     *)
DeepReturns(r) ==
    /\ pc[r] = "deep"
    /\ Breaker!RecordSuccess
    /\ Count("DeepOK")
    /\ route' = [route EXCEPT ![r] = "deep"]
    /\ \E dec \in Verdicts : answer' = [answer EXCEPT ![r] = Result(r, dec)]
    /\ Goto(r, "finish")
    /\ UNCHANGED <<pack, listVersion, cache, jobs, req, listVer, seen, arb, audited, caseRow>>

(* Variant: a failed call is counted but not told to the breaker.          *)
DeepFailsUntold(r) ==
    /\ pc[r] = "deep"
    /\ Count("DeepFail")
    /\ route' = [route EXCEPT ![r] = "deepfail"]
    /\ answer' = [answer EXCEPT ![r] = Result(r, "REVIEW")]
    /\ Goto(r, "finish")
    /\ UNCHANGED <<pack, listVersion, cache, breakerVars, jobs, req, listVer, seen, arb,
                   audited, caseRow>>

(* Invoke fails: an error, the deadline, or a client that went away. *)
DeepFails(r) ==
    /\ pc[r] = "deep"
    /\ Breaker!RecordFailure
    /\ Count("DeepFail")
    /\ route' = [route EXCEPT ![r] = "deepfail"]
    /\ answer' = [answer EXCEPT ![r] = Result(r, "REVIEW")]
    /\ Goto(r, "finish")
    /\ UNCHANGED <<pack, listVersion, cache, jobs, req, listVer, seen, arb, audited, caseRow>>

(* Variant: every deep answer is stored.                                   *)
CacheableAlways(r) == IsCB(r) /\ route[r] = "deep"

(* maybePutCBCache stores only final decisions of cross-border requests.   *)
Cacheable(r) ==
    /\ IsCB(r)
    /\ route[r] = "deep"
    /\ answer[r].dec \in {"APPROVE", "REJECT"}

(* Variant: final decisions of the deep runtime are not audited.           *)
FinishAuditsReviews(r) ==
    /\ pc[r] = "finish"
    /\ audited' = [audited EXCEPT ![r] = ~Cacheable(r)]
    /\ \/ /\ answer[r].dec = "REVIEW"
          /\ \E created \in {"open", "failed"} : caseRow' = [caseRow EXCEPT ![r] = created]
       \/ /\ answer[r].dec # "REVIEW"
          /\ UNCHANGED caseRow
    /\ UNCHANGED jobs
    /\ Goto(r, IF Cacheable(r) THEN "put" ELSE "done")
    /\ UNCHANGED <<pack, listVersion, cache, breakerVars, metrics, req, listVer, seen,
                   arb, route, answer>>

(* The finalizers: flush the audit buffer, open a review case if the       *)
(* decision is REVIEW.  Neither error is reported.  The goroutines they    *)
(* and Orchestrate start before the answer is returned are jobs from here  *)
(* on; none of them reads what the return changes.                         *)
Finish(r) ==
    /\ pc[r] = "finish"
    /\ audited' = [audited EXCEPT ![r] = TRUE]
    /\ \/ /\ answer[r].dec = "REVIEW"
          /\ \E created \in {"open", "failed"} : caseRow' = [caseRow EXCEPT ![r] = created]
       \/ /\ answer[r].dec # "REVIEW"
          /\ UNCHANGED caseRow
    /\ jobs' = jobs \cup (IF answer[r].dec = "REVIEW" THEN DraftJob(r) ELSE {})
                    \cup (IF Cacheable(r) THEN {} ELSE ShadowJob(r))
    /\ Goto(r, IF Cacheable(r) THEN "put" ELSE "done")
    /\ UNCHANGED <<pack, listVersion, cache, breakerVars, metrics, req, listVer, seen,
                   arb, route, answer>>

(* PutScreeningCache overwrites the row of the key; a failure is ignored.  *)
PutCache(r) ==
    /\ pc[r] = "put"
    /\ \/ LET entry == [dec |-> answer[r].dec, txn |-> answer[r].txn]
          IN cache' = [cache EXCEPT ![CacheKey(r)] = entry]
       \/ UNCHANGED cache
    /\ jobs' = jobs \cup ShadowJob(r)
    /\ Goto(r, "done")
    /\ UNCHANGED <<pack, listVersion, breakerVars, metrics, req, listVer, seen, arb, route,
                   answer, audited, caseRow>>

Serve(r) ==
    \/ ReadListVersion(r) \/ RunEngines(r)
    \/ CacheHit(r) \/ CacheMiss(r)
    \/ EnterDeep(r) \/ SkipDeep(r) \/ DeepReturns(r) \/ DeepFails(r)
    \/ Finish(r) \/ PutCache(r)

-----------------------------------------------------------------------------
(* Background goroutines and the environment.                              *)

requestVars == <<pc, req, listVer, seen, arb, route, answer, audited>>

(* The shadow pack's verdict on the request may be anything. *)
RunShadow(r) ==
    /\ <<"shadow", r>> \in jobs
    /\ jobs' = jobs \ {<<"shadow", r>>}
    /\ \E dec \in Decisions :
        IF dec # answer[r].dec THEN Count("ShadowDiff") ELSE UNCHANGED metrics
    /\ UNCHANGED <<pack, listVersion, cache, breakerVars, requestVars, caseRow>>

(* UpdateReviewCaseDraft: no row, no effect; an error is ignored. *)
WriteDraft(r) ==
    /\ <<"draft", r>> \in jobs
    /\ jobs' = jobs \ {<<"draft", r>>}
    /\ \/ /\ caseRow[r] = "open"
          /\ caseRow' = [caseRow EXCEPT ![r] = "drafted"]
       \/ UNCHANGED caseRow
    /\ UNCHANGED <<pack, listVersion, cache, breakerVars, metrics, requestVars>>

(* POST /v1/admin/policies/reload of a primary pack. *)
ReloadPack(d) ==
    /\ pack[d] < MaxPackVersion
    /\ pack' = [pack EXCEPT ![d] = @ + 1]
    /\ UNCHANGED <<listVersion, cache, breakerVars, metrics, jobs, requestVars, caseRow>>

(* A new sanctions list is loaded into the store (external). *)
PublishList ==
    /\ listVersion < MaxListVersion
    /\ listVersion' = listVersion + 1
    /\ UNCHANGED <<pack, cache, breakerVars, metrics, jobs, requestVars, caseRow>>

(* A cache row passes its expiry: GetScreeningCache deletes it. *)
ExpireEntry(k) ==
    /\ cache[k] # NoEntry
    /\ cache' = [cache EXCEPT ![k] = NoEntry]
    /\ UNCHANGED <<pack, listVersion, breakerVars, metrics, jobs, requestVars, caseRow>>

Elapse ==
    /\ UNCHANGED <<pack, listVersion, cache, metrics, jobs, requestVars, caseRow>>
    /\ Breaker!Elapse

Next ==
    \/ \E r \in Requests :
        \/ \E input \in Inputs : Receive(r, input)
        \/ Serve(r)
        \/ RunShadow(r)
        \/ WriteDraft(r)
    \/ \E d \in Domains : ReloadPack(d)
    \/ PublishList
    \/ \E k \in Keys : ExpireEntry(k)
    \/ Elapse

Spec == Init /\ [][Next]_vars

(* The goroutine of an accepted request keeps running; the deep call ends  *)
(* because Invoke gets a context with DeepTimeoutMs (orchestrator.go:74).  *)
FairSpec == Spec /\ \A r \in Requests : WF_vars(Serve(r))
-----------------------------------------------------------------------------
Answered(r) == pc[r] = "done"
Received == {r \in Requests : pc[r] # "new"}

(* A decision the local engines reach on their own is the one the caller   *)
(* gets: the cache, the open breaker, a failed deep call and the deep      *)
(* verdict replace nothing but a REVIEW (orchestrator.go:46-95).           *)
LocalVerdictStands ==
    \A r \in Requests : Answered(r) /\ arb[r] # "REVIEW" => answer[r].dec = arb[r]

(* A gray request is approved or rejected only on the strength of a deep   *)
(* verdict: its own, or that of a cross-border request of the same party   *)
(* that read the same list version (orchestrator.go:57-94, 137-173).       *)
(* However the breaker, the deep call and the store fail, nobody gets a    *)
(* verdict that no deep call returned.                                     *)
GrayVerdictHasSource ==
    \A r \in Requests :
        Answered(r) /\ arb[r] = "REVIEW" /\ answer[r].dec # "REVIEW" =>
            \E q \in Requests :
                /\ route[q] = "deep"
                /\ answer[q].dec = answer[r].dec
                /\ q = r \/ ( /\ IsCB(q) /\ IsCB(r)
                              /\ req[q].party = req[r].party
                              /\ listVer[q] = listVer[r] )

(* A verdict from the cache is not older than the list its reader asked    *)
(* about: if the request that produced it searched the list at all, it     *)
(* searched that version or a later one.  ActiveListVersion is read before *)
(* SearchSanctions, so a list published between the two can only make the  *)
(* entry newer than its key (engines.go:81-90).                            *)
CacheNeverPredatesList ==
    \A r \in Requests :
        Answered(r) /\ route[r] = "cache" =>
            LET origin == answer[r].txn
            IN seen[origin] # 0 => seen[origin] >= listVer[r]

(* The answers for which a case was created, or tried to be, are exactly   *)
(* the REVIEW answers; in particular the cache never hands out a REVIEW,   *)
(* which would have no case of its own (orchestrator.go:158, 280-291,      *)
(* 361-373).                                                               *)
CasesMatchReviews ==
    \A r \in Requests :
        Answered(r) => (answer[r].dec = "REVIEW" <=> caseRow[r] # "none")

(* Every verdict handed out was audited first: a cache hit flushes no      *)
(* audit of its own, and hides no verdict either, because the request that *)
(* stored the entry flushed its audit before (orchestrator.go:57-64, 92,   *)
(* 203-294, 327).                                                          *)
VerdictAudited ==
    \A r \in Requests : Answered(r) => audited[answer[r].txn]

(* A background job works for the pack version its request captured, not   *)
(* for the one a reload installed meanwhile, as does the answer it is      *)
(* about; a draft is written only after its case (orchestrator.go:287-289, *)
(* 377-395).                                                               *)
JobsFollowAnswer ==
    \A job \in jobs :
        /\ answer[job[2]].pack = req[job[2]].pack
        /\ job[1] = "shadow" => req[job[2]].pack \in ShadowPacks
        /\ job[1] = "draft" => req[job[2]].pack \in DraftPacks /\ caseRow[job[2]] # "none"

(* The counters of /v1/admin/metrics account for every request: each is    *)
(* counted in one bucket when it arrives and in one outcome when it is     *)
(* decided, except that a cache hit has no outcome counter                 *)
(* (orchestrator.go:32-39, 50-89).                                         *)
MetricsReconcile ==
    /\ metrics["fast"] + metrics["light"] + metrics["deep"] = Cardinality(Received)
    /\ metrics["LocalOnly"] + metrics["DeepSkip"] + metrics["DeepOK"] + metrics["DeepFail"]
         = Cardinality({r \in Received : route[r] \notin {"none", "cache"}})

(* The concurrent requests use the breaker as module CircuitBreaker says.  *)
(* A deep call is made only when Allow lets it; if it ended with an error, *)
(* the breaker was told one failure, and otherwise one success, in the     *)
(* step in which the request learns it (orchestrator.go:66-91).  A report  *)
(* left out, made twice or made on the wrong path is no such step, nor is  *)
(* one of a request that was refused.  So what is proved of the breaker    *)
(* holds here.                                                             *)
BreakerProtocol == Breaker!Spec

(* An accepted request is answered, whatever the stores and the deep       *)
(* runtime do: every failure has a way on (orchestrator.go:15-96).         *)
EveryRequestAnswered ==
    \A r \in Requests : pc[r] = "rules" ~> Answered(r)

(* tools/types.go:82 says the answer names the request it answers.         *)
TransactionIdIsOwn ==
    \A r \in Requests : Answered(r) => answer[r].txn = r

(* tools/types.go:84 calls the decision a stable contract of three values; *)
(* finalizeDeep (orchestrator.go:196-199) takes the runtime's own word.    *)
DecisionContract ==
    \A r \in Requests : Answered(r) => answer[r].dec \in Decisions
=============================================================================
