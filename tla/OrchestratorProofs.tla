-------------------------- MODULE OrchestratorProofs --------------------------
(* Proofs about Orchestrator, for any set of requests and parties, any     *)
(* number of list and pack versions and any breaker parameters.            *)
EXTENDS Orchestrator, TLAPS

(* NewCircuitBreaker's defaults make both parameters positive.             *)
LEMMA PositiveParameters ==
    Breaker!Threshold \in Nat \ {0} /\ Breaker!OpenFor \in Nat \ {0}
  BY OrchestratorAssumption DEF Breaker!Threshold, Breaker!OpenFor

(* What a request has once it was received, and once it was decided.       *)
Captured ==
    \A r \in Requests :
        /\ pc[r] # "new" => req[r] \in Inputs
        /\ pc[r] \in {"finish", "put", "done"} => answer[r] \in Answers

TypeInv == TypeOK /\ Captured

(* The result under construction is an answer.                             *)
LEMMA ResultType ==
  ASSUME TypeInv, NEW r \in Requests, NEW dec \in Verdicts, pc[r] # "new"
  PROVE  Result(r, dec) \in Answers
  BY DEF TypeInv, Captured, Result, Answers, Inputs

(* So is the vote of the arbiter a decision.                               *)
LEMMA ArbitrateType == \A decs : Arbitrate(decs) \in Decisions
  BY DEF Arbitrate, Decisions

LEMMA JobsType ==
  ASSUME NEW r \in Requests
  PROVE  /\ ShadowJob(r) \subseteq {"shadow", "draft"} \X Requests
         /\ DraftJob(r) \subseteq {"shadow", "draft"} \X Requests
  BY DEF ShadowJob, DraftJob

LEMMA InitTyped == Init => TypeInv
  BY PositiveParameters, OrchestratorAssumption
  DEF Init, TypeInv, TypeOK, Captured, PackVersions, ListVersions, Stages, Routes, Keys

(* What a run of the local engines does to its request: some version was   *)
(* searched or none, and a REVIEW may go on to the cache while every other *)
(* decision is the answer.                                                 *)
EnginesEffect(r, dec, version) ==
    /\ version \in {0, listVersion}
    /\ seen' = [seen EXCEPT ![r] = version]
    /\ arb' = [arb EXCEPT ![r] = dec]
    /\ \/ /\ dec = "REVIEW"
          /\ Goto(r, "cache")
          /\ UNCHANGED <<metrics, route, answer>>
       \/ /\ Count("LocalOnly")
          /\ route' = [route EXCEPT ![r] = "local"]
          /\ answer' = [answer EXCEPT ![r] = Result(r, dec)]
          /\ Goto(r, "finish")

LEMMA EnginesStep ==
  ASSUME NEW r \in Requests, RunEngines(r)
  PROVE  \E dec \in Decisions, version \in {0, listVersion} : EnginesEffect(r, dec, version)
  <1>1. PICK rule \in RuleOutcomes(r), graph \in Decisions, light \in Decisions :
            LET dec == Arbitrate({rule[1], graph, light})
                useDeep == UseDeep(DeepEnabled, [early |-> rule[1] # "REVIEW"], dec, TRUE)
            IN /\ seen' = [seen EXCEPT ![r] = rule[2]]
               /\ arb' = [arb EXCEPT ![r] = dec]
               /\ \/ /\ useDeep
                     /\ Goto(r, "cache")
                     /\ UNCHANGED <<metrics, route, answer>>
                  \/ /\ ~useDeep
                     /\ Count("LocalOnly")
                     /\ route' = [route EXCEPT ![r] = "local"]
                     /\ answer' = [answer EXCEPT ![r] = Result(r, dec)]
                     /\ Goto(r, "finish")
    BY DEF RunEngines
  <1> DEFINE dec == Arbitrate({rule[1], graph, light})
  <1>2. rule[2] \in {0, listVersion}
    BY DEF RuleOutcomes, Decisions
  <1>3. dec \in Decisions
    BY ArbitrateType
  <1>4. UseDeep(DeepEnabled, [early |-> rule[1] # "REVIEW"], dec, TRUE) => dec = "REVIEW"
    BY DEF UseDeep, Arbitrate
  <1>5. EnginesEffect(r, dec, rule[2])
    BY <1>1, <1>2, <1>4 DEF EnginesEffect
  <1>6. QED
    BY <1>2, <1>3, <1>5

(* The steps of a request up to the routing.                               *)
LEMMA LocalStepsTyped ==
  ASSUME TypeInv, NEW r \in Requests
  PROVE  /\ (\E input \in Inputs : Receive(r, input)) => TypeInv'
         /\ ReadListVersion(r) => TypeInv'
         /\ RunEngines(r) => TypeInv'
  <1> USE DEF TypeInv, TypeOK, Captured, Goto, breakerVars
  <1>1. ASSUME NEW input \in Inputs, Receive(r, input)
        PROVE  TypeInv'
    <2>1. input.bucket \in Counters
      BY OrchestratorAssumption DEF Inputs, Buckets, Counters
    <2>2. metrics' \in [Counters -> Nat]
      BY <1>1, <2>1 DEF Receive, Count
    <2>3. QED
      BY <1>1, <2>2 DEF Receive, Stages
  <1>2. ASSUME ReadListVersion(r)
        PROVE  TypeInv'
    <2>1. 0 \in ListVersions /\ listVersion \in ListVersions
      BY OrchestratorAssumption DEF ListVersions
    <2>2. QED
      BY <1>2, <2>1 DEF ReadListVersion, shared, Stages
  <1>3. ASSUME RunEngines(r)
        PROVE  TypeInv'
    <2>1. PICK dec \in Decisions, version \in {0, listVersion} : EnginesEffect(r, dec, version)
      BY <1>3, EnginesStep
    <2>2. pc[r] # "new" /\ UNCHANGED <<pack, listVersion, cache, breakerVars, jobs, req,
                                       listVer, audited, caseRow>>
      BY <1>3 DEF RunEngines
    <2>3. Result(r, dec) \in Answers
      BY <2>2, ResultType DEF Verdicts
    <2>4. version \in ListVersions /\ metrics' \in [Counters -> Nat]
      BY <2>1, OrchestratorAssumption DEF EnginesEffect, ListVersions, Count, Counters
    <2>5. QED
      BY <2>1, <2>2, <2>3, <2>4 DEF EnginesEffect, Stages, Routes
  <1>4. QED
    BY <1>1, <1>2, <1>3

(* The steps of a gray request.                                            *)
LEMMA DeepStepsTyped ==
  ASSUME TypeInv, NEW r \in Requests
  PROVE  /\ CacheHit(r) \/ CacheMiss(r) => TypeInv'
         /\ EnterDeep(r) \/ SkipDeep(r) => TypeInv'
         /\ DeepReturns(r) \/ DeepFails(r) => TypeInv'
  <1> USE DEF TypeInv, TypeOK, Captured, Goto, breakerVars
  <1>1. ASSUME CacheHit(r)
        PROVE  TypeInv'
    <2>1. CacheKey(r) \in Keys
      BY <1>1 DEF CacheHit, CacheKey, Keys, Inputs
    <2>2. cache[CacheKey(r)] \in Entries
      BY <1>1, <2>1 DEF CacheHit
    <2>3. answer'[r] \in Answers /\ answer' \in [Requests -> Answers \cup {NoAnswer}]
      BY <1>1, <2>2 DEF CacheHit, Entries, Answers, Inputs
    <2>4. jobs' \subseteq {"shadow", "draft"} \X Requests
      BY <1>1, JobsType DEF CacheHit
    <2>5. route' \in [Requests -> Routes] /\ pc' \in [Requests -> Stages]
      BY <1>1 DEF CacheHit, Routes, Stages
    <2>6. Captured'
      BY <1>1, <2>3 DEF CacheHit
    <2>7. QED
      BY <1>1, <2>3, <2>4, <2>5, <2>6 DEF CacheHit
  <1>2. ASSUME CacheMiss(r) \/ EnterDeep(r)
        PROVE  TypeInv'
    BY <1>2 DEF CacheMiss, EnterDeep, shared, Stages
  <1>3. ASSUME SkipDeep(r)
        PROVE  TypeInv'
    <2>1. Result(r, "REVIEW") \in Answers
      BY <1>3, ResultType DEF SkipDeep, Verdicts, Decisions
    <2>2. metrics' \in [Counters -> Nat] /\ route' \in [Requests -> Routes]
      BY <1>3 DEF SkipDeep, Count, Counters, Routes
    <2>3. QED
      BY <1>3, <2>1, <2>2 DEF SkipDeep, Stages
  <1>4. ASSUME DeepReturns(r) \/ DeepFails(r)
        PROVE  TypeInv'
    <2>1. failures' \in 0 .. Breaker!Threshold - 1 /\ openLeft' \in 0 .. Breaker!OpenFor
      BY <1>4, PositiveParameters
      DEF DeepReturns, DeepFails, Breaker!RecordSuccess, Breaker!RecordFailure
    <2>2. metrics' \in [Counters -> Nat] /\ route' \in [Requests -> Routes]
      BY <1>4 DEF DeepReturns, DeepFails, Count, Counters, Routes
    <2>3. PICK dec \in Verdicts : answer' = [answer EXCEPT ![r] = Result(r, dec)]
      BY <1>4 DEF DeepReturns, DeepFails, Verdicts, Decisions
    <2>4. Result(r, dec) \in Answers
      BY <1>4, ResultType DEF DeepReturns, DeepFails
    <2>5. pc' = [pc EXCEPT ![r] = "finish"]
      BY <1>4 DEF DeepReturns, DeepFails
    <2>6. UNCHANGED <<pack, listVersion, cache, jobs, req, listVer, seen, arb, audited,
                      caseRow>>
      BY <1>4 DEF DeepReturns, DeepFails
    <2>7. pc[r] = "deep"
      BY <1>4 DEF DeepReturns, DeepFails
    <2>8. QED
      BY <2>1, <2>2, <2>3, <2>4, <2>5, <2>6, <2>7 DEF Stages
  <1>5. QED
    BY <1>1, <1>2, <1>3, <1>4

(* The end of a request.                                                   *)
LEMMA FinalStepsTyped ==
  ASSUME TypeInv, NEW r \in Requests
  PROVE  Finish(r) \/ PutCache(r) => TypeInv'
  <1> USE DEF TypeInv, TypeOK, Captured, Goto, breakerVars
  <1>1. ASSUME Finish(r)
        PROVE  TypeInv'
    <2>1. jobs' \subseteq {"shadow", "draft"} \X Requests
      BY <1>1, JobsType DEF Finish
    <2>2. pc' \in [Requests -> Stages] /\ \A q \in Requests \ {r} : pc'[q] = pc[q]
      BY <1>1 DEF Finish, Stages
    <2>3. caseRow' \in [Requests -> {"none", "failed", "open", "drafted"}]
          /\ audited' \in [Requests -> BOOLEAN]
      BY <1>1 DEF Finish
    <2>4. UNCHANGED <<pack, listVersion, cache, failures, openLeft, metrics, req, listVer,
                      seen, arb, route, answer>> /\ pc[r] = "finish"
      BY <1>1 DEF Finish
    <2>5. QED
      BY <2>1, <2>2, <2>3, <2>4
  <1>2. ASSUME PutCache(r)
        PROVE  TypeInv'
    <2>1. CacheKey(r) \in Keys
      BY <1>2 DEF PutCache, CacheKey, Keys, Inputs
    <2>2. [dec |-> answer[r].dec, txn |-> answer[r].txn] \in Entries
      BY <1>2 DEF PutCache, Answers, Entries
    <2>3. cache' \in [Keys -> Entries \cup {NoEntry}]
      BY <1>2, <2>1, <2>2 DEF PutCache
    <2>4. jobs' \subseteq {"shadow", "draft"} \X Requests
      BY <1>2, JobsType DEF PutCache
    <2>5. QED
      BY <1>2, <2>3, <2>4 DEF PutCache, Stages
  <1>3. QED
    BY <1>1, <1>2

(* The background and the environment.                                     *)
LEMMA OtherStepsTyped ==
  ASSUME TypeInv
  PROVE  /\ \A r \in Requests : RunShadow(r) \/ WriteDraft(r) => TypeInv'
         /\ (\E d \in Domains : ReloadPack(d)) \/ PublishList => TypeInv'
         /\ (\E k \in Keys : ExpireEntry(k)) \/ Elapse => TypeInv'
  <1> USE DEF TypeInv, TypeOK, Captured, breakerVars, requestVars
  <1>1. ASSUME NEW r \in Requests, RunShadow(r)
        PROVE  TypeInv'
    <2>1. metrics' \in [Counters -> Nat]
      BY <1>1 DEF RunShadow, Count, Counters
    <2>2. QED
      BY <1>1, <2>1 DEF RunShadow
  <1>2. ASSUME NEW r \in Requests, WriteDraft(r)
        PROVE  TypeInv'
    BY <1>2 DEF WriteDraft
  <1>3. ASSUME NEW d \in Domains, ReloadPack(d)
        PROVE  TypeInv'
    BY <1>3, OrchestratorAssumption DEF ReloadPack, PackVersions
  <1>4. ASSUME PublishList
        PROVE  TypeInv'
    BY <1>4, OrchestratorAssumption DEF PublishList
  <1>5. ASSUME NEW k \in Keys, ExpireEntry(k)
        PROVE  TypeInv'
    BY <1>5 DEF ExpireEntry
  <1>6. ASSUME Elapse
        PROVE  TypeInv'
    BY <1>6, PositiveParameters DEF Elapse, Breaker!Elapse, Breaker!IsOpen
  <1>7. QED
    BY <1>1, <1>2, <1>3, <1>4, <1>5, <1>6

LEMMA StepTyped == TypeInv /\ [Next]_vars => TypeInv'
  <1> SUFFICES ASSUME TypeInv, [Next]_vars
               PROVE  TypeInv'
    OBVIOUS
  <1>1. CASE Next
    BY <1>1, LocalStepsTyped, DeepStepsTyped, FinalStepsTyped, OtherStepsTyped
    DEF Next, Serve
  <1>2. CASE UNCHANGED vars
    BY <1>2 DEF vars, TypeInv, TypeOK, Captured
  <1>3. QED
    BY <1>1, <1>2

(* Every variable keeps its type, whatever the requests, the stores and    *)
(* the deep runtime do (orchestrator.go:15-173).                           *)
THEOREM TypeCorrect == Spec => []TypeOK
  <1>1. Spec => []TypeInv
    BY InitTyped, StepTyped, PTL DEF Spec
  <1>2. TypeInv => TypeOK
    BY DEF TypeInv
  <1>3. QED
    BY <1>1, <1>2, PTL

-----------------------------------------------------------------------------
(* The inductive invariant behind the verdict properties.                  *)

(* Request q is past its own deep verdict dec, which is final, and key k   *)
(* is the one it stores or stored it under.                                *)
Origin(q, dec, k) ==
    /\ q \in Requests
    /\ route[q] = "deep"
    /\ pc[q] \in {"put", "done"}
    /\ IsCB(q)
    /\ CacheKey(q) = k
    /\ answer[q].dec = dec
    /\ dec \in {"APPROVE", "REJECT"}
    /\ audited[q]

CacheOrigin ==
    \A k \in Keys : cache[k] # NoEntry => Origin(cache[k].txn, cache[k].dec, k)

ListOrder ==
    \A r \in Requests :
        /\ listVer[r] <= listVersion
        /\ seen[r] <= listVersion
        /\ pc[r] \in {"new", "rules", "engines"} => seen[r] = 0
        /\ seen[r] # 0 => seen[r] >= listVer[r]

(* What is known of a request before and after it is decided.              *)
Undecided(r) ==
    /\ pc[r] \in Stages \ {"finish", "put", "done"} => route[r] = "none"
    /\ pc[r] \in Stages \ {"done"} => caseRow[r] = "none"
    /\ pc[r] \in {"cache", "gate", "deep"} => arb[r] = "REVIEW"

Decided(r) ==
    /\ pc[r] \in {"finish", "put", "done"} =>
        /\ route[r] \in Routes \ {"none"}
        /\ arb[r] \in Decisions
        /\ route[r] = "local" => answer[r].dec = arb[r]
        /\ route[r] # "local" => arb[r] = "REVIEW"
        /\ route[r] \in {"breaker", "deepfail"} => answer[r].dec = "REVIEW"
    /\ pc[r] \in {"finish", "put"} => route[r] # "cache" /\ answer[r].txn = r
    /\ pc[r] = "put" =>
        route[r] = "deep" /\ IsCB(r) /\ answer[r].dec \in {"APPROVE", "REJECT"}
    /\ pc[r] = "done" => (answer[r].dec = "REVIEW" <=> caseRow[r] # "none")
    /\ pc[r] \in {"put", "done"} /\ route[r] # "cache" => audited[r] /\ answer[r].txn = r

CachedAnswer(r) ==
    route[r] = "cache" => IsCB(r) /\ Origin(answer[r].txn, answer[r].dec, CacheKey(r))

Flow == \A r \in Requests : Undecided(r) /\ Decided(r) /\ CachedAnswer(r)

FlowInv == CacheOrigin /\ ListOrder /\ Flow

LEMMA InitFlows == Init => FlowInv
  BY OrchestratorAssumption
  DEF Init, FlowInv, CacheOrigin, ListOrder, Flow, Undecided, Decided, CachedAnswer

(* A request that is past its finalizer never changes again in what the    *)
(* cache says of it: an origin stays an origin.                            *)
LEMMA VerdictFrozen ==
  ASSUME TypeInv, [Next]_vars
  PROVE  \A q \in Requests :
            pc[q] \in {"put", "done"} =>
                /\ pc'[q] \in {"put", "done"}
                /\ req'[q] = req[q] /\ listVer'[q] = listVer[q]
                /\ route'[q] = route[q] /\ answer'[q] = answer[q]
                /\ seen'[q] = seen[q] /\ audited'[q] = audited[q]
  <1> SUFFICES ASSUME NEW q \in Requests, pc[q] \in {"put", "done"}
               PROVE  /\ pc'[q] \in {"put", "done"}
                      /\ req'[q] = req[q] /\ listVer'[q] = listVer[q]
                      /\ route'[q] = route[q] /\ answer'[q] = answer[q]
                      /\ seen'[q] = seen[q] /\ audited'[q] = audited[q]
    OBVIOUS
  <1> USE DEF TypeInv, TypeOK, Goto
  <1>1. ASSUME NEW r \in Requests,
               (\E input \in Inputs : Receive(r, input)) \/ ReadListVersion(r)
               \/ RunEngines(r) \/ CacheHit(r) \/ CacheMiss(r) \/ EnterDeep(r)
               \/ SkipDeep(r) \/ DeepReturns(r) \/ DeepFails(r) \/ Finish(r)
        PROVE  /\ r # q
               /\ pc'[q] = pc[q] /\ req'[q] = req[q] /\ listVer'[q] = listVer[q]
               /\ route'[q] = route[q] /\ answer'[q] = answer[q] /\ seen'[q] = seen[q]
               /\ audited'[q] = audited[q]
    <2>1. r # q
      BY <1>1 DEF Receive, ReadListVersion, RunEngines, CacheHit, CacheMiss, EnterDeep,
                  SkipDeep, DeepReturns, DeepFails, Finish
    <2>2. QED
      BY <1>1, <2>1 DEF Receive, ReadListVersion, RunEngines, CacheHit, CacheMiss,
                        EnterDeep, SkipDeep, DeepReturns, DeepFails, Finish, shared
  <1>2. ASSUME NEW r \in Requests, PutCache(r)
        PROVE  /\ pc'[q] \in {"put", "done"}
               /\ UNCHANGED <<req, listVer, route, answer, seen, audited>>
    BY <1>2 DEF PutCache
  <1>3. UNCHANGED vars => UNCHANGED requestVars
    BY DEF vars, requestVars
  <1>4. (\E r \in Requests : RunShadow(r) \/ WriteDraft(r)) \/ (\E d \in Domains : ReloadPack(d))
        \/ PublishList \/ (\E e \in Keys : ExpireEntry(e)) \/ Elapse
        => UNCHANGED requestVars
    BY DEF RunShadow, WriteDraft, ReloadPack, PublishList, ExpireEntry, Elapse
  <1>5. QED
    BY <1>1, <1>2, <1>3, <1>4 DEF Next, Serve, requestVars

FlowOf(r) == Undecided(r) /\ Decided(r) /\ CachedAnswer(r)
Facts(r) == <<pc[r], req[r], listVer[r], arb[r], route[r], answer[r], audited[r],
              caseRow[r]>>

(* A step that leaves the facts of a request alone leaves its part of the  *)
(* invariant alone.                                                        *)
LEMMA BystanderFlow ==
  ASSUME TypeInv, FlowInv, [Next]_vars, NEW q \in Requests, UNCHANGED Facts(q)
  PROVE  FlowOf(q)'
  <1>1. CachedAnswer(q)'
    <2>1. ASSUME route[q] = "cache"
          PROVE  CachedAnswer(q)'
      <3>1. IsCB(q) /\ Origin(answer[q].txn, answer[q].dec, CacheKey(q))
        BY <2>1 DEF FlowInv, Flow, CachedAnswer
      <3>2. PICK o \in Requests : o = answer[q].txn
        BY <3>1 DEF Origin
      <3>3. /\ answer'[q] = answer[q] /\ req'[q] = req[q] /\ listVer'[q] = listVer[q]
        BY DEF Facts
      <3>4. /\ pc'[o] \in {"put", "done"}
            /\ req'[o] = req[o] /\ listVer'[o] = listVer[o]
            /\ route'[o] = route[o] /\ answer'[o] = answer[o] /\ audited'[o] = audited[o]
        BY <3>1, <3>2, VerdictFrozen DEF Origin
      <3>5. QED
        BY <3>1, <3>2, <3>3, <3>4 DEF CachedAnswer, IsCB, CacheKey, Origin
    <2>2. QED
      BY <2>1 DEF CachedAnswer, Facts
  <1>2. Undecided(q)' /\ Decided(q)'
    BY DEF FlowInv, Flow, Undecided, Decided, Facts, IsCB
  <1>3. QED
    BY <1>1, <1>2 DEF FlowOf

(* A request's own step keeps its part of the invariant and leaves the     *)
(* facts of the others alone.                                              *)
LEMMA OwnFlow ==
  ASSUME TypeInv, FlowInv, NEW r \in Requests,
         (\E input \in Inputs : Receive(r, input)) \/ Serve(r)
  PROVE  FlowOf(r)' /\ \A q \in Requests \ {r} : UNCHANGED Facts(q)
  <1> USE DEF TypeInv, TypeOK, Goto
  <1> FlowOf(r) /\ Captured
    BY DEF FlowInv, Flow, FlowOf
  <1> DEFINE Goal == FlowOf(r)' /\ \A q \in Requests \ {r} : UNCHANGED Facts(q)
  <1> USE DEF FlowOf, Facts, Undecided, Decided, CachedAnswer
  <1>1. ASSUME NEW input \in Inputs, Receive(r, input)
        PROVE  Goal
    BY <1>1 DEF Receive, Stages
  <1>2. ASSUME ReadListVersion(r)
        PROVE  Goal
    BY <1>2 DEF ReadListVersion, shared, Stages
  <1>3. ASSUME RunEngines(r)
        PROVE  Goal
    <2>1. PICK dec \in Decisions, version \in {0, listVersion} : EnginesEffect(r, dec, version)
      BY <1>3, EnginesStep
    <2>2. UNCHANGED <<req, listVer, audited, caseRow>> /\ pc[r] \in {"rules", "engines"}
      BY <1>3 DEF RunEngines
    <2>3. QED
      BY <2>1, <2>2 DEF EnginesEffect, Result, Stages, Routes
  <1>4. ASSUME CacheHit(r)
        PROVE  Goal
    <2>1. CacheKey(r) \in Keys
      BY <1>4 DEF CacheHit, CacheKey, Keys, Inputs, Captured
    <2> DEFINE o == cache[CacheKey(r)].txn
    <2>2. Origin(o, cache[CacheKey(r)].dec, CacheKey(r))
      BY <1>4, <2>1 DEF CacheHit, FlowInv, CacheOrigin
    <2>3. o # r
      BY <1>4, <2>2 DEF CacheHit, Origin
    <2>4. PICK d, x : /\ answer' = [answer EXCEPT ![r] = [dec |-> d, txn |-> x, pack |-> req[r].pack]]
                      /\ d = cache[CacheKey(r)].dec /\ x = o
      BY <1>4 DEF CacheHit
    <2>5. /\ answer'[r].dec = d /\ answer'[r].txn = x
          /\ \A q \in Requests \ {r} : answer'[q] = answer[q]
      BY <2>4
    <2>6. /\ route' = [route EXCEPT ![r] = "cache"] /\ pc' = [pc EXCEPT ![r] = "done"]
          /\ pc[r] = "cache" /\ IsCB(r) /\ UNCHANGED <<req, listVer, audited, caseRow, arb>>
      BY <1>4 DEF CacheHit
    <2> HIDE DEF o
    <2>7. Origin(x, d, CacheKey(r))' /\ IsCB(r)'
      BY <2>2, <2>3, <2>4, <2>5, <2>6 DEF Origin, IsCB, CacheKey
    <2>8. CachedAnswer(r)'
      BY <2>5, <2>7, <2>4 DEF Origin, IsCB, CacheKey
    <2>9. d # "REVIEW"
      BY <2>2, <2>4 DEF Origin
    <2>10. QED
      BY <2>5, <2>6, <2>8, <2>9 DEF Stages, Routes
  <1>5. ASSUME CacheMiss(r) \/ EnterDeep(r)
        PROVE  Goal
    BY <1>5 DEF CacheMiss, EnterDeep, shared, Stages
  <1>6. ASSUME SkipDeep(r) \/ DeepFails(r)
        PROVE  Goal
    BY <1>6 DEF SkipDeep, DeepFails, Result, Stages, Routes
  <1>7. ASSUME DeepReturns(r)
        PROVE  Goal
    BY <1>7 DEF DeepReturns, Result, Stages, Routes
  <1>8. ASSUME Finish(r)
        PROVE  Goal
    BY <1>8 DEF Finish, Cacheable, IsCB, Stages
  <1>9. ASSUME PutCache(r)
        PROVE  Goal
    BY <1>9 DEF PutCache, Stages
  <1>10. QED
    BY <1>1, <1>2, <1>3, <1>4, <1>5, <1>6, <1>7, <1>8, <1>9 DEF Serve

LEMMA FlowStep ==
  ASSUME TypeInv, FlowInv, [Next]_vars
  PROVE  Flow'
  <1> SUFFICES ASSUME NEW q \in Requests
               PROVE  FlowOf(q)'
    BY DEF Flow, FlowOf
  <1>1. CASE \E r \in Requests : (\E input \in Inputs : Receive(r, input)) \/ Serve(r)
    <2>1. PICK r \in Requests : (\E input \in Inputs : Receive(r, input)) \/ Serve(r)
      BY <1>1
    <2>2. CASE q = r
      BY <2>1, <2>2, OwnFlow
    <2>3. CASE q # r
      BY <2>1, <2>3, OwnFlow, BystanderFlow
    <2>4. QED
      BY <2>2, <2>3
  <1>2. CASE \E r \in Requests : WriteDraft(r)
    (* A drafted case is still a case. *)
    <2>1. CASE UNCHANGED caseRow
      <3>1. UNCHANGED Facts(q)
        BY <1>2, <2>1 DEF WriteDraft, requestVars, Facts
      <3>2. QED
        BY <3>1, BystanderFlow
    <2>2. CASE \E r \in Requests : caseRow[r] = "open" /\ caseRow' = [caseRow EXCEPT ![r] = "drafted"]
      <3>1. UNCHANGED requestVars
        BY <1>2 DEF WriteDraft
      <3>2. (caseRow'[q] = "none") = (caseRow[q] = "none")
        BY <2>2 DEF TypeInv, TypeOK
      <3>3. QED
        BY <3>1, <3>2 DEF FlowInv, Flow, FlowOf, Undecided, Decided, CachedAnswer, Origin,
                          IsCB, CacheKey, requestVars
    <2>3. QED
      BY <1>2, <2>1, <2>2 DEF WriteDraft
  <1>3. CASE UNCHANGED <<requestVars, caseRow>>
    <2>1. UNCHANGED Facts(q)
      BY <1>3 DEF requestVars, Facts
    <2>2. QED
      BY <2>1, BystanderFlow
  <1>4. (\E r \in Requests : RunShadow(r)) \/ (\E d \in Domains : ReloadPack(d)) \/ PublishList
        \/ (\E k \in Keys : ExpireEntry(k)) \/ Elapse \/ UNCHANGED vars
        => UNCHANGED <<requestVars, caseRow>>
    BY DEF RunShadow, ReloadPack, PublishList, ExpireEntry, Elapse, vars, requestVars
  <1>5. QED
    BY <1>1, <1>2, <1>3, <1>4 DEF Next

(* A cache row always has its origin: the request that put it there.       *)
LEMMA CacheStep ==
  ASSUME TypeInv, FlowInv, [Next]_vars
  PROVE  CacheOrigin'
  <1> SUFFICES ASSUME NEW k \in Keys, cache'[k] # NoEntry
               PROVE  Origin(cache[k].txn, cache[k].dec, k)'
    BY DEF CacheOrigin, Keys, ListVersions
  <1>1. CASE cache'[k] = cache[k]
    <2>1. Origin(cache[k].txn, cache[k].dec, k)
      BY <1>1 DEF FlowInv, CacheOrigin
    <2>2. PICK o \in Requests : o = cache[k].txn
      BY <2>1 DEF Origin
    <2>3. /\ pc'[o] \in {"put", "done"}
          /\ req'[o] = req[o] /\ listVer'[o] = listVer[o]
          /\ route'[o] = route[o] /\ answer'[o] = answer[o] /\ audited'[o] = audited[o]
      BY <2>1, <2>2, VerdictFrozen DEF Origin
    <2>4. QED
      BY <1>1, <2>1, <2>2, <2>3 DEF Origin, IsCB, CacheKey
  <1>2. CASE cache'[k] # cache[k]
    <2>1. cache' # cache
      BY <1>2
    <2>2. ASSUME NEW e \in Keys, ExpireEntry(e)
          PROVE  FALSE
      BY <2>2, <1>2 DEF ExpireEntry, TypeInv, TypeOK
    <2>3. PICK r \in Requests : PutCache(r)
      BY <2>1, <2>2 DEF Next, Serve, Receive, ReadListVersion, RunEngines, CacheHit, CacheMiss,
                   EnterDeep, SkipDeep, DeepReturns, DeepFails, Finish, RunShadow, WriteDraft,
                   ReloadPack, PublishList, Elapse, shared, vars
    <2>4. k = CacheKey(r) /\ cache'[k] = [dec |-> answer[r].dec, txn |-> answer[r].txn]
      BY <1>2, <2>3 DEF PutCache, TypeInv, TypeOK
    <2>5. /\ answer[r].txn = r /\ route[r] = "deep" /\ IsCB(r)
          /\ answer[r].dec \in {"APPROVE", "REJECT"}
          /\ audited[r]
      BY <2>3 DEF PutCache, FlowInv, Flow, Decided
    <2>6. pc'[r] = "done" /\ UNCHANGED <<req, listVer, route, answer, audited>>
      BY <2>3 DEF PutCache, Goto, TypeInv, TypeOK
    <2>7. QED
      BY <2>4, <2>5, <2>6 DEF Origin, IsCB, CacheKey
  <1>3. QED
    BY <1>1, <1>2

(* The list only grows; a request searches it after reading its version.   *)
LEMMA ListStep ==
  ASSUME TypeInv, FlowInv, [Next]_vars
  PROVE  ListOrder'
  <1> USE DEF TypeInv, TypeOK, Goto
  <1> ListOrder
    BY DEF FlowInv
  <1>1. ASSUME NEW r \in Requests, RunEngines(r)
        PROVE  ListOrder'
    <2>1. PICK dec \in Decisions, version \in {0, listVersion} : EnginesEffect(r, dec, version)
      BY <1>1, EnginesStep
    <2>2. UNCHANGED <<listVersion, listVer>> /\ pc'[r] \in {"cache", "finish"}
          /\ \A q \in Requests \ {r} : pc'[q] = pc[q]
      BY <1>1, <2>1 DEF EnginesEffect, RunEngines
    <2>3. QED
      BY <2>1, <2>2, OrchestratorAssumption DEF EnginesEffect, ListOrder, ListVersions
  <1>2. ASSUME NEW r \in Requests, ReadListVersion(r)
        PROVE  ListOrder'
    BY <1>2, OrchestratorAssumption DEF ReadListVersion, shared, ListOrder, ListVersions
  <1>3. ASSUME NEW r \in Requests, \E input \in Inputs : Receive(r, input)
        PROVE  ListOrder'
    BY <1>3 DEF Receive, ListOrder
  <1>4. ASSUME PublishList
        PROVE  ListOrder'
    BY <1>4, OrchestratorAssumption DEF PublishList, requestVars, ListOrder, ListVersions
  <1>5. ASSUME NEW r \in Requests,
               CacheHit(r) \/ CacheMiss(r) \/ EnterDeep(r) \/ SkipDeep(r)
               \/ DeepReturns(r) \/ DeepFails(r) \/ Finish(r) \/ PutCache(r)
        PROVE  ListOrder'
    <2>1. UNCHANGED <<listVersion, listVer, seen>>
      BY <1>5 DEF CacheHit, CacheMiss, EnterDeep, SkipDeep, DeepReturns, DeepFails, Finish,
                  PutCache, shared
    <2>2. \A q \in Requests : pc'[q] \in {"new", "rules", "engines"} => pc[q] = pc'[q]
      BY <1>5 DEF CacheHit, CacheMiss, EnterDeep, SkipDeep, DeepReturns, DeepFails, Finish,
                  PutCache
    <2>3. QED
      BY <2>1, <2>2 DEF ListOrder
  <1>6. UNCHANGED <<requestVars, listVersion>> => ListOrder'
    BY DEF requestVars, ListOrder
  <1>7. (\E r \in Requests : RunShadow(r) \/ WriteDraft(r)) \/ (\E d \in Domains : ReloadPack(d))
        \/ (\E k \in Keys : ExpireEntry(k)) \/ Elapse \/ UNCHANGED vars
        => UNCHANGED <<requestVars, listVersion>>
    BY DEF RunShadow, WriteDraft, ReloadPack, ExpireEntry, Elapse, vars, requestVars
  <1>8. QED
    BY <1>1, <1>2, <1>3, <1>4, <1>5, <1>6, <1>7 DEF Next, Serve

LEMMA FlowAlways == Spec => [](TypeInv /\ FlowInv)
  <1>1. Init => TypeInv /\ FlowInv
    BY InitTyped, InitFlows
  <1>2. TypeInv /\ FlowInv /\ [Next]_vars => (TypeInv /\ FlowInv)'
    BY StepTyped, FlowStep, CacheStep, ListStep DEF FlowInv
  <1>3. QED
    BY <1>1, <1>2, PTL DEF Spec

-----------------------------------------------------------------------------
(* A decision the local engines reach on their own is the one the caller   *)
(* gets (orchestrator.go:46-95): the gray zone alone is open to the cache, *)
(* the breaker and the deep runtime.                                       *)
THEOREM LocalVerdictAlwaysStands == Spec => []LocalVerdictStands
  <1>1. TypeInv /\ FlowInv => LocalVerdictStands
    BY DEF TypeInv, TypeOK, FlowInv, Flow, Decided, LocalVerdictStands, Answered
  <1>2. QED
    BY <1>1, FlowAlways, PTL

(* No gray request is approved or rejected without a deep verdict for its  *)
(* party and list version (orchestrator.go:57-94, 137-173).                *)
THEOREM GrayVerdictAlwaysHasSource == Spec => []GrayVerdictHasSource
  <1>1. TypeInv /\ FlowInv => GrayVerdictHasSource
    <2> SUFFICES ASSUME TypeInv, FlowInv, NEW r \in Requests, pc[r] = "done",
                        arb[r] = "REVIEW", answer[r].dec # "REVIEW"
                 PROVE  \E q \in Requests :
                            /\ route[q] = "deep"
                            /\ answer[q].dec = answer[r].dec
                            /\ q = r \/ ( /\ IsCB(q) /\ IsCB(r)
                                          /\ req[q].party = req[r].party
                                          /\ listVer[q] = listVer[r] )
      BY DEF GrayVerdictHasSource, Answered
    <2>1. route[r] \in {"deep", "cache"}
      BY DEF FlowInv, Flow, Decided, Routes
    <2>2. CASE route[r] = "deep"
      BY <2>2
    <2>3. CASE route[r] = "cache"
      BY <2>3 DEF FlowInv, Flow, CachedAnswer, Origin, CacheKey
    <2>4. QED
      BY <2>1, <2>2, <2>3
  <1>2. QED
    BY <1>1, FlowAlways, PTL

(* A cached verdict is no older than the list its reader asked about       *)
(* (engines.go:81-90).                                                     *)
THEOREM CacheAlwaysFollowsList == Spec => []CacheNeverPredatesList
  <1>1. TypeInv /\ FlowInv => CacheNeverPredatesList
    BY DEF FlowInv, ListOrder, Flow, CachedAnswer, Origin, CacheKey, CacheNeverPredatesList
  <1>2. QED
    BY <1>1, FlowAlways, PTL

(* The REVIEW answers are those with a case (orchestrator.go:158, 280-291, *)
(* 361-373).                                                               *)
THEOREM CasesAlwaysMatchReviews == Spec => []CasesMatchReviews
  <1>1. TypeInv /\ FlowInv => CasesMatchReviews
    BY DEF FlowInv, Flow, Decided, CasesMatchReviews, Answered
  <1>2. QED
    BY <1>1, FlowAlways, PTL

(* Whoever gets a verdict, the request that reached it flushed its audit   *)
(* (orchestrator.go:57-64, 203-294, 327).                                  *)
THEOREM VerdictsAlwaysAudited == Spec => []VerdictAudited
  <1>1. TypeInv /\ FlowInv => VerdictAudited
    BY DEF TypeInv, TypeOK, FlowInv, Flow, Decided, CachedAnswer, Origin, VerdictAudited, Answered
  <1>2. QED
    BY <1>1, FlowAlways, PTL

-----------------------------------------------------------------------------
(* The calls of the breaker, as its instance sees them.                    *)
Calls == [r \in Requests |-> DeepCallOf(r)]

(* Entering the deep call is an admission.                                 *)
LEMMA EntryIsAdmission ==
  ASSUME TypeInv, NEW r \in Requests, EnterDeep(r)
  PROVE  Breaker!Admit(r)
  <1> USE DEF TypeInv, TypeOK, Goto, breakerVars
  <1>1. /\ pc[r] = "gate" /\ pc' = [pc EXCEPT ![r] = "deep"]
        /\ UNCHANGED <<route, failures, openLeft>>
    BY DEF EnterDeep, shared
  <1>2. Calls[r] # "inflight" /\ Calls' = [Calls EXCEPT ![r] = "inflight"]
    BY <1>1 DEF Calls, DeepCallOf
  <1>3. QED
    BY <1>1, <1>2 DEF EnterDeep, Breaker!Admit, Breaker!breakerVars, Calls

(* The step in which a request learns how its call ended reports just that.*)
LEMMA EndIsReport ==
  ASSUME TypeInv, NEW r \in Requests
  PROVE  /\ DeepReturns(r) => Breaker!ReportSuccess(r)
         /\ DeepFails(r) => Breaker!ReportFailure(r)
  <1> USE DEF TypeInv, TypeOK, Goto
  <1>1. ASSUME NEW how \in {"deep", "deepfail"}, pc[r] = "deep",
               pc' = [pc EXCEPT ![r] = "finish"], route' = [route EXCEPT ![r] = how]
        PROVE  /\ Calls[r] = "inflight"
               /\ Calls' = [Calls EXCEPT ![r] =
                               IF how = "deep" THEN "succeeded" ELSE "failed"]
    BY <1>1 DEF Calls, DeepCallOf
  <1>2. ASSUME DeepReturns(r)
        PROVE  Breaker!ReportSuccess(r)
    <2>1. Calls[r] = "inflight" /\ Calls' = [Calls EXCEPT ![r] = "succeeded"]
      BY <1>1, <1>2 DEF DeepReturns
    <2>2. QED
      BY <1>2, <2>1 DEF DeepReturns, Breaker!ReportSuccess, Calls
  <1>3. ASSUME DeepFails(r)
        PROVE  Breaker!ReportFailure(r)
    <2>1. Calls[r] = "inflight" /\ Calls' = [Calls EXCEPT ![r] = "failed"]
      BY <1>1, <1>3 DEF DeepFails
    <2>2. QED
      BY <1>3, <2>1 DEF DeepFails, Breaker!ReportFailure, Calls
  <1>4. QED
    BY <1>2, <1>3

(* The step that enters the deep call is an admission, the two that leave  *)
(* it are reports of how it ended, and no other step touches the breaker   *)
(* or makes a call that did not run look like one.                         *)
LEMMA BreakerStep == TypeInv /\ FlowInv /\ [Next]_vars => [Breaker!Next]_Breaker!vars
  <1> SUFFICES ASSUME TypeInv, FlowInv, [Next]_vars
               PROVE  Breaker!Next \/ UNCHANGED <<failures, openLeft, Calls>>
    BY DEF Breaker!vars, Calls
  <1> USE DEF TypeInv, TypeOK, Goto, breakerVars
  <1>1. ASSUME NEW r \in Requests, EnterDeep(r)
        PROVE  Breaker!Next
    BY <1>1, EntryIsAdmission DEF Breaker!Next
  <1>2. ASSUME NEW r \in Requests, DeepReturns(r) \/ DeepFails(r)
        PROVE  Breaker!Next
    BY <1>2, EndIsReport DEF Breaker!Next
  <1>3. ASSUME NEW r \in Requests,
               (\E input \in Inputs : Receive(r, input)) \/ ReadListVersion(r)
               \/ CacheMiss(r) \/ Finish(r) \/ PutCache(r)
        PROVE  UNCHANGED <<failures, openLeft, Calls>>
    <2>1. UNCHANGED <<failures, openLeft, route>>
      BY <1>3 DEF Receive, ReadListVersion, CacheMiss, Finish, PutCache, shared
    <2>2. \A q \in Requests : (pc'[q] = "deep") = (pc[q] = "deep")
      BY <1>3 DEF Receive, ReadListVersion, CacheMiss, Finish, PutCache
    <2>3. QED
      BY <2>1, <2>2 DEF Calls, DeepCallOf
  <1>4. ASSUME NEW r \in Requests, RunEngines(r) \/ CacheHit(r) \/ SkipDeep(r)
        PROVE  UNCHANGED <<failures, openLeft, Calls>>
    <2>1. UNCHANGED <<failures, openLeft>>
      BY <1>4 DEF RunEngines, CacheHit, SkipDeep
    <2>2. route[r] = "none"
      BY <1>4 DEF RunEngines, CacheHit, SkipDeep, FlowInv, Flow, Undecided, Stages
    <2>3. /\ pc[r] # "deep"
          /\ \E stage \in {"cache", "finish", "done"} : pc' = [pc EXCEPT ![r] = stage]
          /\ \E how \in {"none", "local", "cache", "breaker"} :
                route' = [route EXCEPT ![r] = how]
      <3>1. CASE RunEngines(r)
        <4>1. PICK dec \in Decisions, version \in {0, listVersion} :
                      EnginesEffect(r, dec, version)
          BY <3>1, EnginesStep
        <4>2. pc[r] # "deep"
          BY <3>1 DEF RunEngines
        <4>3. CASE UNCHANGED route
          <5>1. route' = [route EXCEPT ![r] = "none"]
            BY <2>2, <4>3
          <5>2. QED
            BY <4>1, <4>2, <5>1 DEF EnginesEffect
        <4>4. QED
          BY <4>1, <4>2, <4>3 DEF EnginesEffect
      <3>2. CASE CacheHit(r) \/ SkipDeep(r)
        BY <3>2 DEF CacheHit, SkipDeep
      <3>3. QED
        BY <1>4, <3>1, <3>2
    <2>4. UNCHANGED Calls
      BY <2>2, <2>3 DEF Calls, DeepCallOf
    <2>5. QED
      BY <2>1, <2>4
  <1>5. CASE Elapse
    <2>1. UNCHANGED <<pc, route>>
      BY <1>5 DEF Elapse, requestVars
    <2>2. Breaker!Elapse
      BY <1>5 DEF Elapse
    <2>3. QED
      BY <2>2 DEF Breaker!Next
  <1>6. (\E r \in Requests : RunShadow(r) \/ WriteDraft(r)) \/ (\E d \in Domains : ReloadPack(d))
        \/ PublishList \/ (\E k \in Keys : ExpireEntry(k)) \/ UNCHANGED vars
        => UNCHANGED <<failures, openLeft, Calls>>
    BY DEF RunShadow, WriteDraft, ReloadPack, PublishList, ExpireEntry, vars, requestVars,
           Calls, DeepCallOf
  <1>7. QED
    BY <1>1, <1>2, <1>3, <1>4, <1>5, <1>6 DEF Next, Serve

(* The concurrent requests implement the breaker's specification           *)
(* (orchestrator.go:66-91), for every threshold: each deep call is let in  *)
(* by Allow and reported once, as what it was.  So what is proved of       *)
(* CircuitBreaker holds of them, for instance that it opens only on        *)
(* consecutive failures.                                                   *)
THEOREM ImplementsBreaker == Spec => BreakerProtocol
  <1>1. Init => Breaker!Init
    BY DEF Init, Breaker!Init, DeepCallOf
  <1>2. Spec => [](TypeInv /\ FlowInv)
    BY FlowAlways, PTL
  <1>3. QED
    BY <1>1, <1>2, BreakerStep, PTL DEF Spec, BreakerProtocol, Breaker!Spec

-----------------------------------------------------------------------------
(* The exact scope of the two contracts that do not hold of every answer.  *)

(* An answer carries another request's transaction id exactly when it came *)
(* from the cache: every other route names its own request, and a cache    *)
(* hit never does (orchestrator.go:57-64, 137-173, tools/types.go:82).     *)
ForeignIdIffCached ==
    \A r \in Requests : Answered(r) => (answer[r].txn # r <=> route[r] = "cache")

(* For any requests, reloads and expiries, exactly the answers from the    *)
(* cache bear another transaction id (orchestrator.go:57-64).              *)
THEOREM TransactionIdScope == Spec => []ForeignIdIffCached
  <1>1. TypeInv /\ FlowInv => ForeignIdIffCached
    <2> SUFFICES ASSUME TypeInv, FlowInv, NEW r \in Requests, pc[r] = "done"
                 PROVE  answer[r].txn # r <=> route[r] = "cache"
      BY DEF ForeignIdIffCached, Answered
    <2>1. CASE route[r] = "cache"
      <3>1. route[answer[r].txn] = "deep"
        BY <2>1 DEF FlowInv, Flow, CachedAnswer, Origin
      <3>2. QED
        BY <2>1, <3>1
    <2>2. CASE route[r] # "cache"
      BY <2>2 DEF FlowInv, Flow, Decided
    <2>3. QED
      BY <2>1, <2>2
  <1>2. QED
    BY <1>1, FlowAlways, PTL

(* A decision outside the three values reaches only the request whose own  *)
(* deep call returned it: local answers, the open breaker, failed calls    *)
(* and the cache stay inside, and such a decision is not stored            *)
(* (orchestrator.go:137-199, tools/types.go:84).                           *)
ForeignDecisionIsOwnDeep ==
    \A r \in Requests :
        Answered(r) /\ answer[r].dec \notin Decisions =>
            route[r] = "deep" /\ \A k \in Keys : cache[k] # NoEntry => cache[k].txn # r

(* For any requests and deep calls, a decision outside the contract stays  *)
(* with the request that asked for it (orchestrator.go:195-199).           *)
THEOREM DecisionContractScope == Spec => []ForeignDecisionIsOwnDeep
  <1>1. TypeInv /\ FlowInv => ForeignDecisionIsOwnDeep
    <2> SUFFICES ASSUME TypeInv, FlowInv, NEW r \in Requests, pc[r] = "done",
                        answer[r].dec \notin Decisions
                 PROVE  /\ route[r] = "deep"
                        /\ \A k \in Keys : cache[k] # NoEntry => cache[k].txn # r
      BY DEF ForeignDecisionIsOwnDeep, Answered
    <2>1. route[r] \notin {"local", "breaker", "deepfail"} /\ route[r] \in Routes \ {"none"}
      BY DEF FlowInv, Flow, Decided, Decisions
    <2>2. route[r] # "cache"
      BY DEF FlowInv, Flow, CachedAnswer, Origin, Decisions
    <2>3. ASSUME NEW k \in Keys, cache[k] # NoEntry, cache[k].txn = r
          PROVE  FALSE
      BY <2>3 DEF FlowInv, CacheOrigin, Origin, Decisions
    <2>4. QED
      BY <2>1, <2>2, <2>3 DEF Routes
  <1>2. QED
    BY <1>1, FlowAlways, PTL

(* An answer that left is final: no later step of any request, reload,     *)
(* expiry or background job changes the verdict, the way it was reached or *)
(* the list version it was reached on (orchestrator.go:57-95, 377-395).    *)
AnswersAreFinal ==
    [][\A r \in Requests :
         Answered(r) => /\ Answered(r)'
                        /\ UNCHANGED <<answer[r], route[r], req[r], listVer[r], seen[r]>>]_vars

(* For any interleaving, an answer once given stays as it is               *)
(* (orchestrator.go:57-95).                                                *)
THEOREM AnswersStayFinal == Spec => AnswersAreFinal
  <1>1. TypeInv /\ [Next]_vars =>
            \A r \in Requests : pc[r] = "done" => pc'[r] = "done"
    <2> SUFFICES ASSUME TypeInv, [Next]_vars, NEW r \in Requests, pc[r] = "done"
                 PROVE  pc'[r] = "done"
      OBVIOUS
    <2>1. UNCHANGED requestVars => pc'[r] = "done"
      BY DEF requestVars
    <2>2. ASSUME NEW q \in Requests, (\E input \in Inputs : Receive(q, input)) \/ Serve(q)
          PROVE  pc'[r] = "done"
      <3>1. pc[q] # "done"
        BY <2>2 DEF Serve, Receive, ReadListVersion, RunEngines, CacheHit, CacheMiss, EnterDeep,
                    SkipDeep, DeepReturns, DeepFails, Finish, PutCache
      <3>2. \A x \in Requests \ {q} : pc'[x] = pc[x]
        BY <2>2 DEF Serve, Receive, ReadListVersion, RunEngines, CacheHit, CacheMiss, EnterDeep,
                    SkipDeep, DeepReturns, DeepFails, Finish, PutCache, Goto, TypeInv, TypeOK
      <3>3. QED
        BY <3>1, <3>2
    <2>3. (\E q \in Requests : RunShadow(q) \/ WriteDraft(q)) \/ (\E d \in Domains : ReloadPack(d))
          \/ PublishList \/ (\E k \in Keys : ExpireEntry(k)) \/ Elapse \/ UNCHANGED vars
          => UNCHANGED requestVars
      BY DEF RunShadow, WriteDraft, ReloadPack, PublishList, ExpireEntry, Elapse, vars,
             requestVars
    <2>4. QED
      BY <2>1, <2>2, <2>3 DEF Next
  <1>2. TypeInv /\ [Next]_vars =>
            \A r \in Requests :
              Answered(r) => /\ Answered(r)'
                             /\ UNCHANGED <<answer[r], route[r], req[r], listVer[r], seen[r]>>
    BY <1>1, VerdictFrozen DEF Answered
  <1>3. Spec => []TypeInv
    BY FlowAlways, PTL
  <1>4. QED
    BY <1>2, <1>3, PTL DEF Spec, AnswersAreFinal

-----------------------------------------------------------------------------
(* A goroutine only moves forward: the order of the stages of Orchestrate. *)
Rank == [new |-> 0, rules |-> 1, engines |-> 2, cache |-> 3, gate |-> 4, deep |-> 5,
         finish |-> 6, put |-> 7, done |-> 8]

(* Every step that moves a request moves it to a later stage, and only the *)
(* request's own goroutine moves it: no retry, timeout or reload sends a   *)
(* request back, so each is answered after at most eight of its steps      *)
(* (orchestrator.go:15-96).  That these steps are taken is                 *)
(* EveryRequestAnswered, which TLC checks.                                 *)
OnlyForward ==
    [][\A r \in Requests :
         pc'[r] # pc[r] =>
            /\ Rank[pc'[r]] > Rank[pc[r]]
            /\ (\E input \in Inputs : Receive(r, input)) \/ Serve(r)
            /\ \A q \in Requests \ {r} : pc'[q] = pc[q]]_vars

(* The stage a step leaves and the stage it reaches.                       *)
LEMMA OwnStepForward ==
  ASSUME TypeInv, NEW q \in Requests,
         (\E input \in Inputs : Receive(q, input)) \/ Serve(q)
  PROVE  /\ Rank[pc'[q]] > Rank[pc[q]]
         /\ \A r \in Requests \ {q} : pc'[r] = pc[r]
  <1> USE DEF TypeInv, TypeOK, Goto
  <1> DEFINE From(stages, next) ==
               /\ pc[q] \in stages
               /\ pc'[q] \in next
               /\ \A r \in Requests \ {q} : pc'[r] = pc[r]
  <1>1. \/ From({"new"}, {"rules"})
        \/ From({"rules"}, {"engines"})
        \/ From({"rules", "engines"}, {"cache", "finish"})
        \/ From({"cache"}, {"gate", "done"})
        \/ From({"gate"}, {"deep", "finish"})
        \/ From({"deep"}, {"finish"})
        \/ From({"finish"}, {"put", "done"})
        \/ From({"put"}, {"done"})
    <2>1. CASE \E input \in Inputs : Receive(q, input)
      BY <2>1 DEF Receive
    <2>2. CASE ReadListVersion(q)
      BY <2>2 DEF ReadListVersion
    <2>3. CASE RunEngines(q)
      BY <2>3 DEF RunEngines
    <2>4. CASE CacheHit(q) \/ CacheMiss(q)
      BY <2>4 DEF CacheHit, CacheMiss
    <2>5. CASE EnterDeep(q) \/ SkipDeep(q)
      BY <2>5 DEF EnterDeep, SkipDeep
    <2>6. CASE DeepReturns(q) \/ DeepFails(q)
      BY <2>6 DEF DeepReturns, DeepFails
    <2>7. CASE Finish(q)
      BY <2>7 DEF Finish
    <2>8. CASE PutCache(q)
      BY <2>8 DEF PutCache
    <2>9. QED
      BY <2>1, <2>2, <2>3, <2>4, <2>5, <2>6, <2>7, <2>8 DEF Serve
  <1>2. QED
    BY <1>1 DEF Rank

(* For any interleaving, each request is moved by its own goroutine only,  *)
(* and only forward (orchestrator.go:15-96).                               *)
THEOREM GoroutinesOnlyForward == Spec => OnlyForward
  <1>1. TypeInv /\ [Next]_vars =>
            \A r \in Requests :
              pc'[r] # pc[r] =>
                /\ Rank[pc'[r]] > Rank[pc[r]]
                /\ (\E input \in Inputs : Receive(r, input)) \/ Serve(r)
                /\ \A q \in Requests \ {r} : pc'[q] = pc[q]
    <2> SUFFICES ASSUME TypeInv, [Next]_vars, NEW r \in Requests, pc'[r] # pc[r]
                 PROVE  /\ Rank[pc'[r]] > Rank[pc[r]]
                        /\ (\E input \in Inputs : Receive(r, input)) \/ Serve(r)
                        /\ \A q \in Requests \ {r} : pc'[q] = pc[q]
      OBVIOUS
    <2>1. ~((\E q \in Requests : RunShadow(q) \/ WriteDraft(q))
            \/ (\E d \in Domains : ReloadPack(d)) \/ PublishList
            \/ (\E k \in Keys : ExpireEntry(k)) \/ Elapse \/ UNCHANGED vars)
      BY DEF RunShadow, WriteDraft, ReloadPack, PublishList, ExpireEntry, Elapse, vars,
             requestVars
    <2>2. PICK q \in Requests : (\E input \in Inputs : Receive(q, input)) \/ Serve(q)
      BY <2>1 DEF Next
    <2>3. r = q
      BY <2>2, OwnStepForward
    <2>4. QED
      BY <2>2, <2>3, OwnStepForward
  <1>2. Spec => []TypeInv
    BY FlowAlways, PTL
  <1>3. QED
    BY <1>1, <1>2, PTL DEF Spec, OnlyForward

-----------------------------------------------------------------------------
(* The abstraction of RunEngines: RuleOutcomes, and NeedDeep taken as TRUE,*)
(* cover what the engines of module RiskPolicy do on every request.        *)

(* A whitelisted party passes the fast filter, and nobody else does.       *)
LEMMA PassIsWhitelisted ==
  ASSUME NEW t \in Txns
  PROVE  FastFilter(t).pass = t.white
  <1>1. ASSUME t.white
        PROVE  FastFilter(t).pass
    BY <1>1 DEF FastFilter
  <1>2. ASSUME ~t.white
        PROVE  ~FastFilter(t).pass
    BY <1>2 DEF FastFilter, Txns
  <1>3. FastFilter(t).pass \in BOOLEAN
    BY DEF FastFilter, Txns
  <1>4. QED
    BY <1>1, <1>2, <1>3 DEF Txns

(* A rule result with the early flag of a verdict makes both NeedDeep      *)
(* methods say what TRUE says.                                             *)
LEMMA NeedDeepIsImplied ==
  ASSUME NEW rule, rule.dec \in Decisions, rule.early = (rule.dec # "REVIEW"),
         NEW dec, rule.dec = "REJECT" => dec = "REJECT",
         rule.dec = "REVIEW" /\ dec # "REJECT" => dec = "REVIEW",
         NEW bucket
  PROVE  /\ UseDeep(DeepEnabled, rule, dec, NeedDeepCB(bucket, rule, dec))
              = UseDeep(DeepEnabled, [early |-> rule.dec # "REVIEW"], dec, TRUE)
         /\ UseDeep(DeepEnabled, rule, dec, NeedDeepStock(bucket, rule, dec))
              = UseDeep(DeepEnabled, [early |-> rule.dec # "REVIEW"], dec, TRUE)
  <1>1. CASE rule.dec # "REVIEW" \/ dec = "REJECT"
    BY <1>1 DEF UseDeep
  <1>2. CASE rule.dec = "REVIEW" /\ dec # "REJECT"
    <2>1. dec = "REVIEW"
      BY <1>2
    <2>2. NeedDeepCB(bucket, rule, dec) = TRUE /\ NeedDeepStock(bucket, rule, dec) = TRUE
      BY <1>2, <2>1 DEF NeedDeepCB, NeedDeepStock
    <2>3. QED
      BY <1>2, <2>2 DEF UseDeep
  <1>3. QED
    BY <1>1, <1>2

(* Whatever the pack, the transaction and the search, the cross-border     *)
(* engines of RiskPolicy leave one of the outcomes RunEngines chooses from *)
(* and route like it: a list version is searched unless the fast filter    *)
(* decided, the bucket is fast or the search failed, and an approval       *)
(* without a search has the bucket fast (engines.go:84-125,                *)
(* orchestrator.go:46-50, domain_cb.go, preanalyze.go).                    *)
THEOREM CrossBorderEnginesCovered ==
  ASSUME NEW r \in Requests, IsCB(r),
         NEW p, NEW t \in Txns, NEW search \in Searches,
         NEW graph \in Decisions, NEW light \in Decisions,
         req[r].bucket = BucketCB(t)
  PROVE  LET rule == RunRuleEngine(p, t, BucketCB(t) # "fast", search)
             searched == /\ ~FastFilter(t).pass /\ ~FastFilter(t).hardBlock
                         /\ BucketCB(t) # "fast" /\ search.ok
             dec == Arbitrate({rule.dec, graph, light})
         IN /\ <<rule.dec, IF searched THEN listVersion ELSE 0>> \in RuleOutcomes(r)
            /\ UseDeep(DeepEnabled, rule, dec, NeedDeepCB(BucketCB(t), rule, dec))
                 = UseDeep(DeepEnabled, [early |-> rule.dec # "REVIEW"], dec, TRUE)
  <1> DEFINE gate == FastFilter(t)
             bucket == BucketCB(t)
             rule == RunRuleEngine(p, t, bucket # "fast", search)
             searched == ~gate.pass /\ ~gate.hardBlock /\ bucket # "fast" /\ search.ok
             dec == Arbitrate({rule.dec, graph, light})
  <1>1. gate.pass => bucket = "fast"
    <2>1. t.white => BucketCB(t) = "fast"
      BY Zenon DEF BucketCB
    <2>2. QED
      BY <2>1, PassIsWhitelisted DEF Txns
  <1>2. search.ok \in BOOLEAN
    BY DEF Searches
  <1>3. /\ gate.pass => RuleDecision(gate, FALSE) = "APPROVE"
        /\ ~gate.pass /\ gate.hardBlock => RuleDecision(gate, FALSE) = "REJECT"
        /\ ~gate.pass /\ ~gate.hardBlock => RuleDecision(gate, FALSE) \in {"APPROVE", "REVIEW"}
    BY DEF RuleDecision
  <1> DEFINE d == RuleDecision(gate, FALSE)
             byMatch == AutoReject(p, search.matches)
             clear == SkipAI(p, search.matches)
  <1>4. /\ gate.pass \/ gate.hardBlock => rule.dec = d /\ rule.early
        /\ ~gate.pass /\ ~gate.hardBlock /\ bucket = "fast" => rule.dec = "REVIEW" /\ ~rule.early
        /\ ~gate.pass /\ ~gate.hardBlock /\ bucket # "fast" =>
             /\ ~search.ok => rule.dec = "REVIEW" /\ ~rule.early
             /\ search.ok /\ byMatch => rule.dec = "REJECT" /\ rule.early
             /\ search.ok /\ ~byMatch /\ clear => rule.dec = d /\ rule.early = (d = "APPROVE")
             /\ search.ok /\ ~byMatch /\ ~clear => rule.dec = "REVIEW" /\ ~rule.early
    BY DEF RunRuleEngine, Engine
  <1>5. rule.early \in BOOLEAN
    BY DEF RunRuleEngine, Engine
  <1> HIDE DEF gate, bucket, rule, d, byMatch, clear
  <1>6. rule.dec \in Decisions /\ rule.early = (rule.dec # "REVIEW")
    BY <1>3, <1>4, <1>5 DEF Decisions, d
  <1>7. <<rule.dec, IF searched THEN listVersion ELSE 0>> \in RuleOutcomes(r)
    <2>1. RuleOutcomes(r) = {<<"REJECT", 0>>, <<"REVIEW", 0>>}
                              \cup (IF bucket = "fast" THEN {<<"APPROVE", 0>>}
                                    ELSE Decisions \X {listVersion})
      BY DEF RuleOutcomes, bucket
    <2>2. CASE searched
      BY <1>6, <2>1, <2>2
    <2>3. CASE ~searched
      <3>1. rule.dec = "APPROVE" => bucket = "fast"
        BY <1>1, <1>2, <1>3, <1>4, <2>3 DEF d
      <3>2. QED
        BY <1>6, <2>1, <2>3, <3>1 DEF Decisions
    <2>4. QED
      BY <2>2, <2>3
  <1>8. UseDeep(DeepEnabled, rule, dec, NeedDeepCB(bucket, rule, dec))
          = UseDeep(DeepEnabled, [early |-> rule.dec # "REVIEW"], dec, TRUE)
    <2>1. /\ rule.dec = "REJECT" => dec = "REJECT"
          /\ rule.dec = "REVIEW" /\ dec # "REJECT" => dec = "REVIEW"
      BY DEF Arbitrate
    <2> HIDE DEF dec
    <2>2. QED
      BY <1>6, <2>1, NeedDeepIsImplied
  <1>9. QED
    BY <1>7, <1>8 DEF gate, bucket, rule

(* The same for stock orders, which have no search (stock_rules.go,        *)
(* domain_stock.go).                                                       *)
THEOREM StockEnginesCovered ==
  ASSUME NEW r \in Requests, ~IsCB(r), NEW o \in Orders,
         NEW graph \in Decisions, NEW light \in Decisions
  PROVE  LET rule == RunStockRules(o)
             dec == Arbitrate({rule.dec, graph, light})
         IN /\ <<rule.dec, 0>> \in RuleOutcomes(r)
            /\ UseDeep(DeepEnabled, rule, dec, NeedDeepStock(BucketStock(o), rule, dec))
                 = UseDeep(DeepEnabled, [early |-> rule.dec # "REVIEW"], dec, TRUE)
  <1> DEFINE rule == RunStockRules(o)
             dec == Arbitrate({rule.dec, graph, light})
  <1>1. rule.dec \in Decisions /\ rule.early = (rule.dec # "REVIEW")
    BY DEF RunStockRules, StockRuleDecision, Engine, Decisions
  <1> HIDE DEF rule
  <1>2. <<rule.dec, 0>> \in RuleOutcomes(r)
    BY <1>1 DEF RuleOutcomes
  <1>3. UseDeep(DeepEnabled, rule, dec, NeedDeepStock(BucketStock(o), rule, dec))
          = UseDeep(DeepEnabled, [early |-> rule.dec # "REVIEW"], dec, TRUE)
    <2>1. /\ rule.dec = "REJECT" => dec = "REJECT"
          /\ rule.dec = "REVIEW" /\ dec # "REJECT" => dec = "REVIEW"
      BY DEF Arbitrate
    <2> HIDE DEF dec
    <2>2. QED
      BY <1>1, <2>1, NeedDeepIsImplied
  <1>4. QED
    BY <1>2, <1>3 DEF rule
=============================================================================
