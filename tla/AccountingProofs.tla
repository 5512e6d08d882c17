--------------------------- MODULE AccountingProofs ---------------------------
(* Proofs about the books of the orchestrator: the background jobs of the  *)
(* answered requests and the counters of /v1/admin/metrics.                *)
EXTENDS OrchestratorProofs, FiniteSetTheorems

(* The answer of a decided request names the pack the request captured.    *)
OwnPack ==
    \A r \in Requests :
        pc[r] \in {"finish", "put", "done"} => answer[r].pack = req[r].pack

(* In the steps of the model a finalizer's job starts as it ends, so that  *)
(* the request is done when the job is there.                              *)
JobInv == OwnPack /\ JobsFollowAnswer /\ \A job \in jobs : Answered(job[2])

(* What a job was started for does not change once it was started.         *)
LEMMA DoneStays ==
  ASSUME TypeInv, [Next]_vars, NEW q \in Requests, pc[q] = "done"
  PROVE  /\ pc'[q] = "done" /\ req'[q] = req[q] /\ answer'[q] = answer[q]
         /\ caseRow[q] # "none" => caseRow'[q] # "none"
  <1> USE DEF TypeInv, TypeOK, Goto
  <1>1. ASSUME NEW r \in Requests, (\E input \in Inputs : Receive(r, input)) \/ Serve(r)
        PROVE  /\ pc'[q] = "done" /\ req'[q] = req[q] /\ answer'[q] = answer[q]
               /\ caseRow'[q] = caseRow[q]
    <2>1. r # q
      BY <1>1 DEF Serve, Receive, ReadListVersion, RunEngines, CacheHit, CacheMiss, EnterDeep,
                  SkipDeep, DeepReturns, DeepFails, Finish, PutCache
    <2>2. QED
      BY <1>1, <2>1 DEF Serve, Receive, ReadListVersion, RunEngines, CacheHit, CacheMiss,
                        EnterDeep, SkipDeep, DeepReturns, DeepFails, Finish, PutCache, shared
  <1>2. ASSUME NEW r \in Requests, WriteDraft(r)
        PROVE  /\ UNCHANGED <<pc, req, answer>>
               /\ caseRow[q] # "none" => caseRow'[q] # "none"
    BY <1>2 DEF WriteDraft, requestVars
  <1>3. (\E r \in Requests : RunShadow(r)) \/ (\E d \in Domains : ReloadPack(d)) \/ PublishList
        \/ (\E k \in Keys : ExpireEntry(k)) \/ Elapse \/ UNCHANGED vars
        => UNCHANGED <<pc, req, answer, caseRow>>
    BY DEF RunShadow, ReloadPack, PublishList, ExpireEntry, Elapse, vars, requestVars
  <1>4. QED
    BY <1>1, <1>2, <1>3 DEF Next

(* The answer under construction takes the captured pack.                  *)
LEMMA OwnPackStep ==
  ASSUME TypeInv, OwnPack, [Next]_vars
  PROVE  OwnPack'
  <1> SUFFICES ASSUME NEW q \in Requests, pc'[q] \in {"finish", "put", "done"}
               PROVE  answer'[q].pack = req'[q].pack
    BY DEF OwnPack
  <1> USE DEF TypeInv, TypeOK, Goto
  <1>1. ASSUME NEW r \in Requests, RunEngines(r)
        PROVE  answer'[q].pack = req'[q].pack
    <2>1. PICK dec \in Decisions, version \in {0, listVersion} : EnginesEffect(r, dec, version)
      BY <1>1, EnginesStep
    <2>2. UNCHANGED req
      BY <1>1 DEF RunEngines
    <2>3. QED
      BY <2>1, <2>2 DEF EnginesEffect, Result, OwnPack
  <1>2. ASSUME NEW r \in Requests, CacheHit(r)
        PROVE  answer'[q].pack = req'[q].pack
    <2>1. PICK d, x : answer' = [answer EXCEPT ![r] = [dec |-> d, txn |-> x, pack |-> req[r].pack]]
      BY <1>2 DEF CacheHit
    <2>2. UNCHANGED req /\ pc' = [pc EXCEPT ![r] = "done"]
      BY <1>2 DEF CacheHit
    <2>3. QED
      BY <2>1, <2>2 DEF OwnPack
  <1>3. ASSUME NEW r \in Requests,
               (\E input \in Inputs : Receive(r, input)) \/ ReadListVersion(r)
               \/ CacheMiss(r) \/ EnterDeep(r) \/ SkipDeep(r) \/ DeepReturns(r)
               \/ DeepFails(r) \/ Finish(r) \/ PutCache(r)
        PROVE  answer'[q].pack = req'[q].pack
    BY <1>3 DEF Receive, ReadListVersion, CacheMiss, EnterDeep, SkipDeep, DeepReturns,
                DeepFails, Finish, PutCache, shared, Result, OwnPack
  <1>4. (\E r \in Requests : RunShadow(r) \/ WriteDraft(r)) \/ (\E d \in Domains : ReloadPack(d))
        \/ PublishList \/ (\E k \in Keys : ExpireEntry(k)) \/ Elapse \/ UNCHANGED vars
        => UNCHANGED <<pc, req, answer>>
    BY DEF RunShadow, WriteDraft, ReloadPack, PublishList, ExpireEntry, Elapse, vars, requestVars
  <1>5. QED
    BY <1>1, <1>2, <1>3, <1>4 DEF Next, Serve, OwnPack

(* A job that a step starts is one its request has the right to.           *)
LEMMA NewJob ==
  ASSUME TypeInv, FlowInv, [Next]_vars, NEW job \in jobs', job \notin jobs
  PROVE  /\ job[2] \in Requests /\ pc'[job[2]] = "done"
         /\ job[1] = "shadow" => req'[job[2]].pack \in ShadowPacks
         /\ job[1] = "draft" => req'[job[2]].pack \in DraftPacks /\ caseRow'[job[2]] # "none"
  <1> DEFINE Goal == /\ job[2] \in Requests /\ pc'[job[2]] = "done"
                     /\ job[1] = "shadow" => req'[job[2]].pack \in ShadowPacks
                     /\ job[1] = "draft" => /\ req'[job[2]].pack \in DraftPacks
                                            /\ caseRow'[job[2]] # "none"
  <1> USE DEF TypeInv, TypeOK, Goto
  <1>1. ASSUME NEW r \in Requests, job \in ShadowJob(r), pc'[r] = "done", UNCHANGED req
        PROVE  Goal
    BY <1>1 DEF ShadowJob
  <1>2. ASSUME NEW r \in Requests, CacheHit(r) \/ PutCache(r)
        PROVE  Goal
    <2>1. job \in ShadowJob(r) /\ pc'[r] = "done" /\ UNCHANGED req
      BY <1>2 DEF CacheHit, PutCache
    <2>2. QED
      BY <2>1, <1>1
  <1>3. ASSUME NEW r \in Requests, Finish(r)
        PROVE  Goal
    <2>1. CASE job \in ShadowJob(r) /\ ~Cacheable(r)
      <3>1. pc'[r] = "done" /\ UNCHANGED req
        BY <1>3, <2>1 DEF Finish
      <3>2. QED
        BY <2>1, <3>1, <1>1
    <2>2. CASE job \in DraftJob(r) /\ answer[r].dec = "REVIEW"
      <3>1. ~Cacheable(r)
        BY <2>2 DEF Cacheable
      <3>2. pc'[r] = "done" /\ caseRow'[r] # "none" /\ UNCHANGED req
        BY <1>3, <2>2, <3>1 DEF Finish
      <3>3. QED
        BY <2>2, <3>2 DEF DraftJob
    <2>3. QED
      BY <1>3, <2>1, <2>2 DEF Finish
  <1>4. ASSUME NEW r \in Requests,
               (\E input \in Inputs : Receive(r, input)) \/ ReadListVersion(r)
               \/ RunEngines(r) \/ CacheMiss(r) \/ EnterDeep(r) \/ SkipDeep(r)
               \/ DeepReturns(r) \/ DeepFails(r)
        PROVE  UNCHANGED jobs
    BY <1>4 DEF Receive, ReadListVersion, RunEngines, CacheMiss, EnterDeep, SkipDeep,
                DeepReturns, DeepFails, shared
  <1>5. (\E r \in Requests : RunShadow(r) \/ WriteDraft(r)) => jobs' \subseteq jobs
    BY DEF RunShadow, WriteDraft
  <1>6. (\E d \in Domains : ReloadPack(d)) \/ PublishList \/ (\E k \in Keys : ExpireEntry(k))
        \/ Elapse \/ UNCHANGED vars => UNCHANGED jobs
    BY DEF ReloadPack, PublishList, ExpireEntry, Elapse, vars
  <1>7. QED
    BY <1>2, <1>3, <1>4, <1>5, <1>6 DEF Next, Serve

LEMMA JobStep ==
  ASSUME TypeInv, FlowInv, JobInv, [Next]_vars
  PROVE  JobInv'
  <1>1. OwnPack'
    BY OwnPackStep DEF JobInv
  <1>2. ASSUME NEW job \in jobs'
        PROVE  /\ job[2] \in Requests /\ pc'[job[2]] = "done"
               /\ job[1] = "shadow" => req'[job[2]].pack \in ShadowPacks
               /\ job[1] = "draft" => /\ req'[job[2]].pack \in DraftPacks
                                      /\ caseRow'[job[2]] # "none"
    <2>1. CASE job \notin jobs
      BY <2>1, NewJob
    <2>2. CASE job \in jobs
      <3>1. job[2] \in Requests /\ pc[job[2]] = "done"
        BY <2>2 DEF JobInv, JobsFollowAnswer, Answered, TypeInv, TypeOK
      <3>2. QED
        BY <2>2, <3>1, DoneStays DEF JobInv, JobsFollowAnswer
    <2>3. QED
      BY <2>1, <2>2
  <1>3. JobsFollowAnswer' /\ \A job \in jobs' : Answered(job[2])'
    BY <1>1, <1>2 DEF OwnPack, JobsFollowAnswer, Answered
  <1>4. QED
    BY <1>1, <1>3 DEF JobInv

(* Whatever is reloaded while a job waits, it works for the pack version   *)
(* its request captured; a draft waits only for a case that was created or *)
(* tried to be (orchestrator.go:287-289, 377-395).                         *)
THEOREM JobsAlwaysFollowAnswer == Spec => []JobsFollowAnswer
  <1>1. Init => JobInv
    BY DEF Init, JobInv, OwnPack, JobsFollowAnswer
  <1>2. JobInv => JobsFollowAnswer
    BY DEF JobInv
  <1>3. QED
    BY <1>1, <1>2, JobStep, FlowAlways, PTL DEF Spec

-----------------------------------------------------------------------------
(* The requests that reached an outcome with a counter.                    *)
Outcomes == {r \in Received : route[r] \notin {"none", "cache"}}

(* The four ways a step can move the books: a request arrives, it gets an  *)
(* outcome, or neither.                                                    *)
Arrives(r) ==
    /\ r \notin Received
    /\ \E c \in {"fast", "light", "deep"} : Count(c)
    /\ Received' = Received \cup {r}
    /\ Outcomes' = Outcomes

Concludes(r) ==
    /\ r \notin Outcomes
    /\ \E c \in {"LocalOnly", "DeepSkip", "DeepOK", "DeepFail"} : Count(c)
    /\ Received' = Received
    /\ Outcomes' = Outcomes \cup {r}

Idles ==
    /\ UNCHANGED metrics \/ Count("ShadowDiff")
    /\ Received' = Received
    /\ Outcomes' = Outcomes

LEMMA BooksStep ==
  ASSUME TypeInv, FlowInv, [Next]_vars
  PROVE  Idles \/ \E r \in Requests : Arrives(r) \/ Concludes(r)
  <1> USE DEF TypeInv, TypeOK, Goto, Received, Outcomes
  <1>1. ASSUME NEW r \in Requests, NEW input \in Inputs, Receive(r, input)
        PROVE  Arrives(r)
    <2>1. input.bucket \in {"fast", "light", "deep"}
      BY OrchestratorAssumption DEF Inputs, Buckets
    <2>2. route[r] = "none"
      BY <1>1 DEF Receive, FlowInv, Flow, Undecided, Stages
    <2>3. QED
      BY <1>1, <2>1, <2>2 DEF Receive, Arrives
  <1>2. ASSUME NEW r \in Requests, NEW new \in {"local", "breaker", "deep", "deepfail"},
               pc[r] \in Stages \ {"new", "finish", "put", "done"},
               pc' = [pc EXCEPT ![r] = "finish"],
               route' = [route EXCEPT ![r] = new]
        PROVE  Received' = Received /\ r \notin Outcomes /\ Outcomes' = Outcomes \cup {r}
    <2>1. route[r] = "none"
      BY <1>2 DEF FlowInv, Flow, Undecided
    <2>2. QED
      BY <1>2, <2>1
  <1>3. ASSUME NEW r \in Requests, SkipDeep(r) \/ DeepReturns(r) \/ DeepFails(r)
        PROVE  Concludes(r)
    <2>1. \E c \in {"DeepSkip", "DeepOK", "DeepFail"} : Count(c)
      BY <1>3 DEF SkipDeep, DeepReturns, DeepFails
    <2>2. pc[r] \in {"gate", "deep"} /\ pc' = [pc EXCEPT ![r] = "finish"]
      BY <1>3 DEF SkipDeep, DeepReturns, DeepFails
    <2>3. \E new \in {"breaker", "deep", "deepfail"} : route' = [route EXCEPT ![r] = new]
      BY <1>3 DEF SkipDeep, DeepReturns, DeepFails
    <2>4. Received' = Received /\ r \notin Outcomes /\ Outcomes' = Outcomes \cup {r}
      BY <1>2, <2>2, <2>3 DEF Stages
    <2>5. QED
      BY <2>1, <2>4 DEF Concludes
  <1>4. ASSUME NEW r \in Requests, RunEngines(r)
        PROVE  Idles \/ Concludes(r)
    <2>1. PICK dec \in Decisions, version \in {0, listVersion} : EnginesEffect(r, dec, version)
      BY <1>4, EnginesStep
    <2>2. pc[r] \in {"rules", "engines"}
      BY <1>4 DEF RunEngines
    <2>3. CASE Goto(r, "cache") /\ UNCHANGED <<metrics, route, answer>>
      BY <2>2, <2>3 DEF Idles
    <2>4. CASE /\ Count("LocalOnly")
               /\ route' = [route EXCEPT ![r] = "local"]
               /\ Goto(r, "finish")
      <3>1. Received' = Received /\ r \notin Outcomes /\ Outcomes' = Outcomes \cup {r}
        BY <1>2, <2>2, <2>4 DEF Stages
      <3>2. QED
        BY <2>4, <3>1 DEF Concludes
    <2>5. QED
      BY <2>1, <2>3, <2>4 DEF EnginesEffect
  <1>5. ASSUME NEW r \in Requests,
               ReadListVersion(r) \/ CacheMiss(r) \/ EnterDeep(r) \/ Finish(r) \/ PutCache(r)
        PROVE  Idles
    BY <1>5 DEF ReadListVersion, CacheMiss, EnterDeep, Finish, PutCache, shared, Idles, Stages
  <1>6. ASSUME NEW r \in Requests, CacheHit(r)
        PROVE  Idles
    <2>1. route[r] = "none" /\ pc[r] = "cache"
      BY <1>6 DEF CacheHit, FlowInv, Flow, Undecided, Stages
    <2>2. /\ UNCHANGED metrics /\ route' = [route EXCEPT ![r] = "cache"]
          /\ pc' = [pc EXCEPT ![r] = "done"]
      BY <1>6 DEF CacheHit
    <2>3. QED
      BY <2>1, <2>2 DEF Idles
  <1>7. ASSUME NEW r \in Requests, RunShadow(r)
        PROVE  Idles
    BY <1>7 DEF RunShadow, requestVars, Idles
  <1>8. (\E r \in Requests : WriteDraft(r)) \/ (\E d \in Domains : ReloadPack(d)) \/ PublishList
        \/ (\E k \in Keys : ExpireEntry(k)) \/ Elapse \/ UNCHANGED vars => Idles
    BY DEF WriteDraft, ReloadPack, PublishList, ExpireEntry, Elapse, vars, requestVars, Idles
  <1>9. QED
    BY <1>1, <1>3, <1>4, <1>5, <1>6, <1>7, <1>8 DEF Next, Serve

LEMMA BooksFinite == IsFiniteSet(Received) /\ IsFiniteSet(Outcomes)
  BY OrchestratorAssumption, FS_Subset DEF Received, Outcomes

LEMMA MetricsStep ==
  ASSUME TypeInv, FlowInv, MetricsReconcile, [Next]_vars
  PROVE  MetricsReconcile'
  <1> DEFINE buckets == metrics["fast"] + metrics["light"] + metrics["deep"]
             outcomes == metrics["LocalOnly"] + metrics["DeepSkip"] + metrics["DeepOK"]
                           + metrics["DeepFail"]
  <1>1. \A c \in Counters : metrics[c] \in Nat
    BY DEF TypeInv, TypeOK
  <1>2. /\ Cardinality(Received) \in Nat /\ Cardinality(Outcomes) \in Nat
        /\ buckets = Cardinality(Received) /\ outcomes = Cardinality(Outcomes)
    BY BooksFinite, FS_CardinalityType DEF MetricsReconcile, Outcomes
  <1>3. ASSUME NEW r \in Requests, Arrives(r)
        PROVE  MetricsReconcile'
    <2>1. Cardinality(Received') = Cardinality(Received) + 1
      BY <1>3, BooksFinite, FS_AddElement DEF Arrives
    <2>2. buckets' = buckets + 1 /\ outcomes' = outcomes
      BY <1>1, <1>3 DEF Arrives, Count, Counters, TypeInv, TypeOK
    <2>3. Outcomes' = Outcomes
      BY <1>3 DEF Arrives
    <2>4. QED
      BY <1>2, <2>1, <2>2, <2>3 DEF MetricsReconcile, Outcomes
  <1>4. ASSUME NEW r \in Requests, Concludes(r)
        PROVE  MetricsReconcile'
    <2>1. Cardinality(Outcomes') = Cardinality(Outcomes) + 1
      BY <1>4, BooksFinite, FS_AddElement DEF Concludes
    <2>2. outcomes' = outcomes + 1 /\ buckets' = buckets
      BY <1>1, <1>4 DEF Concludes, Count, Counters, TypeInv, TypeOK
    <2>3. Received' = Received
      BY <1>4 DEF Concludes
    <2>4. QED
      BY <1>2, <2>1, <2>2, <2>3 DEF MetricsReconcile, Outcomes
  <1>5. CASE Idles
    <2>1. outcomes' = outcomes /\ buckets' = buckets
      BY <1>1, <1>5 DEF Idles, Count, Counters, TypeInv, TypeOK
    <2>2. Received' = Received /\ Outcomes' = Outcomes
      BY <1>5 DEF Idles
    <2>3. QED
      BY <1>2, <2>1, <2>2 DEF MetricsReconcile, Outcomes
  <1>6. QED
    BY <1>3, <1>4, <1>5, BooksStep

(* The counters account for every request: each is counted once when it    *)
(* arrives and at most once when it is decided, and only a cache hit has   *)
(* no outcome counter (orchestrator.go:32-39, 50-89).                      *)
THEOREM MetricsAlwaysReconcile == Spec => []MetricsReconcile
  <1>1. Init => MetricsReconcile
    <2>1. Init => Received = {} /\ Outcomes = {}
      BY DEF Init, Received, Outcomes
    <2>2. QED
      BY <2>1, FS_EmptySet DEF Init, MetricsReconcile, Outcomes, Counters
  <1>2. QED
    BY <1>1, MetricsStep, FlowAlways, PTL DEF Spec
=============================================================================
