---------------------------- MODULE ScreeningBatch ----------------------------
(***************************************************************************)
(* ScreenConcurrent (batch/screen.go): workers take the indices of the     *)
(* requests from an unbuffered channel and put a result or an error in the *)
(* slot of the index.  Of the engine the model keeps what the requests of  *)
(* a batch share: each captures the primary pack of its domain and then    *)
(* writes into the entity graph and is judged by it, while an admin        *)
(* reloads packs.  The other engines are the business of LocalScreening    *)
(* and Orchestrator.                                                       *)
(***************************************************************************)
EXTENDS EntityGraph, PolicyRegistry, Integers

CONSTANTS
    Workers,     \* max(1, cfg.Workers) of them
    Count,       \* number of requests
    Batches,     \* the batches that may be asked for
    Thresholds,  \* Thresholds[version]: GraphSharedDeviceReview, GraphClusterReject
    MaxReloads, MaxEdits  \* bounds on what the admin does

Indices == 1 .. Count
Requests == [domain : Known, valid : BOOLEAN, sighting : Sightings]

ASSUME BatchAssumption ==
    /\ Workers # {}
    /\ Count \in Nat
    /\ Batches \subseteq [Indices -> Requests]
    /\ Thresholds \in [Versions \cup {Embedded} -> [shared : Nat \ {0}, cluster : Nat \ {0}]]
    /\ MaxReloads \in Nat /\ MaxEdits \in Nat

VARIABLES
    reqs,      \* the requests
    next,      \* the index the feeder sends next
    hand,      \* hand[w]: the index the worker has, 0 if it waits, -1 if it left
    at,        \* at[i]: how far request i is
    packOf,    \* packOf[i]: the pack it captured
    judged,    \* judged[i]: what the graph said
    slots,     \* out and errs: "empty", "out" or "err"
    returned,  \* ScreenConcurrent has returned
    reloads, edits

pool == <<next, hand, at, packOf, judged, slots, returned>>
admin == <<reloads, edits>>
vars == <<graph, registry, reqs, pool, admin>>

Places == {"queued", "taken", "captured", "observed", "done"}
Verdicts == {"none", "APPROVE", "REVIEW", "REJECT"}

Init ==
    /\ GInit
    /\ RInit
    /\ reqs \in Batches
    /\ next = 1
    /\ hand = [w \in Workers |-> 0]
    /\ at = [i \in Indices |-> "queued"]
    /\ packOf = [i \in Indices |-> NoPack]
    /\ judged = [i \in Indices |-> "none"]
    /\ slots = [i \in Indices |-> "empty"]
    /\ returned = FALSE
    /\ reloads = 0 /\ edits = 0

(* Variant: the feeder counts one too far.                                 *)
TakeOneMore(w) ==
    /\ hand[w] = 0
    /\ next <= Count + 1
    /\ hand' = [hand EXCEPT ![w] = next]
    /\ at' = [at EXCEPT ![next] = "taken"]
    /\ next' = next + 1
    /\ UNCHANGED <<graph, registry, reqs, packOf, judged, slots, returned, admin>>

(* The feeder hands the next index to a waiting worker. *)
Take(w) ==
    /\ hand[w] = 0
    /\ next <= Count
    /\ hand' = [hand EXCEPT ![w] = next]
    /\ at' = [at EXCEPT ![next] = "taken"]
    /\ next' = next + 1
    /\ UNCHANGED <<graph, registry, reqs, packOf, judged, slots, returned, admin>>

(* Variant: a worker leaves at the first error.                            *)
RefuseAndLeave(w) ==
    \E i \in Indices :
        /\ hand[w] = i
        /\ at[i] = "taken"
        /\ ~reqs[i].valid
        /\ slots' = [slots EXCEPT ![i] = "err"]
        /\ at' = [at EXCEPT ![i] = "done"]
        /\ hand' = [hand EXCEPT ![w] = -1]
        /\ UNCHANGED <<graph, registry, reqs, next, packOf, judged, returned, admin>>

(* The engine refuses the request; its error goes into the slot.           *)
Refuse(w) ==
    \E i \in Indices :
        /\ hand[w] = i
        /\ at[i] = "taken"
        /\ ~reqs[i].valid
        /\ slots' = [slots EXCEPT ![i] = "err"]
        /\ at' = [at EXCEPT ![i] = "done"]
        /\ hand' = [hand EXCEPT ![w] = 0]
        /\ UNCHANGED <<graph, registry, reqs, next, packOf, judged, returned, admin>>

(* Orchestrate reads the primary pack once. *)
Capture(w) ==
    \E i \in Indices :
        /\ hand[w] = i
        /\ at[i] = "taken"
        /\ reqs[i].valid
        /\ packOf' = [packOf EXCEPT ![i] = Primary(reqs[i].domain)]
        /\ at' = [at EXCEPT ![i] = "captured"]
        /\ UNCHANGED <<graph, registry, reqs, next, hand, judged, slots, returned, admin>>

(* The graph engine: one critical section writes and judges.               *)
RunGraph(w) ==
    \E i \in Indices :
        /\ hand[w] = i
        /\ at[i] = "captured"
        /\ Observe(reqs[i].sighting)
        /\ at' = [at EXCEPT ![i] = "observed"]
        /\ UNCHANGED <<registry, reqs, next, hand, packOf, slots, returned, admin>>
        /\ judged' = [judged EXCEPT ![i] =
                        GraphVerdict(reqs[i].sighting, Thresholds[packOf[i].version])']

(* The request is answered; the result goes into its slot.                 *)
Finish(w) ==
    \E i \in Indices :
        /\ hand[w] = i
        /\ at[i] = "observed"
        /\ slots' = [slots EXCEPT ![i] = "out"]
        /\ at' = [at EXCEPT ![i] = "done"]
        /\ hand' = [hand EXCEPT ![w] = 0]
        /\ UNCHANGED <<graph, registry, reqs, next, packOf, judged, returned, admin>>

(* The channel is closed after the last index; a waiting worker leaves.    *)
Leave(w) ==
    /\ hand[w] = 0
    /\ next > Count
    /\ hand' = [hand EXCEPT ![w] = -1]
    /\ UNCHANGED <<graph, registry, reqs, next, at, packOf, judged, slots, returned, admin>>

(* wg.Wait is over. *)
Return ==
    /\ ~returned
    /\ next > Count
    /\ \A w \in Workers : hand[w] = -1
    /\ returned' = TRUE
    /\ UNCHANGED <<graph, registry, reqs, next, hand, at, packOf, judged, slots, admin>>

Work(w) == Take(w) \/ Refuse(w) \/ Capture(w) \/ RunGraph(w) \/ Finish(w) \/ Leave(w)

AdminReloads ==
    /\ reloads < MaxReloads
    /\ \E d \in Names, target \in Targets, path \in Paths \cup {NoPath} : Reload(d, target, path)
    /\ reloads' = reloads + 1
    /\ UNCHANGED <<graph, reqs, pool, edits>>

AdminEdits ==
    /\ edits < MaxEdits
    /\ \E path \in Paths : EditFile(path)
    /\ edits' = edits + 1
    /\ UNCHANGED <<graph, reqs, pool, reloads>>

Next == (\E w \in Workers : Work(w)) \/ Return \/ AdminReloads \/ AdminEdits

Spec == Init /\ [][Next]_vars

(* The workers run and the engine answers each request (Orchestrator,      *)
(* EveryRequestAnswered).                                                  *)
FairSpec == Spec /\ (\A w \in Workers : WF_vars(Work(w))) /\ WF_vars(Return)
-----------------------------------------------------------------------------
TypeOK ==
    /\ links \subseteq Nodes \X Nodes
    /\ subjectsOf \subseteq Devices \X Subjects
    /\ file \in [Paths -> Versions \cup {Broken}]
    /\ hubs \in [DOMAIN hubs -> Hubs]
    /\ Known \subseteq DOMAIN hubs /\ DOMAIN hubs \subseteq Names
    /\ reqs \in Batches
    /\ next \in 1 .. Count + 1
    /\ hand \in [Workers -> -1 .. Count]
    /\ at \in [Indices -> Places]
    /\ packOf \in [Indices -> Packs]
    /\ judged \in [Indices -> Verdicts]
    /\ slots \in [Indices -> {"empty", "out", "err"}]
    /\ returned \in BOOLEAN
    /\ reloads \in Nat /\ edits \in Nat

Observed == {i \in Indices : at[i] = "observed" \/ (at[i] = "done" /\ reqs[i].valid)}

(* What the graph holds is a function of the set of requests it has seen:  *)
(* neither the order in which the workers got to it, nor how often a       *)
(* request was repeated, nor the domain leaves a trace, and every link is  *)
(* there from both ends (entity_graph.go:25-37, 55-68).                    *)
GraphIsUnion ==
    /\ links = UNION {LinksOf(reqs[i].sighting) : i \in Observed}
    /\ subjectsOf = UNION {UsesOf(reqs[i].sighting) : i \in Observed}

Severity == [APPROVE |-> 0, REVIEW |-> 1, REJECT |-> 2]

(* Asked again under the same pack, the graph never gives a milder verdict *)
(* than it gave before, whatever was screened and reloaded in between: a   *)
(* retry cannot wash a request clean (entity_graph.go:35-36, 66-91).       *)
NeverMilder ==
    \A i \in Observed :
        Severity[judged[i]]
            <= Severity[GraphVerdict(reqs[i].sighting, Thresholds[packOf[i].version])]

(* A reload that fails takes nothing away from a known domain: its packs   *)
(* and the paths they are reloaded from change only to a file that loaded, *)
(* and both at once, so that the next reload without a path reads what is  *)
(* in force (policy_pack.go:141-175).                                      *)
OnlyLoadedPacksReplace ==
    [][\A d \in Known, s \in Slots :
        hubs'[d][s] # hubs[d][s] =>
            /\ Loads(hubs'[d][s].path)
            /\ hubs'[d][s].pack = LoadedPack(hubs'[d][s].path)]_registry

(* The batch ends with one result or one error for every request, whoever  *)
(* took it and however many fail (batch/screen.go:20-41).                  *)
BatchAnswersAll ==
    <>(returned /\ \A i \in Indices : slots[i] = IF reqs[i].valid THEN "out" ELSE "err")
=============================================================================
