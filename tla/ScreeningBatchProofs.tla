------------------------- MODULE ScreeningBatchProofs -------------------------
(* Proofs about a batch, its entity graph and the policy registry, for any *)
(* workers, requests, packs, paths and files, and any number of reloads.   *)
EXTENDS ScreeningBatch, FiniteSetTheorems, TLAPS

-----------------------------------------------------------------------------
(* The registry.                                                           *)

RegistryOK ==
    /\ file \in [Paths -> Versions \cup {Broken}]
    /\ hubs \in [DOMAIN hubs -> Hubs]
    /\ Known \subseteq DOMAIN hubs /\ DOMAIN hubs \subseteq Names

(* A pack that thresholds can be looked up for: every pack but the nil one *)
(* of an empty hub or a missing shadow.                                    *)
Usable(pack) == pack.version \in Versions \cup {Embedded}

KnownHavePacks == \A d \in Known : Usable(Primary(d))

LEMMA LoadedPackType ==
  ASSUME RegistryOK, NEW path, Loads(path)
  PROVE  /\ path \in Paths
         /\ LoadedPack(path) \in Packs
         /\ Usable(LoadedPack(path))
  <1>1. path \in Paths /\ file[path] \in Versions
    BY DEF RegistryOK, Loads
  <1>2. QED
    BY <1>1 DEF LoadedPack, Packs, Usable

LEMMA EmptyHubType == EmptyHub \in Hubs
  BY DEF EmptyHub, Hubs, Packs

LEMMA HubType == ASSUME RegistryOK, NEW d PROVE HubOf(d) \in Hubs
  BY EmptyHubType DEF RegistryOK, HubOf

LEMMA InitRegistry == RInit => RegistryOK /\ KnownHavePacks
  <1> SUFFICES ASSUME RInit PROVE RegistryOK /\ KnownHavePacks
    OBVIOUS
  <1>1. file \in [Paths -> Versions \cup {Broken}] /\ DOMAIN hubs = Known
    BY DEF RInit
  <1>2. ASSUME NEW d \in Known
        PROVE  NewHub(d) \in Hubs /\ Usable(NewHub(d)["primary"].pack)
    <2>1. \A s \in Slots : HomePath[d][s] \in Paths \cup {NoPath}
      BY RegistryAssumption
    <2>2. ASSUME NEW path, Loads(path)
          PROVE  LoadedPack(path) \in Packs /\ Usable(LoadedPack(path))
      <3>1. path \in Paths /\ file[path] \in Versions
        BY <1>1, <2>2 DEF Loads
      <3>2. QED
        BY <3>1 DEF LoadedPack, Packs, Usable
    <2>3. EmbeddedPack \in Packs /\ NoPack \in Packs /\ Usable(EmbeddedPack)
      BY DEF EmbeddedPack, NoPack, Packs, Usable
    <2>4. NewHub(d) \in Hubs
      BY <2>1, <2>2, <2>3 DEF NewHub, Hubs
    <2>5. Usable(NewHub(d)["primary"].pack)
      BY <2>2, <2>3 DEF NewHub, Slots
    <2>6. QED
      BY <2>4, <2>5
  <1>3. hubs = [d \in Known |-> NewHub(d)]
    BY DEF RInit
  <1>4. RegistryOK
    BY <1>1, <1>2, <1>3 DEF RegistryOK, Names
  <1>5. KnownHavePacks
    BY <1>2, <1>3 DEF KnownHavePacks, Primary
  <1>6. QED
    BY <1>4, <1>5

(* A reload leaves a hub as it is or puts a loaded pack with its path into *)
(* one slot; it never leaves a known domain without a pack.                *)
LEMMA ReloadStep ==
  ASSUME RegistryOK, KnownHavePacks,
         NEW d \in Names, NEW target \in Targets, NEW path \in Paths \cup {NoPath},
         Reload(d, target, path)
  PROVE  /\ RegistryOK' /\ KnownHavePacks'
         /\ \A n \in Known, s \in Slots :
                hubs'[n][s] # hubs[n][s] =>
                    /\ Loads(hubs'[n][s].path)
                    /\ hubs'[n][s].pack = LoadedPack(hubs'[n][s].path)
  <1> DEFINE from == PathFor(d, target, path)
             slot == SlotOf(target)
             new == [pack |-> LoadedPack(from), path |-> from]
             hub == IF Loads(from) THEN [HubOf(d) EXCEPT ![slot] = new] ELSE HubOf(d)
  <1>1. slot \in Slots
    BY DEF SlotOf, Slots
  <1>2. HubOf(d) \in Hubs /\ (d \in DOMAIN hubs => HubOf(d) = hubs[d])
    BY HubType DEF HubOf
  <1>3. Loads(from) => new \in [pack : Packs, path : Paths \cup {NoPath}]
    BY LoadedPackType
  <1>4. hub \in Hubs
    BY <1>1, <1>2, <1>3 DEF Hubs
  <1>5. hubs' = WithHub(d, hub) /\ file' = file
    BY DEF Reload
  <1> HIDE DEF hub
  <1>6. /\ DOMAIN hubs' = DOMAIN hubs \cup {d}
        /\ \A n \in DOMAIN hubs' : hubs'[n] = IF n = d THEN hub ELSE hubs[n]
        /\ hubs' = [n \in DOMAIN hubs \cup {d} |-> IF n = d THEN hub ELSE hubs[n]]
    BY <1>5 DEF WithHub
  <1>7. RegistryOK'
    BY <1>4, <1>5, <1>6 DEF RegistryOK
  <1>8. ASSUME NEW n \in Known, NEW s \in Slots, hubs'[n][s] # hubs[n][s]
        PROVE  n = d /\ s = slot /\ Loads(from) /\ hubs'[n][s] = new
    <2>1. n \in DOMAIN hubs /\ n \in DOMAIN hubs'
      BY <1>6 DEF RegistryOK
    <2>2. n = d
      BY <1>6, <1>8, <2>1
    <2>3. hubs'[n] = hub /\ hubs[n] = HubOf(d)
      BY <1>2, <1>6, <2>1, <2>2
    <2>4. QED
      BY <1>1, <1>2, <1>8, <2>2, <2>3 DEF hub, Hubs
  <1>9. KnownHavePacks'
    <2> SUFFICES ASSUME NEW n \in Known PROVE Usable(hubs'[n]["primary"].pack)
      BY DEF KnownHavePacks, Primary
    <2>1. CASE hubs'[n]["primary"] = hubs[n]["primary"]
      BY <2>1 DEF KnownHavePacks, Primary
    <2>2. CASE hubs'[n]["primary"] # hubs[n]["primary"]
      <3>1. Loads(from) /\ hubs'[n]["primary"] = new
        BY <1>8, <2>2 DEF Slots
      <3>2. QED
        BY <3>1, LoadedPackType
    <2>3. QED
      BY <2>1, <2>2
  <1>10. QED
    BY <1>7, <1>8, <1>9

LEMMA EditStep ==
  ASSUME RegistryOK, KnownHavePacks, NEW path \in Paths, EditFile(path)
  PROVE  RegistryOK' /\ KnownHavePacks' /\ UNCHANGED hubs
  BY DEF EditFile, RegistryOK, KnownHavePacks, Primary

-----------------------------------------------------------------------------
(* The graph.                                                              *)

GraphOK ==
    /\ links \subseteq Nodes \X Nodes
    /\ subjectsOf \subseteq Devices \X Subjects

(* The neighbours of a node in a set of links, the subjects of a device in *)
(* a set of uses; more links mean at least as many.                        *)
Links(L, n) == Cardinality({m \in Nodes : <<n, m>> \in L})
Uses(U, d) == Cardinality({s \in Subjects : <<d, s>> \in U})

LEMMA MoreNeighbours ==
  ASSUME NEW L, NEW M, L \subseteq M, NEW n
  PROVE  Links(L, n) \in Nat /\ Links(M, n) \in Nat /\ Links(L, n) <= Links(M, n)
  <1> DEFINE few == {m \in Nodes : <<n, m>> \in L}
             more == {m \in Nodes : <<n, m>> \in M}
  <1>1. few \subseteq more
    OBVIOUS
  <1>2. IsFiniteSet(more)
    BY GraphAssumption, FS_Subset
  <1>3. /\ IsFiniteSet(few)
        /\ Cardinality(few) <= Cardinality(more)
    BY <1>1, <1>2, FS_Subset
  <1>4. Cardinality(few) \in Nat /\ Cardinality(more) \in Nat
    BY <1>2, <1>3, FS_CardinalityType
  <1>5. QED
    BY <1>3, <1>4 DEF Links

LEMMA MoreSubjects ==
  ASSUME NEW U, NEW V, U \subseteq V, NEW d
  PROVE  Uses(U, d) \in Nat /\ Uses(V, d) \in Nat /\ Uses(U, d) <= Uses(V, d)
  <1> DEFINE few == {s \in Subjects : <<d, s>> \in U}
             more == {s \in Subjects : <<d, s>> \in V}
  <1>1. few \subseteq more
    OBVIOUS
  <1>2. IsFiniteSet(more)
    BY GraphAssumption, FS_Subset
  <1>3. /\ IsFiniteSet(few)
        /\ Cardinality(few) <= Cardinality(more)
    BY <1>1, <1>2, FS_Subset
  <1>4. Cardinality(few) \in Nat /\ Cardinality(more) \in Nat
    BY <1>2, <1>3, FS_CardinalityType
  <1>5. QED
    BY <1>3, <1>4 DEF Uses

(* A sighting never takes a link or a use away.                            *)
LEMMA ObserveStep ==
  ASSUME GraphOK, NEW c \in Sightings, Observe(c)
  PROVE  GraphOK' /\ links \subseteq links' /\ subjectsOf \subseteq subjectsOf'
  <1>1. LinksOf(c) \subseteq Nodes \X Nodes
    BY DEF Sightings, LinksOf
  <1>2. UsesOf(c) \subseteq Devices \X Subjects
    BY DEF Sightings, UsesOf
  <1>3. QED
    BY <1>1, <1>2 DEF Observe, GraphOK

-----------------------------------------------------------------------------
(* The batch.                                                              *)

PoolOK ==
    /\ reqs \in Batches
    /\ next \in 1 .. Count + 1
    /\ hand \in [Workers -> -1 .. Count]
    /\ at \in [Indices -> Places]
    /\ packOf \in [Indices -> Packs]
    /\ judged \in [Indices -> Verdicts]
    /\ slots \in [Indices -> {"empty", "out", "err"}]
    /\ returned \in BOOLEAN
    /\ reloads \in Nat /\ edits \in Nat

InWork == {"taken", "captured", "observed"}

(* The channel delivers the indices in order, each to one worker, which    *)
(* keeps it until it has put something into its slot.                      *)
WorkInv ==
    /\ \A i \in Indices : at[i] = "queued" <=> i >= next
    /\ \A i \in Indices : at[i] \in InWork => \E w \in Workers : hand[w] = i
    /\ \A i \in Indices : at[i] \in {"captured", "observed"} => reqs[i].valid
    /\ \A i \in Indices : at[i] = "done" => slots[i] = IF reqs[i].valid THEN "out" ELSE "err"
    /\ returned => next > Count /\ \A w \in Workers : hand[w] = -1

(* A request is judged by a pack with thresholds, and once.                *)
JudgeInv ==
    /\ \A i \in Indices : at[i] = "captured" \/ i \in Observed => Usable(packOf[i])
    /\ \A i \in Observed : judged[i] # "none"

Inv == RegistryOK /\ KnownHavePacks /\ GraphOK /\ PoolOK /\ WorkInv /\ JudgeInv

LEMMA RequestType ==
  ASSUME PoolOK, NEW i \in Indices
  PROVE  reqs[i] \in Requests
  BY BatchAssumption DEF PoolOK

LEMMA InitInv == Init => Inv
  <1> SUFFICES ASSUME Init PROVE Inv
    OBVIOUS
  <1>1. RegistryOK /\ KnownHavePacks
    BY InitRegistry DEF Init
  <1>2. GraphOK
    BY DEF Init, GInit, GraphOK
  <1>3. PoolOK
    <2>1. NoPack \in Packs
      BY DEF Packs
    <2>2. hand \in [Workers -> -1 .. Count] /\ next \in 1 .. Count + 1
      BY BatchAssumption DEF Init
    <2>3. QED
      BY <2>1, <2>2 DEF Init, PoolOK, Places, Verdicts
  <1>4. WorkInv /\ JudgeInv
    BY DEF Init, WorkInv, JudgeInv, InWork, Observed, Indices
  <1>5. QED
    BY <1>1, <1>2, <1>3, <1>4 DEF Inv

LEMMA TakeStep ==
  ASSUME Inv, NEW w \in Workers, Take(w)
  PROVE  Inv' /\ Observed' = Observed
  <1>1. next \in Indices /\ at[next] = "queued"
    BY BatchAssumption DEF Inv, PoolOK, WorkInv, Take, Indices
  <1>2. RegistryOK' /\ KnownHavePacks' /\ GraphOK'
    BY DEF Inv, Take, registry, graph, RegistryOK, KnownHavePacks, Primary, GraphOK
  <1>3. PoolOK'
    BY <1>1, BatchAssumption DEF Inv, PoolOK, Take, Places, Indices, admin
  <1>4. Observed' = Observed
    BY <1>1 DEF Inv, PoolOK, Take, Observed
  <1>5. WorkInv'
    <2>1. \A i \in Indices : at'[i] = IF i = next THEN "taken" ELSE at[i]
      BY DEF Inv, PoolOK, Take
    <2>2. \A i \in Indices : at'[i] = "queued" <=> i >= next'
      BY <1>1, <2>1, BatchAssumption DEF Inv, WorkInv, PoolOK, Take, Indices
    <2>3. \A i \in Indices : at'[i] \in InWork => \E v \in Workers : hand'[v] = i
      <3>1. SUFFICES ASSUME NEW i \in Indices, at'[i] \in InWork
                     PROVE  \E v \in Workers : hand'[v] = i
        OBVIOUS
      <3>2. CASE i = next
        BY <3>2 DEF Inv, PoolOK, Take
      <3>3. CASE i # next
        <4>1. PICK v \in Workers : hand[v] = i
          BY <2>1, <3>1, <3>3 DEF Inv, WorkInv
        <4>2. v # w
          BY <4>1 DEF Take, Indices
        <4>3. QED
          BY <4>1, <4>2 DEF Inv, PoolOK, Take
      <3>4. QED
        BY <3>2, <3>3
    <2>4. returned' => FALSE
      BY <1>1 DEF Inv, WorkInv, Take, Indices
    <2>5. QED
      BY <2>1, <2>2, <2>3, <2>4 DEF Inv, WorkInv, Take
  <1>6. JudgeInv'
    BY <1>4 DEF Inv, PoolOK, JudgeInv, Take, Observed
  <1>7. QED
    BY <1>2, <1>3, <1>4, <1>5, <1>6 DEF Inv

(* The two ways a worker puts something into a slot.                       *)
LEMMA SlotStep ==
  ASSUME Inv, NEW w \in Workers, Refuse(w) \/ Finish(w)
  PROVE  Inv' /\ Observed' = Observed /\ UNCHANGED <<graph, judged, packOf, reqs>>
  <1>1. PICK i \in Indices :
            /\ hand[w] = i
            /\ at[i] \in InWork
            /\ at[i] = "observed" <=> reqs[i].valid
            /\ at[i] \in {"taken", "observed"}
            /\ slots' = [slots EXCEPT ![i] = IF reqs[i].valid THEN "out" ELSE "err"]
            /\ at' = [at EXCEPT ![i] = "done"]
            /\ hand' = [hand EXCEPT ![w] = 0]
            /\ UNCHANGED <<graph, registry, reqs, next, packOf, judged, returned, admin>>
    BY DEF Inv, WorkInv, Refuse, Finish, InWork
  <1>2. RegistryOK' /\ KnownHavePacks' /\ GraphOK'
    BY <1>1 DEF Inv, registry, graph, RegistryOK, KnownHavePacks, Primary, GraphOK
  <1>3. PoolOK'
    BY <1>1, BatchAssumption DEF Inv, PoolOK, Places, Indices, admin
  <1>4. Observed' = Observed
    BY <1>1 DEF Inv, PoolOK, Observed
  <1>5. WorkInv'
    <2>1. \A j \in Indices : at'[j] = IF j = i THEN "done" ELSE at[j]
      BY <1>1 DEF Inv, PoolOK
    <2>2. \A j \in Indices : at'[j] = "queued" <=> j >= next'
      BY <1>1, <2>1 DEF Inv, WorkInv, InWork
    <2>3. \A j \in Indices : at'[j] \in InWork => \E v \in Workers : hand'[v] = j
      <3>1. SUFFICES ASSUME NEW j \in Indices, at'[j] \in InWork
                     PROVE  \E v \in Workers : hand'[v] = j
        OBVIOUS
      <3>2. j # i
        BY <2>1, <3>1 DEF InWork
      <3>3. PICK v \in Workers : hand[v] = j
        BY <2>1, <3>1, <3>2 DEF Inv, WorkInv
      <3>4. v # w
        BY <1>1, <3>2, <3>3
      <3>5. QED
        BY <1>1, <3>3, <3>4 DEF Inv, PoolOK
    <2>4. \A j \in Indices : at'[j] = "done" =>
              slots'[j] = IF reqs'[j].valid THEN "out" ELSE "err"
      BY <1>1, <2>1 DEF Inv, WorkInv, PoolOK
    <2>5. ~returned'
      BY <1>1 DEF Inv, WorkInv, Indices
    <2>6. \A j \in Indices : at'[j] \in {"captured", "observed"} => reqs'[j].valid
      BY <1>1, <2>1 DEF Inv, WorkInv
    <2>7. QED
      BY <2>2, <2>3, <2>4, <2>5, <2>6 DEF WorkInv
  <1>6. JudgeInv'
    BY <1>1, <1>4 DEF Inv, PoolOK, JudgeInv
  <1>7. QED
    BY <1>1, <1>2, <1>3, <1>4, <1>5, <1>6 DEF Inv

LEMMA CaptureStep ==
  ASSUME Inv, NEW w \in Workers, Capture(w)
  PROVE  Inv' /\ Observed' = Observed /\ UNCHANGED <<graph, judged, reqs>>
         /\ \A i \in Observed : packOf'[i] = packOf[i]
  <1>1. PICK i \in Indices :
            /\ hand[w] = i
            /\ at[i] = "taken"
            /\ reqs[i].valid
            /\ packOf' = [packOf EXCEPT ![i] = Primary(reqs[i].domain)]
            /\ at' = [at EXCEPT ![i] = "captured"]
            /\ UNCHANGED <<graph, registry, reqs, next, hand, judged, slots, returned, admin>>
    BY DEF Capture
  <1>2. RegistryOK' /\ KnownHavePacks' /\ GraphOK'
    BY <1>1 DEF Inv, registry, graph, RegistryOK, KnownHavePacks, Primary, GraphOK
  <1>3. Primary(reqs[i].domain) \in Packs /\ Usable(Primary(reqs[i].domain))
    <2>1. reqs[i].domain \in Known
      BY RequestType DEF Inv, Requests
    <2>2. hubs[reqs[i].domain] \in Hubs
      BY <2>1 DEF Inv, RegistryOK
    <2>3. QED
      BY <2>1, <2>2 DEF Inv, KnownHavePacks, Primary, Hubs, Slots
  <1>4. PoolOK'
    BY <1>1, <1>3 DEF Inv, PoolOK, Places, admin
  <1>5. Observed' = Observed /\ i \notin Observed
    BY <1>1 DEF Inv, PoolOK, Observed
  <1>6. WorkInv'
    BY <1>1 DEF Inv, PoolOK, WorkInv, InWork
  <1>7. JudgeInv'
    BY <1>1, <1>3, <1>5 DEF Inv, PoolOK, JudgeInv
  <1>8. \A j \in Observed : packOf'[j] = packOf[j]
    BY <1>1, <1>5 DEF Inv, PoolOK, Observed
  <1>9. QED
    BY <1>1, <1>2, <1>4, <1>5, <1>6, <1>7, <1>8 DEF Inv

(* The graph engine, which adds the request it judges to the observed.     *)
LEMMA GraphStep ==
  ASSUME Inv, NEW w \in Workers, RunGraph(w)
  PROVE  /\ Inv'
         /\ links \subseteq links' /\ subjectsOf \subseteq subjectsOf'
         /\ UNCHANGED <<reqs, packOf>>
         /\ \E i \in Indices :
                /\ Observed' = Observed \cup {i} /\ i \notin Observed
                /\ Observe(reqs[i].sighting)
                /\ judged' = [judged EXCEPT ![i] =
                       GraphVerdict(reqs[i].sighting, Thresholds[packOf[i].version])']
  <1>1. PICK i \in Indices :
            /\ hand[w] = i
            /\ at[i] = "captured"
            /\ Observe(reqs[i].sighting)
            /\ at' = [at EXCEPT ![i] = "observed"]
            /\ UNCHANGED <<registry, reqs, next, hand, packOf, slots, returned, admin>>
            /\ judged' = [judged EXCEPT ![i] =
                   GraphVerdict(reqs[i].sighting, Thresholds[packOf[i].version])']
    BY DEF RunGraph
  <1>2. RegistryOK' /\ KnownHavePacks'
    BY <1>1 DEF Inv, registry, RegistryOK, KnownHavePacks, Primary
  <1>3. reqs[i].sighting \in Sightings
    BY RequestType DEF Inv, Requests
  <1>4. GraphOK' /\ links \subseteq links' /\ subjectsOf \subseteq subjectsOf'
    BY <1>1, <1>3, ObserveStep DEF Inv
  <1>5. GraphVerdict(reqs[i].sighting, Thresholds[packOf[i].version])' \in Verdicts \ {"none"}
    BY DEF GraphVerdict, Verdicts
  <1>6. PoolOK'
    BY <1>1, <1>5 DEF Inv, PoolOK, Places, admin
  <1>7. Observed' = Observed \cup {i} /\ i \notin Observed
    BY <1>1 DEF Inv, PoolOK, Observed
  <1>8. WorkInv'
    BY <1>1 DEF Inv, PoolOK, WorkInv, InWork
  <1>9. JudgeInv'
    BY <1>1, <1>5, <1>7 DEF Inv, PoolOK, JudgeInv, Observed
  <1>10. QED
    BY <1>1, <1>2, <1>4, <1>6, <1>7, <1>8, <1>9 DEF Inv

LEMMA OtherStep ==
  ASSUME Inv, (\E w \in Workers : Leave(w)) \/ Return \/ UNCHANGED vars
  PROVE  Inv' /\ Observed' = Observed /\ UNCHANGED <<graph, judged, packOf, reqs>>
  <1>1. UNCHANGED <<graph, registry, reqs, next, at, packOf, judged, slots, admin>>
    BY DEF Leave, Return, vars, pool
  <1>2. RegistryOK' /\ KnownHavePacks' /\ GraphOK' /\ JudgeInv' /\ Observed' = Observed
    BY <1>1 DEF Inv, registry, graph, RegistryOK, KnownHavePacks, Primary, GraphOK, JudgeInv,
                Observed
  <1>3. CASE \E w \in Workers : Leave(w)
    <2>1. PICK w \in Workers : Leave(w)
      BY <1>3
    <2>2. PoolOK'
      BY <1>1, <2>1, BatchAssumption DEF Inv, PoolOK, Leave, admin
    <2>3. WorkInv'
      <3>1. \A i \in Indices, v \in Workers : hand[v] = i => hand'[v] = i
        BY <2>1 DEF Inv, PoolOK, Leave, Indices
      <3>2. ~returned'
        BY <2>1 DEF Inv, WorkInv, Leave
      <3>3. QED
        BY <1>1, <3>1, <3>2 DEF Inv, WorkInv
    <2>4. QED
      BY <1>1, <1>2, <2>2, <2>3 DEF Inv
  <1>4. CASE Return \/ UNCHANGED vars
    <2>1. UNCHANGED hand
      BY <1>4 DEF Return, vars, pool
    <2>2. returned' => returned \/ (next > Count /\ \A w \in Workers : hand[w] = -1)
      BY <1>4 DEF Return, vars, pool
    <2>3. returned' \in BOOLEAN
      BY <1>4 DEF Return, vars, pool, Inv, PoolOK
    <2>4. PoolOK'
      BY <1>1, <2>1, <2>3 DEF Inv, PoolOK, admin
    <2>5. WorkInv'
      BY <1>1, <2>1, <2>2 DEF Inv, WorkInv
    <2>6. QED
      BY <1>1, <1>2, <2>4, <2>5 DEF Inv
  <1>5. QED
    BY <1>3, <1>4

LEMMA AdminStep ==
  ASSUME Inv, AdminReloads \/ AdminEdits
  PROVE  /\ Inv' /\ Observed' = Observed /\ UNCHANGED <<graph, judged, packOf, reqs>>
         /\ \A d \in Known, s \in Slots :
                hubs'[d][s] # hubs[d][s] =>
                    /\ Loads(hubs'[d][s].path)
                    /\ hubs'[d][s].pack = LoadedPack(hubs'[d][s].path)
  <1>1. UNCHANGED <<graph, reqs, pool>> /\ reloads' \in Nat /\ edits' \in Nat
    BY DEF AdminReloads, AdminEdits, Inv, PoolOK
  <1>2. /\ RegistryOK' /\ KnownHavePacks'
        /\ \A d \in Known, s \in Slots :
                hubs'[d][s] # hubs[d][s] =>
                    /\ Loads(hubs'[d][s].path)
                    /\ hubs'[d][s].pack = LoadedPack(hubs'[d][s].path)
    BY ReloadStep, EditStep DEF Inv, AdminReloads, AdminEdits
  <1>3. GraphOK' /\ PoolOK' /\ WorkInv' /\ JudgeInv' /\ Observed' = Observed
    BY <1>1 DEF Inv, graph, pool, GraphOK, PoolOK, WorkInv, JudgeInv, Observed
  <1>4. QED
    BY <1>1, <1>2, <1>3 DEF Inv, pool

LEMMA StepInv == Inv /\ [Next]_vars => Inv'
  BY TakeStep, SlotStep, CaptureStep, GraphStep, OtherStep, AdminStep DEF Next, Work

LEMMA InvHolds == Spec => []Inv
  BY InitInv, StepInv, PTL DEF Spec

(* The state of a batch, its graph and its packs stays well formed.        *)
THEOREM TypeCorrect == Spec => []TypeOK
  <1>1. Inv => TypeOK
    BY DEF Inv, RegistryOK, GraphOK, PoolOK, TypeOK
  <1>2. QED
    BY InvHolds, <1>1, PTL

(* Whatever is reloaded, edited or mistyped, a known domain has a primary  *)
(* pack with thresholds: the missing pack that orchestrator.go:20-22       *)
(* guards against does not occur.                                          *)
THEOREM KnownDomainsHavePacks == Spec => [](\A d \in Known : Usable(Primary(d)))
  <1>1. Inv => \A d \in Known : Usable(Primary(d))
    BY DEF Inv, KnownHavePacks
  <1>2. QED
    BY InvHolds, <1>1, PTL

(* When ScreenConcurrent returns, every request has its result or its      *)
(* error and no other (batch/screen.go:22-41).                             *)
THEOREM ReturnIsComplete ==
  Spec => [](returned => \A i \in Indices : slots[i] = IF reqs[i].valid THEN "out" ELSE "err")
  <1>1. Inv => (returned => \A i \in Indices : slots[i] = IF reqs[i].valid THEN "out" ELSE "err")
    <2> SUFFICES ASSUME Inv, returned, NEW i \in Indices
                 PROVE  slots[i] = IF reqs[i].valid THEN "out" ELSE "err"
      OBVIOUS
    <2>1. at[i] # "queued"
      BY BatchAssumption DEF Inv, WorkInv, PoolOK, Indices
    <2>2. at[i] \notin InWork
      BY DEF Inv, WorkInv, Indices
    <2>3. at[i] = "done"
      BY <2>1, <2>2 DEF Inv, PoolOK, Places, InWork
    <2>4. QED
      BY <2>3 DEF Inv, WorkInv
  <1>2. QED
    BY InvHolds, <1>1, PTL

-----------------------------------------------------------------------------
(* The properties of the graph and of the registry.                        *)

(* The graph is the union of what the observed requests brought, in        *)
(* whatever order the workers got to it (entity_graph.go:25-37, 55-68).    *)
THEOREM GraphAlwaysUnion == Spec => []GraphIsUnion
  <1>1. Init => GraphIsUnion
    BY DEF Init, GInit, GraphIsUnion, Observed
  <1>2. Inv /\ GraphIsUnion /\ [Next]_vars => GraphIsUnion'
    <2> SUFFICES ASSUME Inv, GraphIsUnion, [Next]_vars PROVE GraphIsUnion'
      OBVIOUS
    <2>1. ASSUME NEW w \in Workers, RunGraph(w) PROVE GraphIsUnion'
      <3>1. UNCHANGED reqs
        BY <2>1, GraphStep
      <3>2. PICK i \in Indices :
                Observed' = Observed \cup {i} /\ Observe(reqs[i].sighting)
        BY <2>1, GraphStep
      <3>3. /\ links' = links \cup LinksOf(reqs[i].sighting)
            /\ subjectsOf' = subjectsOf \cup UsesOf(reqs[i].sighting)
        BY <3>2 DEF Observe
      <3>4. /\ \A j : LinksOf(reqs[j].sighting)' = LinksOf(reqs[j].sighting)
            /\ \A j : UsesOf(reqs[j].sighting)' = UsesOf(reqs[j].sighting)
        BY <3>1 DEF LinksOf, UsesOf
      <3>5. links' = UNION {LinksOf(reqs[j].sighting) : j \in Observed'}
        BY <3>2, <3>3 DEF GraphIsUnion
      <3>6. subjectsOf' = UNION {UsesOf(reqs[j].sighting) : j \in Observed'}
        BY <3>2, <3>3 DEF GraphIsUnion
      <3>7. QED
        BY <3>1, <3>5, <3>6 DEF GraphIsUnion, LinksOf, UsesOf
    <2>2. CASE Observed' = Observed /\ UNCHANGED <<graph, reqs>>
      BY <2>2 DEF GraphIsUnion, graph, LinksOf, UsesOf
    <2>3. ASSUME NEW w \in Workers, Take(w) PROVE GraphIsUnion'
      BY <2>2, <2>3, TakeStep DEF Take
    <2>4. QED
      BY <2>1, <2>2, <2>3, SlotStep, CaptureStep, OtherStep, AdminStep DEF Next, Work
  <1>3. QED
    BY InvHolds, <1>1, <1>2, PTL DEF Spec

(* More links and uses never make a verdict milder.                        *)
DenseIn(L, c, p) == \E n \in c.nodes : Links(L, n) >= p.cluster
SharedIn(U, c, p) == \E d \in c.device : c.subject # {} /\ Uses(U, d) >= p.shared
VerdictIn(L, U, c, p) ==
    IF DenseIn(L, c, p) THEN "REJECT" ELSE IF SharedIn(U, c, p) THEN "REVIEW" ELSE "APPROVE"

LEMMA VerdictIsVerdictIn ==
  \A c, p : GraphVerdict(c, p) = VerdictIn(links, subjectsOf, c, p)
  BY DEF GraphVerdict, VerdictIn, TooDense, Shared, Neighbours, SeenWith, DenseIn, SharedIn, Links,
         Uses

LEMMA NextVerdictIsVerdictIn ==
  ASSUME NEW i \in Indices
  PROVE  GraphVerdict(reqs[i].sighting, Thresholds[packOf[i].version])'
           = VerdictIn(links', subjectsOf', reqs'[i].sighting, Thresholds[packOf'[i].version])
  BY DEF GraphVerdict, VerdictIn, TooDense, Shared, Neighbours, SeenWith, DenseIn, SharedIn, Links,
         Uses

LEMMA VerdictGrows ==
  ASSUME NEW L, NEW M, L \subseteq M, NEW U, NEW V, U \subseteq V, NEW c,
         NEW p \in [shared : Nat \ {0}, cluster : Nat \ {0}]
  PROVE  Severity[VerdictIn(L, U, c, p)] <= Severity[VerdictIn(M, V, c, p)]
  <1>1. DenseIn(L, c, p) => DenseIn(M, c, p)
    <2>1. \A n : Links(L, n) \in Nat /\ Links(M, n) \in Nat /\ Links(L, n) <= Links(M, n)
      BY MoreNeighbours
    <2>2. p.cluster \in Nat
      OBVIOUS
    <2>3. QED
      BY <2>1, <2>2 DEF DenseIn
  <1>2. SharedIn(U, c, p) => SharedIn(V, c, p)
    <2>1. \A d : Uses(U, d) \in Nat /\ Uses(V, d) \in Nat /\ Uses(U, d) <= Uses(V, d)
      BY MoreSubjects
    <2>2. p.shared \in Nat
      OBVIOUS
    <2>3. QED
      BY <2>1, <2>2 DEF SharedIn
  <1>3. Severity["APPROVE"] = 0 /\ Severity["REVIEW"] = 1 /\ Severity["REJECT"] = 2
    BY DEF Severity
  <1>4. QED
    BY <1>1, <1>2, <1>3 DEF VerdictIn

LEMMA PackThresholds ==
  ASSUME NEW pack, Usable(pack)
  PROVE  Thresholds[pack.version] \in [shared : Nat \ {0}, cluster : Nat \ {0}]
  BY BatchAssumption DEF Usable

(* Asked again under its own pack, no request gets a milder verdict than   *)
(* it got, for any thresholds (entity_graph.go:35-36, 66-91).              *)
THEOREM NeverMilderAlways == Spec => []NeverMilder
  <1>1. Init => NeverMilder
    BY DEF Init, NeverMilder, Observed
  <1>2. Inv /\ NeverMilder /\ [Next]_vars => NeverMilder'
    <2> SUFFICES ASSUME Inv, Inv', NeverMilder, [Next]_vars PROVE NeverMilder'
      BY StepInv
    <2>1. SUFFICES ASSUME NEW i \in Observed'
                   PROVE  Severity[judged'[i]]
                            <= Severity[VerdictIn(links', subjectsOf', reqs'[i].sighting,
                                                  Thresholds[packOf'[i].version])]
      <3>1. Observed' \subseteq Indices
        BY DEF Observed
      <3>2. \A i \in Observed' :
              Severity[judged'[i]]
                <= Severity[GraphVerdict(reqs[i].sighting, Thresholds[packOf[i].version])']
        BY <2>1, <3>1, NextVerdictIsVerdictIn
      <3>3. QED
        BY <3>2 DEF NeverMilder, Severity, GraphVerdict, TooDense, Shared, Neighbours, SeenWith
    <2>2. i \in Indices
      BY DEF Observed
    <2>3. Thresholds[packOf'[i].version] \in [shared : Nat \ {0}, cluster : Nat \ {0}]
      BY <2>1, <2>2, PackThresholds DEF Inv, JudgeInv
    <2>4. CASE /\ i \in Observed
               /\ UNCHANGED reqs /\ packOf'[i] = packOf[i] /\ judged'[i] = judged[i]
               /\ links \subseteq links' /\ subjectsOf \subseteq subjectsOf'
      <3>1. Severity[judged[i]]
              <= Severity[VerdictIn(links, subjectsOf, reqs[i].sighting,
                                    Thresholds[packOf[i].version])]
        BY <2>4, VerdictIsVerdictIn DEF NeverMilder
      <3>2. Severity[VerdictIn(links, subjectsOf, reqs[i].sighting,
                               Thresholds[packOf[i].version])]
              <= Severity[VerdictIn(links', subjectsOf', reqs[i].sighting,
                                    Thresholds[packOf[i].version])]
        BY <2>3, <2>4, VerdictGrows
      <3>3. \A v \in {"APPROVE", "REVIEW", "REJECT"} : Severity[v] \in Int
        BY DEF Severity
      <3>4. \A L, U, c, p : VerdictIn(L, U, c, p) \in {"APPROVE", "REVIEW", "REJECT"}
        BY DEF VerdictIn
      <3>5. judged[i] \in {"APPROVE", "REVIEW", "REJECT"}
        BY <2>2, <2>4 DEF Inv, PoolOK, JudgeInv, Verdicts
      <3>6. QED
        BY <2>4, <3>1, <3>2, <3>3, <3>4, <3>5
    <2>5. ASSUME NEW w \in Workers, RunGraph(w)
          PROVE  Severity[judged'[i]]
                   <= Severity[VerdictIn(links', subjectsOf', reqs'[i].sighting,
                                         Thresholds[packOf'[i].version])]
      <3>1. PICK j \in Indices :
                /\ Observed' = Observed \cup {j} /\ j \notin Observed
                /\ judged' = [judged EXCEPT ![j] =
                       GraphVerdict(reqs[j].sighting, Thresholds[packOf[j].version])']
        BY <2>5, GraphStep
      <3>2. CASE i = j
        <4>1. judged'[i] = VerdictIn(links', subjectsOf', reqs'[i].sighting,
                                     Thresholds[packOf'[i].version])
          BY <2>2, <3>1, <3>2, NextVerdictIsVerdictIn DEF Inv, PoolOK
        <4>2. \A v \in {"APPROVE", "REVIEW", "REJECT"} : Severity[v] \in Int
          BY DEF Severity
        <4>3. judged'[i] \in {"APPROVE", "REVIEW", "REJECT"}
          BY <4>1 DEF VerdictIn
        <4>4. Severity[judged'[i]] <= Severity[judged'[i]]
          BY <4>2, <4>3
        <4>5. QED
          BY <4>1, <4>4
      <3>3. CASE i # j
        BY <2>1, <2>2, <2>4, <2>5, <3>1, <3>3, GraphStep DEF Inv, PoolOK
      <3>4. QED
        BY <3>2, <3>3
    <2>6. ASSUME NEW w \in Workers, Capture(w)
          PROVE  /\ i \in Observed
                 /\ UNCHANGED reqs /\ packOf'[i] = packOf[i] /\ judged'[i] = judged[i]
                 /\ links \subseteq links' /\ subjectsOf \subseteq subjectsOf'
      BY <2>1, <2>6, CaptureStep DEF graph
    <2>7. ASSUME UNCHANGED <<graph, judged, packOf, reqs>>, Observed' = Observed
          PROVE  /\ i \in Observed
                 /\ UNCHANGED reqs /\ packOf'[i] = packOf[i] /\ judged'[i] = judged[i]
                 /\ links \subseteq links' /\ subjectsOf \subseteq subjectsOf'
      BY <2>1, <2>7 DEF graph
    <2>8. ASSUME NEW w \in Workers, Take(w)
          PROVE  UNCHANGED <<graph, judged, packOf, reqs>> /\ Observed' = Observed
      BY <2>8, TakeStep DEF Take
    <2>9. (\E w \in Workers : RunGraph(w) \/ Capture(w))
          \/ (UNCHANGED <<graph, judged, packOf, reqs>> /\ Observed' = Observed)
      BY <2>8, SlotStep, OtherStep, AdminStep DEF Next, Work
    <2>10. QED
      BY <2>4, <2>5, <2>6, <2>7, <2>9
  <1>3. QED
    BY InvHolds, <1>1, <1>2, PTL DEF Spec

(* What stands in a slot of a known domain changes only to a pack that     *)
(* loaded, with the path it came from (policy_pack.go:141-175).            *)
THEOREM OnlyLoadedPacksEverReplace == Spec => OnlyLoadedPacksReplace
  <1>1. Inv /\ [Next]_vars =>
          [\A d \in Known, s \in Slots :
              hubs'[d][s] # hubs[d][s] =>
                  /\ Loads(hubs'[d][s].path)
                  /\ hubs'[d][s].pack = LoadedPack(hubs'[d][s].path)]_registry
    <2> SUFFICES ASSUME Inv, [Next]_vars
                 PROVE  (\A d \in Known, s \in Slots :
                            hubs'[d][s] # hubs[d][s] =>
                                /\ Loads(hubs'[d][s].path)
                                /\ hubs'[d][s].pack = LoadedPack(hubs'[d][s].path))
                        \/ UNCHANGED registry
      OBVIOUS
    <2>1. CASE AdminReloads \/ AdminEdits
      BY <2>1, AdminStep
    <2>2. CASE ~(AdminReloads \/ AdminEdits)
      BY <2>2 DEF Next, Work, Take, Refuse, Capture, RunGraph, Finish, Leave, Return, vars
    <2>3. QED
      BY <2>1, <2>2
  <1>2. QED
    BY InvHolds, <1>1, PTL DEF Spec, OnlyLoadedPacksReplace

-----------------------------------------------------------------------------
(* Ownership.  The slots are written without a lock (batch/screen.go:18,   *)
(* 29, 32), which is right because no index is in two hands, and no slot   *)
(* is written again.                                                       *)

(* An index is in a hand exactly while its request is in work, and in one. *)
HandInv ==
    /\ \A w \in Workers : hand[w] \in Indices => at[hand[w]] \in InWork
    /\ \A v, w \in Workers : hand[v] = hand[w] /\ hand[v] \in Indices => v = w

(* What has been set, and how far the request is then.                     *)
SetInv ==
    \A i \in Indices :
        /\ slots[i] # "empty" => at[i] = "done"
        /\ packOf[i] # NoPack => at[i] \in {"captured", "observed", "done"}
        /\ judged[i] # "none" => at[i] \in {"observed", "done"}

SetOnce ==
    \A i \in Indices :
        /\ slots[i] # "empty" => slots'[i] = slots[i]
        /\ packOf[i] # NoPack => packOf'[i] = packOf[i]
        /\ judged[i] # "none" => judged'[i] = judged[i]

LEMMA InitHands == Init => HandInv /\ SetInv
  BY DEF Init, HandInv, SetInv, Indices

LEMMA TakeHands ==
  ASSUME Inv, HandInv, SetInv, NEW w \in Workers, Take(w)
  PROVE  HandInv' /\ SetInv' /\ SetOnce
  <1>1. next \in Indices /\ at[next] = "queued"
    BY BatchAssumption DEF Inv, PoolOK, WorkInv, Take, Indices
  <1>2. /\ \A v \in Workers : hand'[v] = IF v = w THEN next ELSE hand[v]
        /\ \A i \in Indices : at'[i] = IF i = next THEN "taken" ELSE at[i]
    BY DEF Inv, PoolOK, Take
  <1>3. \A v \in Workers : hand[v] # next
    BY <1>1 DEF HandInv, InWork
  <1>4. HandInv'
    BY <1>1, <1>2, <1>3 DEF HandInv, InWork
  <1>5. SetInv' /\ SetOnce
    BY <1>1, <1>2 DEF SetInv, SetOnce, Take
  <1>6. QED
    BY <1>4, <1>5

LEMMA SlotHands ==
  ASSUME Inv, HandInv, SetInv, NEW w \in Workers, Refuse(w) \/ Finish(w)
  PROVE  HandInv' /\ SetInv' /\ SetOnce
  <1>1. PICK i \in Indices :
            /\ hand[w] = i
            /\ at[i] \in InWork
            /\ \E slot : slots' = [slots EXCEPT ![i] = slot]
            /\ at' = [at EXCEPT ![i] = "done"]
            /\ hand' = [hand EXCEPT ![w] = 0]
            /\ UNCHANGED <<packOf, judged>>
    BY DEF Refuse, Finish, InWork
  <1>2. /\ \A v \in Workers : hand'[v] = IF v = w THEN 0 ELSE hand[v]
        /\ \A j \in Indices : at'[j] = IF j = i THEN "done" ELSE at[j]
        /\ \A j \in Indices : j # i => slots'[j] = slots[j]
    BY <1>1 DEF Inv, PoolOK
  <1>3. HandInv'
    BY <1>1, <1>2 DEF HandInv, Indices
  <1>4. SetInv' /\ SetOnce
    BY <1>1, <1>2 DEF SetInv, SetOnce, InWork
  <1>5. QED
    BY <1>3, <1>4

LEMMA EngineHands ==
  ASSUME Inv, HandInv, SetInv, NEW w \in Workers, Capture(w) \/ RunGraph(w)
  PROVE  HandInv' /\ SetInv' /\ SetOnce
  <1>1. CASE Capture(w)
    <2>1. PICK i \in Indices :
              /\ at[i] = "taken"
              /\ packOf' = [packOf EXCEPT ![i] = Primary(reqs[i].domain)]
              /\ at' = [at EXCEPT ![i] = "captured"]
              /\ UNCHANGED <<hand, judged, slots>>
      BY <1>1 DEF Capture
    <2>2. /\ \A j \in Indices : at'[j] = IF j = i THEN "captured" ELSE at[j]
          /\ \A j \in Indices : j # i => packOf'[j] = packOf[j]
      BY <2>1 DEF Inv, PoolOK
    <2>3. HandInv'
      BY <2>1, <2>2 DEF HandInv, InWork
    <2>4. SetInv' /\ SetOnce
      BY <2>1, <2>2 DEF SetInv, SetOnce
    <2>5. QED
      BY <2>3, <2>4
  <1>2. CASE RunGraph(w)
    <2>1. PICK i \in Indices :
              /\ at[i] = "captured"
              /\ at' = [at EXCEPT ![i] = "observed"]
              /\ \E verdict : judged' = [judged EXCEPT ![i] = verdict]
              /\ UNCHANGED <<hand, packOf, slots>>
      BY <1>2 DEF RunGraph
    <2>2. /\ \A j \in Indices : at'[j] = IF j = i THEN "observed" ELSE at[j]
          /\ \A j \in Indices : j # i => judged'[j] = judged[j]
      BY <2>1 DEF Inv, PoolOK
    <2>3. HandInv'
      BY <2>1, <2>2 DEF HandInv, InWork
    <2>4. SetInv' /\ SetOnce
      BY <2>1, <2>2 DEF SetInv, SetOnce
    <2>5. QED
      BY <2>3, <2>4
  <1>3. QED
    BY <1>1, <1>2

LEMMA StepHands ==
  Inv /\ HandInv /\ SetInv /\ [Next]_vars => HandInv' /\ SetInv' /\ (SetOnce \/ UNCHANGED vars)
  <1> SUFFICES ASSUME Inv, HandInv, SetInv, [Next]_vars
               PROVE  HandInv' /\ SetInv' /\ (SetOnce \/ UNCHANGED vars)
    OBVIOUS
  <1>1. ASSUME NEW w \in Workers, Leave(w) PROVE HandInv' /\ SetInv' /\ SetOnce
    <2>1. \A v \in Workers : hand'[v] = IF v = w THEN -1 ELSE hand[v]
      BY <1>1 DEF Leave, Inv, PoolOK
    <2>2. HandInv'
      BY <1>1, <2>1 DEF Leave, HandInv, Indices
    <2>3. SetInv' /\ SetOnce
      BY <1>1 DEF Leave, SetInv, SetOnce
    <2>4. QED
      BY <2>2, <2>3
  <1>2. CASE Return
    BY <1>2 DEF Return, HandInv, SetInv, SetOnce
  <1>3. CASE AdminReloads \/ AdminEdits
    BY <1>3 DEF AdminReloads, AdminEdits, pool, HandInv, SetInv, SetOnce
  <1>4. CASE UNCHANGED vars
    BY <1>4 DEF vars, pool, HandInv, SetInv
  <1>5. QED
    BY <1>1, <1>2, <1>3, <1>4, TakeHands, SlotHands, EngineHands DEF Next, Work

(* However many workers there are, no two of them work on one request      *)
(* (batch/screen.go:20, 26, 36-38).                                        *)
THEOREM OneWorkerPerRequest ==
  Spec => [](\A v, w \in Workers : hand[v] = hand[w] /\ hand[v] \in Indices => v = w)
  <1>1. HandInv => \A v, w \in Workers : hand[v] = hand[w] /\ hand[v] \in Indices => v = w
    BY DEF HandInv
  <1>2. Inv /\ HandInv /\ SetInv /\ [Next]_vars => HandInv' /\ SetInv'
    BY StepHands
  <1>3. QED
    BY InvHolds, InitHands, <1>1, <1>2, PTL DEF Spec

(* A slot is written once, without a lock; a request is judged once, under *)
(* the one pack it captured, whatever the admin reloads in the meantime    *)
(* (batch/screen.go:18, 29-32, orchestrator.go:20).                        *)
THEOREM RequestsAreSetOnce ==
  Spec =>
    [][\A i \in Indices :
          /\ slots[i] # "empty" => slots'[i] = slots[i]
          /\ packOf[i] # NoPack => packOf'[i] = packOf[i]
          /\ judged[i] # "none" => judged'[i] = judged[i]]_vars
  <1>1. Inv /\ HandInv /\ SetInv /\ [Next]_vars =>
          [\A i \in Indices :
              /\ slots[i] # "empty" => slots'[i] = slots[i]
              /\ packOf[i] # NoPack => packOf'[i] = packOf[i]
              /\ judged[i] # "none" => judged'[i] = judged[i]]_vars
    BY StepHands DEF SetOnce
  <1>2. Inv /\ HandInv /\ SetInv /\ [Next]_vars => HandInv' /\ SetInv'
    BY StepHands
  <1>3. QED
    BY InvHolds, InitHands, <1>1, <1>2, PTL DEF Spec
=============================================================================
