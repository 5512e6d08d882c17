---------------------------- MODULE VelocityProofs ----------------------------
(* Proofs about the velocity rule, for any requests, keys, windows and     *)
(* limits, and any bound on the wait for the tracker's lock.               *)
EXTENDS Velocity, FiniteSetTheorems, TLAPS

LEMMA PassesFinite == IsFiniteSet(Passes)
  <1>1. IsFiniteSet({"primary", "shadow"})
    <2>1. IsFiniteSet({"primary"}) /\ {"primary", "shadow"} = {"primary"} \cup {"shadow"}
      BY FS_Singleton
    <2>2. QED
      BY <2>1, FS_AddElement
  <1>2. IsFiniteSet(Packs)
    BY <1>1, FS_Subset, VelocityAssumption
  <1>3. QED
    BY <1>2, FS_Product, VelocityAssumption DEF Passes

(* A pass that waits for the lock has a key to hit and a recent time.      *)
Waiting ==
    \A p \in Passes :
        stage[p] = "locking" =>
            /\ next[p] <= Len(KeysOf[p[1]])
            /\ now[p] <= clock
            /\ clock - now[p] <= MaxWait

TypeInv == TypeOK /\ Waiting

LEMMA KeyType ==
  ASSUME TypeInv, NEW p \in Passes, stage[p] = "locking"
  PROVE  Key(p) \in Keys
  <1>1. KeysOf[p[1]] \in Seq(Keys)
    BY VelocityAssumption DEF Passes
  <1>2. next[p] \in 1 .. Len(KeysOf[p[1]])
    BY <1>1 DEF TypeInv, TypeOK, Waiting
  <1>3. QED
    BY <1>1, <1>2 DEF Key

LEMMA HitTyped ==
  ASSUME TypeInv, NEW p \in Passes, Hit(p)
  PROVE  TypeInv'
  <1>1. stage[p] = "locking" /\ Key(p) \in Keys
    BY KeyType DEF Hit
  <1>2. Recent(Key(p), p) \cup {p} \in SUBSET Passes
    BY <1>1 DEF Recent, TypeInv, TypeOK
  <1>3. /\ kept' = [kept EXCEPT ![Key(p)] = Recent(Key(p), p) \cup {p}]
        /\ recorded' = [recorded EXCEPT ![Key(p)] = @ \cup {p}]
        /\ at' = [at EXCEPT ![<<p, Key(p)>>] = now[p]]
        /\ UNCHANGED <<clock, now>>
        /\ \/ /\ stage' = [stage EXCEPT ![p] = "block"]
              /\ UNCHANGED <<next, cleared>>
           \/ /\ stage' = [stage EXCEPT ![p] = "check"]
              /\ next' = [next EXCEPT ![p] = @ + 1]
              /\ cleared' = [cleared EXCEPT ![Key(p)] = @ \cup {p}]
    BY DEF Hit
  <1>4. kept' \in [Keys -> SUBSET Passes] /\ recorded' \in [Keys -> SUBSET Passes]
    BY <1>1, <1>2, <1>3 DEF TypeInv, TypeOK
  <1>5. at' \in [Passes \X Keys -> 0 .. MaxTime]
    BY <1>1, <1>3 DEF TypeInv, TypeOK
  <1>6. /\ stage' \in [Passes -> {"idle", "check", "locking", "pass", "block"}]
        /\ next' \in [Passes -> Nat \ {0}]
        /\ cleared' \in [Keys -> SUBSET Passes]
    <2>1. stage' \in [Passes -> {"idle", "check", "locking", "pass", "block"}]
      BY <1>3 DEF TypeInv, TypeOK
    <2>2. next' \in [Passes -> Nat \ {0}]
      <3>1. next \in [Passes -> Nat \ {0}] /\ next[p] + 1 \in Nat \ {0}
        BY DEF TypeInv, TypeOK
      <3>2. next' = next \/ next' = [next EXCEPT ![p] = next[p] + 1]
        BY <1>3
      <3>3. CASE next' = [next EXCEPT ![p] = next[p] + 1]
        <4> DEFINE n == next[p] + 1
        <4> HIDE DEF n
        <4>1. n \in Nat \ {0} /\ next' = [next EXCEPT ![p] = n]
          BY <3>1, <3>3 DEF n
        <4>2. QED
          BY <3>1, <4>1
      <3>4. QED
        BY <3>1, <3>2, <3>3
    <2>3. cleared' \in [Keys -> SUBSET Passes]
      <3>1. cleared' = cleared \/ cleared' = [cleared EXCEPT ![Key(p)] = cleared[Key(p)] \cup {p}]
        BY <1>3
      <3>2. cleared \in [Keys -> SUBSET Passes]
        BY DEF TypeInv, TypeOK
      <3>3. cleared[Key(p)] \cup {p} \in SUBSET Passes
        BY <1>1, <3>2
      <3>4. QED
        BY <3>1, <3>2, <3>3
    <2>4. QED
      BY <2>1, <2>2, <2>3
  <1>7. Waiting'
    BY <1>3 DEF TypeInv, TypeOK, Waiting
  <1>8. QED
    BY <1>3, <1>4, <1>5, <1>6, <1>7 DEF TypeInv, TypeOK

LEMMA StepTyped == TypeInv /\ [Next]_vars => TypeInv'
  <1> SUFFICES ASSUME TypeInv, [Next]_vars
               PROVE  TypeInv'
    OBVIOUS
  <1> USE VelocityAssumption
  <1>1. ASSUME NEW p \in Passes, Begin(p)
        PROVE  TypeInv'
    BY <1>1 DEF Begin, TypeInv, TypeOK, Waiting
  <1>2. ASSUME NEW p \in Passes, NextKey(p)
        PROVE  TypeInv'
    <2>1. CASE stage' = [stage EXCEPT ![p] = "pass"] /\ UNCHANGED now
      BY <1>2, <2>1 DEF NextKey, TypeInv, TypeOK, Waiting
    <2>2. CASE /\ next[p] <= Len(KeysOf[p[1]])
               /\ now' = [now EXCEPT ![p] = clock]
               /\ stage' = [stage EXCEPT ![p] = "locking"]
      <3>1. UNCHANGED <<clock, kept, recorded, at, next, cleared>>
        BY <1>2 DEF NextKey
      <3>2. TypeOK'
        BY <2>2, <3>1 DEF TypeInv, TypeOK
      <3>3. Waiting'
        BY <2>2, <3>1 DEF TypeInv, TypeOK, Waiting
      <3>4. QED
        BY <3>2, <3>3 DEF TypeInv
    <2>3. QED
      BY <1>2, <2>1, <2>2 DEF NextKey
  <1>3. ASSUME NEW p \in Passes, Hit(p)
        PROVE  TypeInv'
    BY <1>3, HitTyped
  <1>4. ASSUME Tick
        PROVE  TypeInv'
    BY <1>4 DEF Tick, TypeInv, TypeOK, Waiting
  <1>5. CASE UNCHANGED vars
    BY <1>5 DEF vars, TypeInv, TypeOK, Waiting
  <1>6. QED
    BY <1>1, <1>2, <1>3, <1>4, <1>5 DEF Next

(* Every variable keeps its type (velocity.go:23-45).                      *)
THEOREM TypeCorrect == Spec => []TypeOK
  <1>1. Init => TypeInv
    BY VelocityAssumption DEF Init, TypeInv, TypeOK, Waiting
  <1>2. TypeInv => TypeOK
    BY DEF TypeInv
  <1>3. QED
    BY <1>1, <1>2, StepTyped, PTL DEF Spec

-----------------------------------------------------------------------------
(* What the tracker dropped is too old for every pack.                     *)
DroppedIsOld ==
    \A k \in Keys : \A p \in recorded[k] \ kept[k] :
        \A m \in 0 .. MaxTime : Shared(m) => at[<<p, k>>] <= clock - m

ClearedIsRecorded == \A k \in Keys : cleared[k] \subseteq recorded[k]

(* A pass is cleared by the keys before the one it is at.                  *)
ClearedInOrder ==
    \A k \in Keys : \A p \in cleared[k] :
        \E i \in 1 .. Len(KeysOf[p[1]]) : i < next[p] /\ KeysOf[p[1]][i] = k

(* The cleared primary passes of k with times in the interval that ends m, *)
(* less the longest wait, after t.                                         *)
Burst(k, t, m) ==
    {p \in cleared[k] \cap Primary : at[<<p, k>>] > t /\ at[<<p, k>>] <= t + m - MaxWait}

RInv == TypeInv /\ DroppedIsOld /\ ClearedIsRecorded /\ ClearedInOrder /\ RateLimit

(* A time dropped by one pass is too old even for a pass that read its     *)
(* clock earlier and waited for the lock since, by at most MaxWait; so     *)
(* whatever is close to the time of a hit is counted by it.                *)
LEMMA CloseIsCounted ==
  ASSUME RInv, NEW p \in Primary \cap Passes, stage[p] = "locking",
         NEW m \in 0 .. MaxTime, Shared(m),
         NEW q \in recorded[Key(p)], at[<<q, Key(p)>>] > now[p] - (m - MaxWait)
  PROVE  q \in Recent(Key(p), p)
  <1>1. Key(p) \in Keys
    BY KeyType DEF RInv
  <1>2. q \in Passes /\ at[<<q, Key(p)>>] \in Int /\ now[p] \in Int /\ clock \in Int
    BY <1>1 DEF RInv, TypeInv, TypeOK
  <1>3. clock - now[p] <= MaxWait
    BY DEF RInv, TypeInv, Waiting
  <1>4. q \in kept[Key(p)]
    BY <1>1, <1>2, <1>3, VelocityAssumption DEF RInv, DroppedIsOld
  <1>5. PackOf(p) = "primary" /\ m <= Window["primary"] /\ Window["primary"] \in Nat
    BY VelocityAssumption DEF Primary, PackOf, Shared
  <1>6. QED
    BY <1>2, <1>4, <1>5, VelocityAssumption DEF Recent

(* The hit that lets a pass through keeps every burst within the limit:    *)
(* if the pass is in the burst, the whole burst was counted.               *)
LEMMA HitKeepsLimit ==
  ASSUME RInv, NEW p \in Passes, Hit(p)
  PROVE  RateLimit'
  <1> DEFINE k == Key(p)
  <1>1. stage[p] = "locking" /\ k \in Keys
    BY KeyType DEF Hit, RInv
  <1>2. /\ at' = [at EXCEPT ![<<p, k>>] = now[p]]
        /\ \/ /\ Cardinality(Recent(k, p) \cup {p}) > MaxCount[PackOf(p)]
              /\ UNCHANGED cleared
           \/ /\ ~(Cardinality(Recent(k, p) \cup {p}) > MaxCount[PackOf(p)])
              /\ cleared' = [cleared EXCEPT ![k] = @ \cup {p}]
    BY DEF Hit
  <1> HIDE DEF k
  <1>3. SUFFICES ASSUME NEW l \in Keys, NEW t \in -MaxTime .. MaxTime,
                        NEW m \in 0 .. MaxTime, Shared(m)
                 PROVE  Cardinality(Burst(l, t, m)') <= MaxCount["primary"]
    BY DEF RateLimit, Burst, Shared
  <1>4. IsFiniteSet(Burst(l, t, m)) /\ Cardinality(Burst(l, t, m)) \in Nat
    <2>1. Burst(l, t, m) \subseteq Passes
      BY DEF Burst, RInv, TypeInv, TypeOK
    <2>2. QED
      BY <2>1, PassesFinite, FS_Subset, FS_CardinalityType
  <1>5. Cardinality(Burst(l, t, m)) <= MaxCount["primary"]
    BY <1>3 DEF RInv, RateLimit, Burst
  <1>6. MaxCount["primary"] \in Nat
    BY VelocityAssumption
  <1>7. CASE Burst(l, t, m)' \subseteq Burst(l, t, m)
    BY <1>4, <1>5, <1>6, <1>7, FS_Subset, FS_CardinalityType
  <1>8. CASE ~(Burst(l, t, m)' \subseteq Burst(l, t, m))
    <2>1. l = k /\ p \in Burst(l, t, m)' /\ p \in Primary
      <3>1. PICK q \in Burst(l, t, m)' : q \notin Burst(l, t, m)
        BY <1>8
      <3>2. q \in Passes
        BY <3>1, <1>1, <1>2 DEF Burst, RInv, TypeInv, TypeOK
      <3>3. ASSUME q # p \/ l # k
            PROVE  FALSE
        <4>1. at'[<<q, l>>] = at[<<q, l>>]
          BY <1>2, <3>2, <3>3 DEF RInv, TypeInv, TypeOK
        <4>2. q \in cleared[l]
          BY <1>1, <1>2, <3>1, <3>3 DEF Burst, RInv, TypeInv, TypeOK
        <4>3. QED
          BY <3>1, <4>1, <4>2 DEF Burst
      <3>4. QED
        BY <3>1, <3>3 DEF Burst
    <2>2. p \notin cleared[k]
      <3>1. SUFFICES ASSUME p \in cleared[k]
                     PROVE  FALSE
        OBVIOUS
      <3>2. PICK i \in 1 .. Len(KeysOf[p[1]]) : i < next[p] /\ KeysOf[p[1]][i] = k
        BY <1>1, <3>1 DEF RInv, ClearedInOrder
      <3>3. next[p] \in 1 .. Len(KeysOf[p[1]]) /\ KeysOf[p[1]][next[p]] = k
        BY <1>1, <3>2, VelocityAssumption DEF RInv, TypeInv, TypeOK, Waiting, k, Key, Passes
      <3>4. i = next[p]
        BY <3>2, <3>3, VelocityAssumption DEF Passes
      <3>5. QED
        BY <3>2, <3>3, <3>4
    <2>3. cleared' = [cleared EXCEPT ![k] = @ \cup {p}]
          /\ ~(Cardinality(Recent(k, p) \cup {p}) > MaxCount["primary"])
      <3>1. PackOf(p) = "primary"
        BY <2>1 DEF Primary, PackOf
      <3>2. ~(UNCHANGED cleared)
        BY <2>1, <2>2 DEF Burst
      <3>3. QED
        BY <1>2, <3>1, <3>2
    <2>4. Burst(l, t, m)' \subseteq Recent(k, p) \cup {p}
      <3>1. SUFFICES ASSUME NEW q \in Burst(l, t, m)', q # p
                     PROVE  q \in Recent(k, p)
        OBVIOUS
      <3>2. q \in cleared[k] /\ q \in recorded[k] /\ q \in Passes
        BY <1>1, <2>1, <2>3, <3>1 DEF Burst, RInv, TypeInv, TypeOK, ClearedIsRecorded
      <3>3. at'[<<q, k>>] = at[<<q, k>>] /\ at'[<<p, k>>] = now[p]
        BY <1>1, <1>2, <3>1, <3>2 DEF RInv, TypeInv, TypeOK
      <3>4. /\ at[<<q, k>>] \in Nat /\ now[p] \in Nat
            /\ at[<<q, k>>] > t /\ now[p] <= t + m - MaxWait
        BY <1>1, <2>1, <3>1, <3>2, <3>3 DEF Burst, RInv, TypeInv, TypeOK
      <3>5. at[<<q, k>>] > now[p] - (m - MaxWait)
        BY <3>4, VelocityAssumption
      <3>6. QED
        BY <1>1, <1>3, <2>1, <3>2, <3>5, CloseIsCounted DEF k
    <2>5. /\ IsFiniteSet(Recent(k, p) \cup {p})
          /\ Cardinality(Recent(k, p) \cup {p}) <= MaxCount["primary"]
      <3>1. Recent(k, p) \cup {p} \subseteq Passes
        BY <1>1 DEF Recent, RInv, TypeInv, TypeOK
      <3>2. IsFiniteSet(Recent(k, p) \cup {p}) /\ Cardinality(Recent(k, p) \cup {p}) \in Nat
        BY <3>1, PassesFinite, FS_Subset, FS_CardinalityType
      <3>3. QED
        BY <2>3, <3>2, <1>6
    <2>6. QED
      BY <2>4, <2>5, <1>6, FS_Subset, FS_CardinalityType
  <1>9. QED
    BY <1>7, <1>8

(* The other parts of the invariant.                                       *)
LEMMA HitKeepsRest ==
  ASSUME RInv, NEW p \in Passes, Hit(p)
  PROVE  DroppedIsOld' /\ ClearedIsRecorded' /\ ClearedInOrder'
  <1> DEFINE k == Key(p)
  <1>1. stage[p] = "locking" /\ k \in Keys
    BY KeyType DEF Hit, RInv
  <1>2. /\ kept' = [kept EXCEPT ![k] = Recent(k, p) \cup {p}]
        /\ recorded' = [recorded EXCEPT ![k] = @ \cup {p}]
        /\ at' = [at EXCEPT ![<<p, k>>] = now[p]]
        /\ UNCHANGED clock
        /\ \/ UNCHANGED <<next, cleared>>
           \/ /\ next' = [next EXCEPT ![p] = @ + 1]
              /\ cleared' = [cleared EXCEPT ![k] = @ \cup {p}]
    BY DEF Hit
  <1>3. next[p] \in 1 .. Len(KeysOf[p[1]]) /\ KeysOf[p[1]][next[p]] = k
    BY <1>1, VelocityAssumption DEF RInv, TypeInv, TypeOK, Waiting, Key, Passes
  <1> HIDE DEF k
  <1>4. DroppedIsOld'
    <2> SUFFICES ASSUME NEW l \in Keys, NEW q \in recorded'[l], q \notin kept'[l],
                        NEW m \in 0 .. MaxTime, Shared(m)
                 PROVE  at'[<<q, l>>] <= clock - m
      BY <1>2 DEF DroppedIsOld, Shared
    <2>1. q \in Passes /\ q \in recorded[l] /\ at'[<<q, l>>] = at[<<q, l>>]
      BY <1>1, <1>2 DEF RInv, TypeInv, TypeOK
    <2>2. CASE q \notin kept[l]
      BY <2>1, <2>2 DEF RInv, DroppedIsOld
    <2>3. CASE q \in kept[l]
      <3>1. l = k /\ ~(at[<<q, k>>] > now[p] - Window[PackOf(p)])
        BY <1>1, <1>2, <2>3 DEF Recent, RInv, TypeInv, TypeOK
      <3>2. m <= Window[PackOf(p)] /\ Window[PackOf(p)] \in Nat
        BY VelocityAssumption DEF Shared, PackOf, Passes
      <3>3. now[p] <= clock /\ now[p] \in Int /\ clock \in Int /\ at[<<q, k>>] \in Int
        BY <1>1, <2>1 DEF RInv, TypeInv, TypeOK, Waiting
      <3>4. QED
        BY <2>1, <3>1, <3>2, <3>3
    <2>4. QED
      BY <2>2, <2>3
  <1>5. ClearedIsRecorded'
    BY <1>1, <1>2 DEF RInv, TypeInv, TypeOK, ClearedIsRecorded
  <1>6. ClearedInOrder'
    <2> SUFFICES ASSUME NEW l \in Keys, NEW q \in cleared'[l]
                 PROVE  \E i \in 1 .. Len(KeysOf[q[1]]) : i < next'[q] /\ KeysOf[q[1]][i] = l
      BY DEF ClearedInOrder
    <2>1. next[q] \in Nat /\ next'[q] \in Nat /\ next'[q] >= next[q]
      <3>1. q \in Passes
        BY <1>1, <1>2 DEF RInv, TypeInv, TypeOK
      <3>2. QED
        BY <1>2, <3>1 DEF RInv, TypeInv, TypeOK
    <2>2. CASE q \in cleared[l]
      <3>1. PICK i \in 1 .. Len(KeysOf[q[1]]) : i < next[q] /\ KeysOf[q[1]][i] = l
        BY <2>2 DEF RInv, ClearedInOrder
      <3>2. QED
        BY <2>1, <3>1
    <2>3. CASE q \notin cleared[l]
      <3>1. q = p /\ l = k /\ next'[p] = next[p] + 1
        BY <1>1, <1>2, <2>3 DEF RInv, TypeInv, TypeOK
      <3>2. QED
        BY <1>3, <3>1
    <2>4. QED
      BY <2>2, <2>3
  <1>7. QED
    BY <1>4, <1>5, <1>6

(* Every step keeps the invariant; only a hit has something to prove.      *)
LEMMA StepKeepsLimit == RInv /\ [Next]_vars => RInv'
  <1> SUFFICES ASSUME RInv, [Next]_vars
               PROVE  RInv'
    OBVIOUS
  <1>1. TypeInv'
    BY StepTyped DEF RInv
  <1>2. ASSUME NEW p \in Passes, Hit(p)
        PROVE  RInv'
    BY <1>1, <1>2, HitKeepsLimit, HitKeepsRest DEF RInv
  <1>3. ASSUME UNCHANGED <<kept, recorded, at, next, cleared>>, clock' >= clock
        PROVE  RInv'
    <2>1. RateLimit' /\ ClearedIsRecorded' /\ ClearedInOrder'
      BY <1>3 DEF RInv, RateLimit, Shared, ClearedIsRecorded, ClearedInOrder
    <2>2. DroppedIsOld'
      <3> SUFFICES ASSUME NEW k \in Keys, NEW p \in recorded[k] \ kept[k],
                          NEW m \in 0 .. MaxTime, Shared(m)
                   PROVE  at[<<p, k>>] <= clock' - m
        BY <1>3 DEF DroppedIsOld, Shared
      <3>1. at[<<p, k>>] <= clock - m
        BY DEF RInv, DroppedIsOld
      <3>2. at[<<p, k>>] \in Int /\ clock \in Int /\ clock' \in Int
        BY <1>1 DEF RInv, TypeInv, TypeOK
      <3>3. QED
        BY <1>3, <3>1, <3>2
    <2>3. QED
      BY <1>1, <2>1, <2>2 DEF RInv
  <1>4. (\E p \in Passes : Begin(p) \/ NextKey(p)) \/ Tick \/ UNCHANGED vars
        => UNCHANGED <<kept, recorded, at, next, cleared>> /\ clock' >= clock
    <2>1. clock \in Int
      BY DEF RInv, TypeInv, TypeOK
    <2>2. (\E p \in Passes : Begin(p) \/ NextKey(p)) \/ UNCHANGED vars
          => UNCHANGED <<clock, kept, recorded, at, next, cleared>>
      BY DEF Begin, NextKey, vars
    <2>3. Tick => clock' = clock + 1 /\ UNCHANGED <<kept, recorded, at, next, cleared>>
      BY DEF Tick
    <2>4. QED
      BY <2>1, <2>2, <2>3
  <1>5. QED
    BY <1>2, <1>3, <1>4 DEF Next

(* The velocity limit holds for every interleaving of primary and shadow   *)
(* passes, less the longest wait for the lock (velocity.go:23-45): a hit   *)
(* that read its clock before a later hit pruned the list still counts     *)
(* everything that is close to it.                                         *)
THEOREM RateLimitHolds == Spec => []RateLimit
  <1>1. Init => RInv
    <2>1. Init => TypeInv
      BY VelocityAssumption DEF Init, TypeInv, TypeOK, Waiting
    <2>2. Init => DroppedIsOld /\ ClearedIsRecorded /\ ClearedInOrder
      BY DEF Init, DroppedIsOld, ClearedIsRecorded, ClearedInOrder
    <2>3. ASSUME Init PROVE RateLimit
      <3>1. \A k \in Keys : cleared[k] = {}
        BY <2>3 DEF Init
      <3>2. MaxCount["primary"] \in Nat
        BY VelocityAssumption
      <3> SUFFICES ASSUME NEW k \in Keys, NEW t \in -MaxTime .. MaxTime, NEW m \in 0 .. MaxTime
                   PROVE  Cardinality(Burst(k, t, m)) <= MaxCount["primary"]
        BY DEF RateLimit, Burst
      <3>3. Burst(k, t, m) = {}
        BY <3>1 DEF Burst
      <3>4. QED
        BY <3>2, <3>3, FS_EmptySet
    <2>4. QED
      BY <2>1, <2>2, <2>3 DEF RInv
  <1>2. RInv => RateLimit
    BY DEF RInv
  <1>3. QED
    BY <1>1, <1>2, StepKeepsLimit, PTL DEF Spec

-----------------------------------------------------------------------------
(* What the tracker holds was recorded; a pass hits a key once, and stops  *)
(* at the key that blocked it.                                             *)
KeptIsRecorded == \A k \in Keys : kept[k] \subseteq recorded[k]

RecordedInOrder ==
    \A k \in Keys : \A p \in recorded[k] :
        \E i \in 1 .. Len(KeysOf[p[1]]) :
            /\ KeysOf[p[1]][i] = k
            /\ i < next[p] \/ (i = next[p] /\ stage[p] = "block")

BlockedHasKey == \A p \in Passes : stage[p] = "block" => Key(p) \in Keys

(* The passes within the window of p that hit the key it is at.            *)
InWindow(p) ==
    {q \in recorded[Key(p)] : at[<<q, Key(p)>>] > at[<<p, Key(p)>>] - Window[PackOf(p)]}

BInv == TypeInv /\ KeptIsRecorded /\ RecordedInOrder /\ BlockedHasKey /\ BlocksAreCounted

LEMMA HitsOnce ==
  ASSUME BInv, NEW p \in Passes, stage[p] = "locking"
  PROVE  p \notin recorded[Key(p)]
  <1> SUFFICES ASSUME p \in recorded[Key(p)]
               PROVE  FALSE
    OBVIOUS
  <1>1. Key(p) \in Keys
    BY KeyType DEF BInv
  <1>2. PICK i \in 1 .. Len(KeysOf[p[1]]) : KeysOf[p[1]][i] = Key(p) /\ i < next[p]
    BY <1>1 DEF BInv, RecordedInOrder
  <1>3. next[p] \in 1 .. Len(KeysOf[p[1]]) /\ KeysOf[p[1]][next[p]] = Key(p)
    BY VelocityAssumption DEF BInv, TypeInv, TypeOK, Waiting, Key, Passes
  <1>4. i = next[p]
    BY <1>2, <1>3, VelocityAssumption DEF Passes
  <1>5. QED
    BY <1>2, <1>3, <1>4

(* The times a hit counts are those of its window.                         *)
LEMMA CountedIsInWindow ==
  ASSUME BInv, NEW p \in Passes, Hit(p)
  PROVE  Recent(Key(p), p) \cup {p} \subseteq InWindow(p)' \/ stage'[p] # "block"
  <1> DEFINE k == Key(p)
  <1>1. stage[p] = "locking" /\ k \in Keys
    BY KeyType DEF Hit, BInv
  <1>2. /\ recorded' = [recorded EXCEPT ![k] = @ \cup {p}]
        /\ at' = [at EXCEPT ![<<p, k>>] = now[p]]
    BY DEF Hit
  <1>3. SUFFICES ASSUME stage'[p] = "block", NEW q \in Recent(k, p) \cup {p}
                 PROVE  q \in InWindow(p)'
    OBVIOUS
  <1>4. next' = next
    BY <1>1, <1>3 DEF Hit, BInv, TypeInv, TypeOK
  <1>5. Key(p)' = k
    BY <1>4 DEF Key
  <1> HIDE DEF k
  <1>6. q \in Passes /\ q \in recorded'[k] /\ now[p] \in Int
    BY <1>1, <1>2 DEF Recent, BInv, KeptIsRecorded, TypeInv, TypeOK
  <1>7. at'[<<p, k>>] = now[p] /\ (q # p => at'[<<q, k>>] = at[<<q, k>>])
    BY <1>1, <1>2, <1>6 DEF BInv, TypeInv, TypeOK
  <1>8. Window[PackOf(p)] \in Nat \ {0}
    BY VelocityAssumption DEF PackOf, Passes
  <1>9. at'[<<q, k>>] > at'[<<p, k>>] - Window[PackOf(p)]
    BY <1>6, <1>7, <1>8 DEF Recent
  <1>10. QED
    BY <1>5, <1>6, <1>9 DEF InWindow

LEMMA HitKeepsBlocks ==
  ASSUME BInv, NEW p \in Passes, Hit(p), TypeInv'
  PROVE  BInv'
  <1> DEFINE k == Key(p)
  <1>1. stage[p] = "locking" /\ k \in Keys /\ p \notin recorded[k]
    BY KeyType, HitsOnce DEF Hit, BInv
  <1>2. /\ kept' = [kept EXCEPT ![k] = Recent(k, p) \cup {p}]
        /\ recorded' = [recorded EXCEPT ![k] = @ \cup {p}]
        /\ at' = [at EXCEPT ![<<p, k>>] = now[p]]
        /\ \/ /\ stage' = [stage EXCEPT ![p] = "block"]
              /\ next' = next
              /\ Cardinality(Recent(k, p) \cup {p}) > MaxCount[PackOf(p)]
           \/ /\ stage' = [stage EXCEPT ![p] = "check"]
              /\ next' = [next EXCEPT ![p] = @ + 1]
    BY DEF Hit
  <1>3. next[p] \in 1 .. Len(KeysOf[p[1]]) /\ KeysOf[p[1]][next[p]] = k
    BY <1>1, VelocityAssumption DEF BInv, TypeInv, TypeOK, Waiting, Key, Passes
  <1>4. \A q \in Passes \ {p} : stage'[q] = stage[q] /\ next'[q] = next[q] /\ Key(q)' = Key(q)
    BY <1>2 DEF BInv, TypeInv, TypeOK, Key
  <1>5. stage'[p] = "block" => next' = next /\ Key(p)' = k
    BY <1>2 DEF BInv, TypeInv, TypeOK, Key
  <1> HIDE DEF k
  <1>6. KeptIsRecorded'
    BY <1>1, <1>2 DEF BInv, KeptIsRecorded, Recent, TypeInv, TypeOK
  <1>7. RecordedInOrder'
    <2> SUFFICES ASSUME NEW l \in Keys, NEW q \in recorded'[l]
                 PROVE  \E i \in 1 .. Len(KeysOf[q[1]]) :
                            /\ KeysOf[q[1]][i] = l
                            /\ i < next'[q] \/ (i = next'[q] /\ stage'[q] = "block")
      BY DEF RecordedInOrder
    <2>1. q \in Passes
      BY <1>1, <1>2 DEF BInv, TypeInv, TypeOK
    <2>2. CASE q \in recorded[l] /\ q # p
      BY <1>4, <2>1, <2>2 DEF BInv, RecordedInOrder
    <2>3. CASE q = p /\ l # k
      <3>1. p \in recorded[l]
        BY <1>1, <1>2, <2>3 DEF BInv, TypeInv, TypeOK
      <3>2. PICK i \in 1 .. Len(KeysOf[p[1]]) : KeysOf[p[1]][i] = l /\ i < next[p]
        BY <1>1, <3>1 DEF BInv, RecordedInOrder
      <3>3. next[p] \in Nat /\ (next'[p] = next[p] \/ next'[p] = next[p] + 1)
        BY <1>2 DEF BInv, TypeInv, TypeOK
      <3>4. QED
        BY <2>3, <3>2, <3>3
    <2>4. CASE q = p /\ l = k
      <3>1. \/ next'[p] = next[p] /\ stage'[p] = "block"
            \/ next'[p] = next[p] + 1
        BY <1>2 DEF BInv, TypeInv, TypeOK
      <3>2. QED
        BY <1>3, <2>4, <3>1
    <2>5. QED
      BY <1>1, <1>2, <2>2, <2>3, <2>4 DEF BInv, TypeInv, TypeOK
  <1>8. BlockedHasKey'
    BY <1>1, <1>4, <1>5 DEF BInv, BlockedHasKey
  <1>9. ASSUME NEW q \in Passes, stage'[q] = "block"
        PROVE  Cardinality(InWindow(q)') > MaxCount[PackOf(q)]
    <2>1. IsFiniteSet(InWindow(q)')
      <3>1. Key(q)' \in Keys
        BY <1>8, <1>9 DEF BlockedHasKey
      <3>2. InWindow(q)' \subseteq Passes
        BY <3>1 DEF InWindow, TypeInv, TypeOK
      <3>3. QED
        BY <3>2, PassesFinite, FS_Subset
    <2>2. MaxCount[PackOf(q)] \in Nat
      BY VelocityAssumption DEF PackOf, Passes
    <2>3. CASE q = p
      <3>1. Recent(k, p) \cup {p} \subseteq InWindow(p)'
        BY <1>9, <2>3, CountedIsInWindow DEF k
      <3>2. Cardinality(Recent(k, p) \cup {p}) > MaxCount[PackOf(p)]
        BY <1>2, <1>9, <2>3 DEF BInv, TypeInv, TypeOK
      <3>3. QED
        BY <2>1, <2>2, <2>3, <3>1, <3>2, FS_Subset, FS_CardinalityType
    <2>4. CASE q # p
      <3>1. Key(q)' = Key(q) /\ Key(q) \in Keys /\ Cardinality(InWindow(q)) > MaxCount[PackOf(q)]
        BY <1>4, <1>9, <2>4 DEF BInv, BlockedHasKey, BlocksAreCounted, InWindow
      <3>2. InWindow(q) \subseteq InWindow(q)'
        <4> SUFFICES ASSUME NEW o \in InWindow(q)
                     PROVE  o \in InWindow(q)'
          OBVIOUS
        <4>1. o \in recorded[Key(q)] /\ o \in Passes
          BY <3>1 DEF InWindow, BInv, TypeInv, TypeOK
        <4>2. o \in recorded'[Key(q)]
          BY <1>1, <1>2, <3>1, <4>1 DEF BInv, TypeInv, TypeOK
        <4>3. at'[<<o, Key(q)>>] = at[<<o, Key(q)>>] /\ at'[<<q, Key(q)>>] = at[<<q, Key(q)>>]
          BY <1>1, <1>2, <2>4, <3>1, <4>1 DEF BInv, TypeInv, TypeOK
        <4>4. QED
          BY <3>1, <4>2, <4>3 DEF InWindow
      <3>3. QED
        BY <2>1, <2>2, <3>1, <3>2, FS_Subset, FS_CardinalityType
    <2>5. QED
      BY <2>3, <2>4
  <1>10. BlocksAreCounted'
    BY <1>9 DEF BlocksAreCounted, InWindow
  <1>11. QED
    BY <1>6, <1>7, <1>8, <1>10 DEF BInv

LEMMA StepKeepsBlocks == BInv /\ [Next]_vars => BInv'
  <1> SUFFICES ASSUME BInv, [Next]_vars
               PROVE  BInv'
    OBVIOUS
  <1>1. TypeInv'
    BY StepTyped DEF BInv
  <1>2. ASSUME NEW p \in Passes, Hit(p)
        PROVE  BInv'
    BY <1>1, <1>2, HitKeepsBlocks
  <1>3. ASSUME UNCHANGED <<kept, recorded, at, next>>,
               \A p \in Passes : (stage'[p] = "block") = (stage[p] = "block")
        PROVE  BInv'
    <2>1. \A p \in Passes : Key(p)' = Key(p)
      BY <1>3 DEF Key
    <2>2. KeptIsRecorded' /\ RecordedInOrder'
      <3>1. \A k \in Keys : recorded[k] \subseteq Passes
        BY DEF BInv, TypeInv, TypeOK
      <3>2. QED
        BY <1>3, <3>1 DEF BInv, KeptIsRecorded, RecordedInOrder
    <2>3. BlockedHasKey' /\ BlocksAreCounted'
      BY <1>3, <2>1 DEF BInv, BlockedHasKey, BlocksAreCounted
    <2>4. QED
      BY <1>1, <2>2, <2>3 DEF BInv
  <1>4. ASSUME NEW p \in Passes, Begin(p) \/ NextKey(p)
        PROVE  /\ UNCHANGED <<kept, recorded, at, next>>
               /\ \A q \in Passes : (stage'[q] = "block") = (stage[q] = "block")
    BY <1>4 DEF Begin, NextKey, BInv, TypeInv, TypeOK
  <1>5. Tick \/ UNCHANGED vars => UNCHANGED <<kept, recorded, at, next, stage>>
    BY DEF Tick, vars
  <1>6. QED
    BY <1>2, <1>3, <1>4, <1>5 DEF Next

LEMMA BlocksInvariant == Spec => []BInv
  <1>1. Init => BInv
    <2>1. Init => TypeInv
      BY VelocityAssumption DEF Init, TypeInv, TypeOK, Waiting
    <2>2. Init => KeptIsRecorded /\ RecordedInOrder /\ BlockedHasKey /\ BlocksAreCounted
      BY DEF Init, KeptIsRecorded, RecordedInOrder, BlockedHasKey, BlocksAreCounted
    <2>3. QED
      BY <2>1, <2>2 DEF BInv
  <1>2. QED
    BY <1>1, StepKeepsBlocks, PTL DEF Spec

(* Whatever the order of the critical sections and however old the clock   *)
(* readings are, a request is blocked only after more than MaxCount passes *)
(* hit the key within the window of the one that is blocked                *)
(* (velocity.go:27-44).                                                    *)
THEOREM BlocksAlwaysCounted == Spec => []BlocksAreCounted
  <1>1. BInv => BlocksAreCounted
    BY DEF BInv
  <1>2. QED
    BY <1>1, BlocksInvariant, PTL

-----------------------------------------------------------------------------
(* How far the shadow pack reaches into the primary pack's blocks.         *)

(* Without a shadow pack every block is earned: more requests than the     *)
(* limit hit the key in the window.  The shadow passes are the only cause  *)
(* of the unearned blocks TLC finds (velocity.go:27-44,                    *)
(* orchestrator.go: runShadowGeneric).                                     *)
THEOREM EarnedWithoutShadow ==
  ASSUME Packs = {"primary"}
  PROVE  Spec => []BlocksAreEarned
  <1>1. BInv => BlocksAreEarned
    <2> SUFFICES ASSUME BInv, NEW p \in Primary, stage[p] = "block"
                 PROVE  Cardinality({q \in recorded[Key(p)] \cap Primary :
                            at[<<q, Key(p)>>] > at[<<p, Key(p)>>] - Window["primary"]})
                          > MaxCount["primary"]
      BY DEF BlocksAreEarned
    <2>1. p \in Passes /\ PackOf(p) = "primary"
      BY DEF Primary, Passes, PackOf
    <2>2. Key(p) \in Keys
      BY <2>1 DEF BInv, BlockedHasKey
    <2>3. recorded[Key(p)] \subseteq Primary
      BY <2>2 DEF BInv, TypeInv, TypeOK, Passes, Primary
    <2>4. {q \in recorded[Key(p)] \cap Primary :
                at[<<q, Key(p)>>] > at[<<p, Key(p)>>] - Window["primary"]} = InWindow(p)
      BY <2>1, <2>3 DEF InWindow
    <2>5. Cardinality(InWindow(p)) > MaxCount["primary"]
      BY <2>1 DEF BInv, BlocksAreCounted, InWindow
    <2>6. QED
      BY <2>4, <2>5
  <1>2. QED
    BY <1>1, BlocksInvariant, PTL

(* The requests behind a block: those one of whose passes hit the key in   *)
(* the window of the blocked one.                                          *)
Behind(p) ==
    {r \in Requests : \E q \in recorded[Key(p)] :
        q[1] = r /\ at[<<q, Key(p)>>] > at[<<p, Key(p)>>] - Window[PackOf(p)]}

(* With a shadow pack a block may be unearned, but no more than by half:   *)
(* a request passes at most twice, so more than half of MaxCount different *)
(* requests hit the key in the window of whoever is blocked                *)
(* (velocity.go:27-44, cb_rules.go:98-115).                                *)
BlocksAreHalfEarned ==
    \A p \in Passes :
        stage[p] = "block" => 2 * Cardinality(Behind(p)) > MaxCount[PackOf(p)]

LEMMA AtMostTwoPacks ==
  IsFiniteSet(Packs) /\ Cardinality(Packs) \in Nat /\ Cardinality(Packs) <= 2
  <1>1. IsFiniteSet({"primary"}) /\ Cardinality({"primary"}) = 1
    BY FS_Singleton
  <1>2. /\ IsFiniteSet({"primary"} \cup {"shadow"})
        /\ Cardinality({"primary"} \cup {"shadow"}) = 2
    BY <1>1, FS_AddElement
  <1>3. Packs \in SUBSET ({"primary"} \cup {"shadow"})
    BY VelocityAssumption
  <1>4. IsFiniteSet(Packs) /\ Cardinality(Packs) <= Cardinality({"primary"} \cup {"shadow"})
    BY <1>2, <1>3, FS_Subset
  <1>5. QED
    BY <1>2, <1>4, FS_CardinalityType

(* For any limits and windows, and with the shadow pack, each block is at  *)
(* least half earned (velocity.go:27-44).                                  *)
THEOREM BlocksHalfEarned == Spec => []BlocksAreHalfEarned
  <1>1. BInv => BlocksAreHalfEarned
    <2> SUFFICES ASSUME BInv, NEW p \in Passes, stage[p] = "block"
                 PROVE  2 * Cardinality(Behind(p)) > MaxCount[PackOf(p)]
      BY DEF BlocksAreHalfEarned
    <2>1. Key(p) \in Keys
      BY DEF BInv, BlockedHasKey
    <2>2. InWindow(p) \subseteq Behind(p) \X Packs
      <3> SUFFICES ASSUME NEW q \in InWindow(p)
                   PROVE  q \in Behind(p) \X Packs
        OBVIOUS
      <3>1. q \in Requests \X Packs
        BY <2>1 DEF InWindow, BInv, TypeInv, TypeOK, Passes
      <3>2. q = <<q[1], q[2]>> /\ q[1] \in Requests /\ q[2] \in Packs
        BY <3>1
      <3>3. q[1] \in Behind(p)
        BY <3>2 DEF Behind, InWindow
      <3>4. QED
        BY <3>2, <3>3
    <2>3. IsFiniteSet(Behind(p)) /\ Cardinality(Behind(p)) \in Nat
      <3>1. Behind(p) \in SUBSET Requests /\ IsFiniteSet(Requests)
        BY VelocityAssumption DEF Behind
      <3>2. QED
        BY <3>1, FS_Subset, FS_CardinalityType
    <2>4. /\ IsFiniteSet(Behind(p) \X Packs)
          /\ Cardinality(Behind(p) \X Packs) = Cardinality(Behind(p)) * Cardinality(Packs)
      BY <2>3, AtMostTwoPacks, FS_Product
    <2>5. Cardinality(InWindow(p)) <= Cardinality(Behind(p)) * Cardinality(Packs)
          /\ Cardinality(InWindow(p)) \in Nat
      BY <2>2, <2>4, FS_Subset, FS_CardinalityType
    <2>6. Cardinality(Behind(p)) * Cardinality(Packs) <= 2 * Cardinality(Behind(p))
      <3>1. Cardinality(Packs) \in 0 .. 2
        BY AtMostTwoPacks
      <3>2. \A n \in Nat, m \in 0 .. 2 : n * m <= 2 * n
        BY SMTT(20)
      <3>3. QED
        BY <2>3, <3>1, <3>2
    <2>7. Cardinality(InWindow(p)) > MaxCount[PackOf(p)] /\ MaxCount[PackOf(p)] \in Nat
      BY VelocityAssumption DEF BInv, BlocksAreCounted, InWindow, PackOf, Passes
    <2>8. Cardinality(Behind(p)) * Cardinality(Packs) \in Nat
      BY <2>3, AtMostTwoPacks
    <2>9. QED
      BY <2>3, <2>5, <2>6, <2>7, <2>8
  <1>2. QED
    BY <1>1, BlocksInvariant, PTL

-----------------------------------------------------------------------------
(* The loop over the keys.                                                 *)

(* A pass is past the keys that let it through, and over after the last.   *)
ClearedBefore ==
    \A p \in Passes :
        /\ \A i \in 1 .. Len(KeysOf[p[1]]) : i < next[p] => p \in cleared[KeysOf[p[1]][i]]
        /\ stage[p] = "pass" => next[p] > Len(KeysOf[p[1]])

(* A request that passes was let through by every one of its keys; a hit   *)
(* that did not let it through blocks it; and the keys before a hit all    *)
(* let it through: a blocked request leaves the windows of its later keys  *)
(* as they were, whatever other requests do to them in between             *)
(* (cb_rules.go:101-115).                                                  *)
PassedEveryKey ==
    \A p \in Passes :
        \A j \in 1 .. Len(KeysOf[p[1]]) :
            LET k == KeysOf[p[1]][j]
            IN /\ stage[p] = "pass" => p \in cleared[k]
               /\ p \in recorded[k] =>
                    /\ p \notin cleared[k] => stage[p] = "block"
                    /\ \A i \in 1 .. j - 1 : p \in cleared[KeysOf[p[1]][i]]

LEMMA StepKeepsCleared == BInv /\ ClearedBefore /\ [Next]_vars => ClearedBefore'
  <1> SUFFICES ASSUME BInv, ClearedBefore, [Next]_vars, NEW q \in Passes
               PROVE  /\ \A i \in 1 .. Len(KeysOf[q[1]]) :
                            i < next'[q] => q \in cleared'[KeysOf[q[1]][i]]
                      /\ stage'[q] = "pass" => next'[q] > Len(KeysOf[q[1]])
    BY DEF ClearedBefore
  <1> USE DEF BInv, TypeInv, TypeOK
  <1>0. \A i \in 1 .. Len(KeysOf[q[1]]) : KeysOf[q[1]][i] \in Keys
    BY VelocityAssumption DEF Passes
  <1>1. ASSUME NEW p \in Passes, Hit(p)
        PROVE  /\ \A i \in 1 .. Len(KeysOf[q[1]]) :
                     i < next'[q] => q \in cleared'[KeysOf[q[1]][i]]
               /\ stage'[q] = "pass" => next'[q] > Len(KeysOf[q[1]])
    <2>1. stage[p] = "locking" /\ Key(p) \in Keys
      BY <1>1, KeyType DEF Hit
    <2>2. \A k \in Keys : cleared[k] \subseteq cleared'[k]
      BY <1>1, <2>1 DEF Hit
    <2>3. CASE q # p
      <3>1. next'[q] = next[q] /\ stage'[q] = stage[q]
        BY <1>1, <2>3 DEF Hit
      <3>2. QED
        BY <1>0, <2>2, <3>1 DEF ClearedBefore
    <2>4. CASE q = p /\ stage'[p] = "block"
      <3>1. next' = next
        BY <1>1, <2>1, <2>4 DEF Hit
      <3>2. QED
        BY <1>0, <2>2, <2>4, <3>1 DEF ClearedBefore
    <2>5. CASE q = p /\ stage'[p] # "block"
      <3>1. /\ next'[p] = next[p] + 1 /\ p \in cleared'[Key(p)] /\ stage'[p] = "check"
        BY <1>1, <2>1, <2>5 DEF Hit
      <3>2. ASSUME NEW i \in 1 .. Len(KeysOf[q[1]]), i < next'[q]
            PROVE  q \in cleared'[KeysOf[q[1]][i]]
        <4>1. i < next[p] \/ i = next[p]
          BY <2>5, <3>1, <3>2
        <4>2. CASE i < next[p]
          BY <1>0, <2>2, <2>5, <4>2 DEF ClearedBefore
        <4>3. CASE i = next[p]
          BY <2>5, <3>1, <4>3 DEF Key
        <4>4. QED
          BY <4>1, <4>2, <4>3
      <3>3. QED
        BY <2>5, <3>1, <3>2
    <2>6. QED
      BY <2>3, <2>4, <2>5
  <1>2. ASSUME NEW p \in Passes, NextKey(p)
        PROVE  /\ UNCHANGED <<next, cleared>>
               /\ stage'[q] = "pass" => next'[q] > Len(KeysOf[q[1]])
    BY <1>2 DEF NextKey, ClearedBefore
  <1>3. (\E p \in Passes : Begin(p)) \/ Tick \/ UNCHANGED vars
        => /\ UNCHANGED <<next, cleared>>
           /\ stage'[q] = "pass" => stage[q] = "pass"
    BY DEF Begin, Tick, vars
  <1>4. QED
    BY <1>1, <1>2, <1>3 DEF Next, ClearedBefore

(* For any keys and interleaving, a pass that is let through was let       *)
(* through by each of its keys (cb_rules.go:101-115).                      *)
THEOREM PassesEveryKey == Spec => []PassedEveryKey
  <1>1. Init => ClearedBefore
    BY DEF Init, ClearedBefore
  <1>2. Spec => []ClearedBefore
    BY <1>1, StepKeepsCleared, BlocksInvariant, PTL DEF Spec
  <1>3. BInv /\ ClearedBefore => PassedEveryKey
    <2> SUFFICES ASSUME BInv, ClearedBefore, NEW p \in Passes,
                        NEW j \in 1 .. Len(KeysOf[p[1]])
                 PROVE  LET k == KeysOf[p[1]][j]
                        IN /\ stage[p] = "pass" => p \in cleared[k]
                           /\ p \in recorded[k] =>
                                /\ p \notin cleared[k] => stage[p] = "block"
                                /\ \A i \in 1 .. j - 1 : p \in cleared[KeysOf[p[1]][i]]
      BY DEF PassedEveryKey
    <2> DEFINE k == KeysOf[p[1]][j]
    <2>1. next[p] \in Nat /\ Len(KeysOf[p[1]]) \in Nat
      BY VelocityAssumption DEF BInv, TypeInv, TypeOK, Passes
    <2>2. stage[p] = "pass" => p \in cleared[k]
      BY <2>1 DEF ClearedBefore
    <2>3. ASSUME p \in recorded[k]
          PROVE  j < next[p] \/ (j = next[p] /\ stage[p] = "block")
      <3>1. k \in Keys
        BY VelocityAssumption DEF Passes
      <3>2. PICK i \in 1 .. Len(KeysOf[p[1]]) :
                /\ KeysOf[p[1]][i] = k
                /\ i < next[p] \/ (i = next[p] /\ stage[p] = "block")
        BY <2>3, <3>1 DEF BInv, RecordedInOrder
      <3>3. i = j
        BY <3>2, VelocityAssumption DEF Passes
      <3>4. QED
        BY <3>2, <3>3
    <2>4. ASSUME p \in recorded[k]
          PROVE  /\ p \notin cleared[k] => stage[p] = "block"
                 /\ \A i \in 1 .. j - 1 : p \in cleared[KeysOf[p[1]][i]]
      BY <2>1, <2>3, <2>4 DEF ClearedBefore
    <2>5. QED
      BY <2>2, <2>4
  <1>4. QED
    BY <1>2, <1>3, BlocksInvariant, PTL
=============================================================================
