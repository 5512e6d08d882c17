------------------------------- MODULE Velocity -------------------------------
(***************************************************************************)
(* The velocity rule: VelocityTracker.Hit (workflow/velocity.go) and its   *)
(* callers, the loop over the keys of a transaction at the end of          *)
(* ApplyFastFilter (workflow/cb_rules.go) and the account of a stock       *)
(* order (workflow/stock_rules.go).                                        *)
(*                                                                         *)
(* A request is checked by its primary pack and, when the shadow is        *)
(* enabled, once more by the shadow pack, in a goroutine started after the *)
(* answer; both use the tracker of the engine.  Such a pass hits the       *)
(* request's keys one after the other until one is over the pack's limit.  *)
(* Hit reads the clock BEFORE it takes the lock, so hits are recorded in   *)
(* another order than their times; a read of the clock and the critical    *)
(* section are two steps here.                                             *)
(*                                                                         *)
(* The tracker keeps a list of times per key and uses its length and the   *)
(* times after a cutoff, never the order: the model keeps the set of the   *)
(* passes recorded, with their times.  A pass hits a key once: the keys of *)
(* a request have different prefixes.                                      *)
(***************************************************************************)
EXTENDS Integers, Sequences, FiniteSets

CONSTANTS
    Requests,
    Keys,         \* tracker keys: accounts, devices, address and party
    KeysOf,       \* KeysOf[r]: velocityKeys of a request, in order
    Packs,        \* the packs that check a request: "primary", maybe "shadow"
    Window,       \* Window[p]: VelocityWindowSec of pack p (60 if not positive)
    MaxCount,     \* MaxCount[p]: VelocityMaxCount of pack p
    MaxWait,      \* the longest wait for the tracker's lock
    MaxTime       \* bound on the clock

ASSUME VelocityAssumption ==
    /\ IsFiniteSet(Requests)
    /\ KeysOf \in [Requests -> Seq(Keys)]
    /\ \A r \in Requests : \A i, j \in 1 .. Len(KeysOf[r]) :
            KeysOf[r][i] = KeysOf[r][j] => i = j
    /\ Packs \subseteq {"primary", "shadow"}
    /\ "primary" \in Packs
    /\ Window \in [Packs -> Nat \ {0}]
    /\ MaxCount \in [Packs -> Nat]
    /\ MaxWait \in Nat
    /\ MaxTime \in Nat

Passes == Requests \X Packs
Primary == Requests \X {"primary"}

VARIABLES
    clock,
    kept,      \* kept[k]: the passes whose times the tracker still holds for k
    recorded,  \* recorded[k]: every pass that ever hit k (history)
    at,        \* at[<<p, k>>]: the time recorded by pass p for key k
    stage,     \* stage[p]: "idle", "check", "locking", "pass" or "block"
    next,      \* next[p]: position of the key to hit
    now,       \* now[p]: the clock as read for the hit under way
    cleared    \* cleared[k]: the passes that k let through (history)

vars == <<clock, kept, recorded, at, stage, next, now, cleared>>

PackOf(p) == p[2]
Key(p) == KeysOf[p[1]][next[p]]
Finished(p) == stage[p] \in {"pass", "block"}

(* Every variable keeps its type; the model's clock stays in its bound.    *)
TypeOK ==
    /\ clock \in 0 .. MaxTime
    /\ kept \in [Keys -> SUBSET Passes]
    /\ recorded \in [Keys -> SUBSET Passes]
    /\ at \in [Passes \X Keys -> 0 .. MaxTime]
    /\ stage \in [Passes -> {"idle", "check", "locking", "pass", "block"}]
    /\ next \in [Passes -> Nat \ {0}]
    /\ now \in [Passes -> 0 .. MaxTime]
    /\ cleared \in [Keys -> SUBSET Passes]

Init ==
    /\ clock = 0
    /\ kept = [k \in Keys |-> {}]
    /\ recorded = [k \in Keys |-> {}]
    /\ at = [x \in Passes \X Keys |-> 0]
    /\ stage = [p \in Passes |-> "idle"]
    /\ next = [p \in Passes |-> 1]
    /\ now = [p \in Passes |-> 0]
    /\ cleared = [k \in Keys |-> {}]

-----------------------------------------------------------------------------
(* The request reaches its velocity rule; the shadow pass starts when the  *)
(* primary one is over.                                                    *)
Begin(p) ==
    /\ stage[p] = "idle"
    /\ PackOf(p) = "shadow" => Finished(<<p[1], "primary">>)
    /\ stage' = [stage EXCEPT ![p] = "check"]
    /\ UNCHANGED <<clock, kept, recorded, at, next, now, cleared>>

(* Variant: the cutoff is kept in place of the time.                       *)
NextKeyCutoff(p) ==
    /\ stage[p] = "check"
    /\ \/ /\ next[p] > Len(KeysOf[p[1]])
          /\ stage' = [stage EXCEPT ![p] = "pass"]
          /\ UNCHANGED now
       \/ /\ next[p] <= Len(KeysOf[p[1]])
          /\ now' = [now EXCEPT ![p] = clock - Window[PackOf(p)]]
          /\ stage' = [stage EXCEPT ![p] = "locking"]
    /\ UNCHANGED <<clock, kept, recorded, at, next, cleared>>

(* The top of the loop: no key is left, or Hit reads the clock.            *)
NextKey(p) ==
    /\ stage[p] = "check"
    /\ \/ /\ next[p] > Len(KeysOf[p[1]])
          /\ stage' = [stage EXCEPT ![p] = "pass"]
          /\ UNCHANGED now
       \/ /\ next[p] <= Len(KeysOf[p[1]])
          /\ now' = [now EXCEPT ![p] = clock]
          /\ stage' = [stage EXCEPT ![p] = "locking"]
    /\ UNCHANGED <<clock, kept, recorded, at, next, cleared>>

(* Variants: no time is ever dropped; the window is not subtracted.        *)
RecentUnpruned(k, p) == kept[k]
RecentNoWindow(k, p) == {q \in kept[k] : at[<<q, k>>] > now[p]}

(* The times after the cutoff. *)
Recent(k, p) == {q \in kept[k] : at[<<q, k>>] > now[p] - Window[PackOf(p)]}

(* The critical section of Hit, and what the caller makes of the count: a  *)
(* count over the limit blocks the request and leaves the other keys alone *)
(* (the attempt stays recorded).                                           *)
Hit(p) ==
    LET k == Key(p)
        count == Cardinality(Recent(k, p) \cup {p})
        over == count > MaxCount[PackOf(p)]
    IN /\ stage[p] = "locking"
       /\ kept' = [kept EXCEPT ![k] = Recent(k, p) \cup {p}]
       /\ recorded' = [recorded EXCEPT ![k] = @ \cup {p}]
       /\ at' = [at EXCEPT ![<<p, k>>] = now[p]]
       /\ \/ /\ over
             /\ stage' = [stage EXCEPT ![p] = "block"]
             /\ UNCHANGED <<next, cleared>>
          \/ /\ ~over
             /\ stage' = [stage EXCEPT ![p] = "check"]
             /\ next' = [next EXCEPT ![p] = @ + 1]
             /\ cleared' = [cleared EXCEPT ![k] = @ \cup {p}]
       /\ UNCHANGED <<clock, now>>

(* Time passes, but nobody waits for the lock longer than MaxWait.         *)
Tick ==
    /\ clock < MaxTime
    /\ \A p \in Passes : stage[p] = "locking" => clock - now[p] < MaxWait
    /\ clock' = clock + 1
    /\ UNCHANGED <<kept, recorded, at, stage, next, now, cleared>>

Next ==
    \/ \E p \in Passes : Begin(p) \/ NextKey(p) \/ Hit(p)
    \/ Tick

Spec == Init /\ [][Next]_vars

-----------------------------------------------------------------------------
(* Any two packs agree on at least this much past.                         *)
Shared(m) == \A p \in Packs : m <= Window[p]

(* The limit holds over every interval the windows of all packs cover,     *)
(* less the longest wait for the lock: however the passes interleave and   *)
(* prune each other's times, at most MaxCount of the primary pack's checks *)
(* of a key were let through with times in it (velocity.go:23-45).         *)
RateLimit ==
    \A k \in Keys, t \in -MaxTime .. MaxTime, m \in 0 .. MaxTime :
        Shared(m) =>
            Cardinality({p \in cleared[k] \cap Primary :
                            at[<<p, k>>] > t /\ at[<<p, k>>] <= t + m - MaxWait})
                <= MaxCount["primary"]

(* A block counts passes of the window only, never times that another pass *)
(* should have pruned or a slower clock reading brought back: whatever the *)
(* order of the critical sections, more than MaxCount passes hit the key   *)
(* within the window of the pass that is blocked (velocity.go:27-44).      *)
BlocksAreCounted ==
    \A p \in Passes :
        stage[p] = "block" =>
            Cardinality({q \in recorded[Key(p)] :
                            at[<<q, Key(p)>>] > at[<<p, Key(p)>>] - Window[PackOf(p)]})
                > MaxCount[PackOf(p)]

(* A request is blocked for its own kind only: the primary pack counted    *)
(* more requests than its limit in its window.  tools/types.go:128 says of *)
(* the shadow that it does not affect the main decision.                   *)
BlocksAreEarned ==
    \A p \in Primary :
        stage[p] = "block" =>
            Cardinality({q \in recorded[Key(p)] \cap Primary :
                            at[<<q, Key(p)>>] > at[<<p, Key(p)>>] - Window["primary"]})
                > MaxCount["primary"]
=============================================================================
