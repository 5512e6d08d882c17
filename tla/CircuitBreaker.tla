--------------------------- MODULE CircuitBreaker ---------------------------
(***************************************************************************)
(* The circuit breaker in front of the deep runtime (workflow/circuit.go)  *)
(* and the way Orchestrate uses it: a request goroutine asks Allow, runs   *)
(* the deep call, and reports exactly one of Success and Fail when the     *)
(* call returns (workflow/orchestrator.go, lines 66-89).  Each method runs *)
(* under the mutex, but Allow and the report are two separate critical     *)
(* sections with a call of many seconds between them, so the calls that    *)
(* were let in before the breaker opened report while it is open.          *)
(*                                                                         *)
(* Time: the code compares time.Now() with openUntil.  Only the difference *)
(* matters, so the model keeps openLeft, the time left until openUntil (0  *)
(* once it has passed), and Elapse takes one unit of it away.              *)
(* The totalOpen field is a statistic that no decision reads: left out.    *)
(***************************************************************************)
EXTENDS Integers

CONSTANTS
    Callers,        \* the request goroutines that may call the deep runtime
    BreakerFailures,\* CircuitFailureThreshold of the pack read at start-up
    BreakerOpenSec  \* CircuitOpenSec of the same pack

ASSUME BreakerAssumption ==
    /\ BreakerFailures \in Int
    /\ BreakerOpenSec \in Int

VARIABLES
    failures,   \* failures counted since the last success or opening
    openLeft,   \* time left of the current open window, 0 when closed
    call        \* call[c]: "idle", "inflight" between Allow and the report, then
                \* how the last deep call ended: "succeeded" or "failed"

vars == <<failures, openLeft, call>>
breakerVars == <<failures, openLeft>>

(* NewCircuitBreaker replaces a parameter that is not positive.            *)
Threshold == IF BreakerFailures <= 0 THEN 5 ELSE BreakerFailures
OpenFor   == IF BreakerOpenSec <= 0 THEN 30 ELSE BreakerOpenSec

IsOpen == openLeft > 0
InFlight == {c \in Callers : call[c] = "inflight"}

(* The type of the state.  failures stays below the threshold: reaching it *)
(* opens the breaker and clears the count in the same critical section.    *)
TypeOK ==
    /\ failures \in 0 .. Threshold - 1
    /\ openLeft \in 0 .. OpenFor
    /\ call \in [Callers -> {"idle", "inflight", "succeeded", "failed"}]

Init ==
    /\ failures = 0
    /\ openLeft = 0
    /\ call = [c \in Callers |-> "idle"]

-----------------------------------------------------------------------------
(* The critical sections of the breaker's methods.                         *)

(* Variant: an open breaker lets calls in.                                 *)
AllowAlways == TRUE

Allow == ~IsOpen

(* Variant: a success forgets nothing.                                     *)
RecordSuccessKeeps == UNCHANGED <<failures, openLeft>>

RecordSuccess ==
    /\ failures' = 0
    /\ UNCHANGED openLeft

(* Variant: an opening keeps the count.                                    *)
RecordFailureKeeps ==
    /\ failures' = failures + 1
    /\ openLeft' = IF failures + 1 >= Threshold THEN OpenFor ELSE openLeft

RecordFailure ==
    \/ /\ failures + 1 < Threshold
       /\ failures' = failures + 1
       /\ UNCHANGED openLeft
    \/ /\ failures + 1 >= Threshold
       /\ failures' = 0
       /\ openLeft' = OpenFor

-----------------------------------------------------------------------------
(* The callers.  A refused caller changes nothing: it falls back to the    *)
(* local verdict and never touches the breaker again.  A report tells how  *)
(* the deep call ended: Fail if it did with an error, Success otherwise.   *)

Admit(c) ==
    /\ call[c] # "inflight"
    /\ Allow
    /\ call' = [call EXCEPT ![c] = "inflight"]
    /\ UNCHANGED breakerVars

ReportSuccess(c) ==
    /\ call[c] = "inflight"
    /\ RecordSuccess
    /\ call' = [call EXCEPT ![c] = "succeeded"]

ReportFailure(c) ==
    /\ call[c] = "inflight"
    /\ RecordFailure
    /\ call' = [call EXCEPT ![c] = "failed"]

Elapse ==
    /\ IsOpen
    /\ openLeft' = openLeft - 1
    /\ UNCHANGED <<failures, call>>

Next ==
    \/ \E c \in Callers : Admit(c) \/ ReportSuccess(c) \/ ReportFailure(c)
    \/ Elapse

Spec == Init /\ [][Next]_vars

(* Time passes whatever the callers do.                                    *)
FairSpec == Spec /\ WF_vars(Elapse)

-----------------------------------------------------------------------------
(* An open window ends: the calls let in before it opened may report into  *)
(* it and extend it (Fail sets openUntil again), but while it is open      *)
(* Allow lets no further call in, so the extensions run out and the deep   *)
(* runtime is tried again (circuit.go:28-61).                              *)
WindowCloses == IsOpen ~> ~IsOpen
=============================================================================
