------------------------------- MODULE DeepCall -------------------------------
(***************************************************************************)
(* What the orchestrator may expect of DeepRuntime.Invoke, without saying  *)
(* how it is done: a call under a deadline ends once, with an output while *)
(* time is left, or with an error.                                         *)
(***************************************************************************)
EXTENDS Naturals

CONSTANT Deadline   \* DeepTimeoutMs

VARIABLES
    phase,     \* "idle", "running", "output", "error"
    timeLeft   \* until the deadline

call == <<phase, timeLeft>>

CInit == phase = "idle" /\ timeLeft = Deadline

Start ==
    /\ phase = "idle"
    /\ phase' = "running"
    /\ UNCHANGED timeLeft

(* Time passes; a client that goes away ends it at once.                   *)
Elapse ==
    /\ phase = "running"
    /\ timeLeft > 0
    /\ timeLeft' \in 0 .. timeLeft - 1
    /\ UNCHANGED phase

Return ==
    /\ phase = "running"
    /\ timeLeft > 0
    /\ phase' = "output"
    /\ UNCHANGED timeLeft

GiveUp ==
    /\ phase = "running"
    /\ phase' = "error"
    /\ UNCHANGED timeLeft

CNext == Start \/ Elapse \/ Return \/ GiveUp

CSafe == CInit /\ [][CNext]_call

(* A call that has begun ends.                                             *)
CSpec == CSafe /\ WF_call(Elapse \/ Return \/ GiveUp)
=============================================================================
