--------------------------- MODULE BreakerHistory ---------------------------
(***************************************************************************)
(* CircuitBreaker with two history variables, for the properties that      *)
(* relate an opening to the reports that led to it.  They observe the      *)
(* breaker and no action reads them.                                       *)
(***************************************************************************)
EXTENDS CircuitBreaker, FiniteSets

ASSUME CallersFinite == IsFiniteSet(Callers)

VARIABLES
    streak,     \* failures reported since the last success, up to Threshold
    reopenings  \* openings since a call was last let in

hvars == <<failures, openLeft, call, streak, reopenings>>

HTypeOK ==
    /\ TypeOK
    /\ streak \in 0 .. Threshold
    /\ reopenings \in Nat

HInit ==
    /\ Init
    /\ streak = 0
    /\ reopenings = 0

HAdmit(c) ==
    /\ Admit(c)
    /\ reopenings' = 0
    /\ UNCHANGED streak

HReportSuccess(c) ==
    /\ ReportSuccess(c)
    /\ streak' = 0
    /\ UNCHANGED reopenings

HReportFailure(c) ==
    /\ ReportFailure(c)
    /\ streak' = IF streak < Threshold THEN streak + 1 ELSE Threshold
    /\ reopenings' = IF failures + 1 >= Threshold
                        THEN reopenings + 1 ELSE reopenings

HElapse ==
    /\ Elapse
    /\ UNCHANGED <<streak, reopenings>>

HNext ==
    \/ \E c \in Callers : HAdmit(c) \/ HReportSuccess(c) \/ HReportFailure(c)
    \/ HElapse

HSpec == HInit /\ [][HNext]_hvars
HFairSpec == HSpec /\ WF_hvars(HElapse)

-----------------------------------------------------------------------------
(* The calls let in before the breaker opened can open it again after the  *)
(* window they were admitted in, but only (Threshold - 1 + calls) / Threshold *)
(* times before a new call has to be let in: each of them reports once and *)
(* an opening uses Threshold reports up (circuit.go:49-61).                *)
StragglersExhaust ==
    reopenings * Threshold < Threshold + Cardinality(Callers)

(* The inductive form: failures already counted and calls still out are    *)
(* the only fuel for further openings.                                     *)
Fuel ==
    reopenings * Threshold + failures + Cardinality(InFlight)
        <= Threshold - 1 + Cardinality(Callers)

(* The breaker opens only on consecutive failures (circuit.go:8): between  *)
(* the last success and an opening at least Threshold calls failed,        *)
(* whatever the order in which concurrent calls come back.                 *)
OpensOnlyAfterConsecutiveFailures ==
    [][openLeft' > openLeft => streak' >= Threshold]_hvars
=============================================================================
