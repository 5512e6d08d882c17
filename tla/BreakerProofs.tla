---------------------------- MODULE BreakerProofs ----------------------------
(* Proofs about the circuit breaker, for any finite set of callers and any *)
(* configured threshold and window.                                        *)
EXTENDS BreakerHistory, FiniteSetTheorems, TLAPS

(* NewCircuitBreaker's defaults make both parameters positive.             *)
LEMMA PositiveParameters == Threshold \in Nat \ {0} /\ OpenFor \in Nat \ {0}
  BY BreakerAssumption DEF Threshold, OpenFor

(* The calls out are a finite set, at most all the callers.                *)
LEMMA InFlightFinite ==
    /\ IsFiniteSet(InFlight)
    /\ Cardinality(InFlight) \in Nat
    /\ Cardinality(Callers) \in Nat
    /\ Cardinality(InFlight) <= Cardinality(Callers)
  BY CallersFinite, FS_Subset, FS_CardinalityType DEF InFlight

(* Letting a call in adds it to the calls out.                             *)
LEMMA AdmitAddsOne ==
  ASSUME TypeOK, NEW c \in Callers, Admit(c)
  PROVE  InFlight' = InFlight \cup {c}
  BY DEF TypeOK, Admit, InFlight

(* A report takes exactly the reporting call out of the calls out.         *)
LEMMA ReportRemovesOne ==
  ASSUME TypeOK, NEW c \in Callers, ReportSuccess(c) \/ ReportFailure(c)
  PROVE  /\ c \in InFlight
         /\ InFlight' = InFlight \ {c}
         /\ Cardinality(InFlight') = Cardinality(InFlight) - 1
  <1>1. c \in InFlight /\ InFlight' = InFlight \ {c}
    BY DEF TypeOK, ReportSuccess, ReportFailure, InFlight
  <1>2. QED
    BY <1>1, InFlightFinite, FS_RemoveElement

-----------------------------------------------------------------------------
(* The breaker's state and its history stay within their types: in         *)
(* particular the failure count never reaches the threshold                *)
(* (circuit.go:55-60).                                                     *)
THEOREM HTypeCorrect == HSpec => []HTypeOK
  <1>1. HInit => HTypeOK
    BY PositiveParameters DEF HInit, Init, HTypeOK, TypeOK
  <1>2. HTypeOK /\ [HNext]_hvars => HTypeOK'
    <2> SUFFICES ASSUME HTypeOK, [HNext]_hvars
                 PROVE  HTypeOK'
      OBVIOUS
    <2> USE PositiveParameters DEF HTypeOK, TypeOK
    <2>1. ASSUME NEW c \in Callers, HAdmit(c)
          PROVE  HTypeOK'
      BY <2>1 DEF HAdmit, Admit, breakerVars
    <2>2. ASSUME NEW c \in Callers, HReportSuccess(c)
          PROVE  HTypeOK'
      BY <2>2 DEF HReportSuccess, ReportSuccess, RecordSuccess
    <2>3. ASSUME NEW c \in Callers, HReportFailure(c)
          PROVE  HTypeOK'
      BY <2>3 DEF HReportFailure, ReportFailure, RecordFailure
    <2>4. CASE HElapse
      BY <2>4 DEF HElapse, Elapse, IsOpen
    <2>5. CASE UNCHANGED hvars
      BY <2>5 DEF hvars
    <2>6. QED
      BY <2>1, <2>2, <2>3, <2>4, <2>5 DEF HNext
  <1>3. QED
    BY <1>1, <1>2, PTL DEF HSpec

(* The fuel for further openings is never more than the failures counted   *)
(* before the last admission plus one report per caller.                   *)
THEOREM FuelInvariant == HSpec => []Fuel
  <1>1. HInit => Fuel
    <2> SUFFICES ASSUME HInit PROVE Fuel
      OBVIOUS
    <2>1. InFlight = {}
      BY DEF HInit, Init, InFlight
    <2>2. QED
      BY <2>1, FS_EmptySet, InFlightFinite, PositiveParameters DEF HInit, Init, Fuel
  <1>2. HTypeOK /\ HTypeOK' /\ Fuel /\ [HNext]_hvars => Fuel'
    <2> SUFFICES ASSUME HTypeOK, HTypeOK', Fuel, [HNext]_hvars
                 PROVE  Fuel'
      OBVIOUS
    <2> USE PositiveParameters, InFlightFinite
    <2>0. /\ failures \in 0 .. Threshold - 1 /\ failures' \in 0 .. Threshold - 1
          /\ reopenings \in Nat /\ reopenings' \in Nat
          /\ Cardinality(InFlight') \in Nat
          /\ Cardinality(InFlight') <= Cardinality(Callers)
      <3>1. InFlight' \in SUBSET Callers
        BY DEF InFlight
      <3>2. QED
        BY <3>1, CallersFinite, FS_Subset, FS_CardinalityType DEF HTypeOK, TypeOK
    <2>1. ASSUME NEW c \in Callers, HAdmit(c)
          PROVE  Fuel'
      BY <2>0, <2>1 DEF HAdmit, Fuel
    <2>2. ASSUME NEW c \in Callers, HReportSuccess(c)
          PROVE  Fuel'
      <3>1. Cardinality(InFlight') = Cardinality(InFlight) - 1
        BY <2>2, ReportRemovesOne DEF HReportSuccess, HTypeOK
      <3>2. failures' = 0 /\ reopenings' = reopenings
        BY <2>2 DEF HReportSuccess, ReportSuccess, RecordSuccess
      <3>3. QED
        BY <2>0, <3>1, <3>2 DEF Fuel
    <2>3. ASSUME NEW c \in Callers, HReportFailure(c)
          PROVE  Fuel'
      <3>1. Cardinality(InFlight') = Cardinality(InFlight) - 1
        BY <2>3, ReportRemovesOne DEF HReportFailure, HTypeOK
      <3>2. CASE failures + 1 < Threshold
        <4>1. failures' = failures + 1 /\ reopenings' = reopenings
          BY <2>0, <2>3, <3>2 DEF HReportFailure, ReportFailure, RecordFailure
        <4>2. QED
          BY <2>0, <3>1, <4>1 DEF Fuel
      <3>3. CASE failures + 1 >= Threshold
        <4>1. failures' = 0 /\ reopenings' = reopenings + 1
          BY <2>0, <2>3, <3>3 DEF HReportFailure, ReportFailure, RecordFailure
        <4>2. failures = Threshold - 1
          BY <2>0, <3>3
        <4>3. (reopenings + 1) * Threshold = reopenings * Threshold + Threshold
          BY <2>0
        <4>4. reopenings * Threshold \in Nat
          BY <2>0
        <4>5. QED
          BY <2>0, <3>1, <4>1, <4>2, <4>3, <4>4 DEF Fuel
      <3>4. QED
        BY <2>0, <3>2, <3>3
    <2>4. CASE HElapse
      BY <2>4 DEF HElapse, Elapse, Fuel, InFlight
    <2>5. CASE UNCHANGED hvars
      BY <2>5 DEF hvars, Fuel, InFlight
    <2>6. QED
      BY <2>1, <2>2, <2>3, <2>4, <2>5 DEF HNext
  <1>3. QED
    BY <1>1, <1>2, HTypeCorrect, PTL DEF HSpec

(* Calls admitted before an opening cannot keep the breaker open for ever: *)
(* the number of openings without a new admission is bounded by the number *)
(* of callers, whatever the threshold and the interleaving of the reports. *)
THEOREM StragglersBounded == HSpec => []StragglersExhaust
  <1>1. HTypeOK /\ Fuel => StragglersExhaust
    <2> SUFFICES ASSUME HTypeOK, Fuel PROVE StragglersExhaust
      OBVIOUS
    <2>1. reopenings * Threshold \in Nat /\ failures \in Nat /\ Threshold \in Nat
      BY PositiveParameters DEF HTypeOK, TypeOK
    <2>2. QED
      BY <2>1, InFlightFinite DEF Fuel, StragglersExhaust
  <1>2. QED
    BY <1>1, HTypeCorrect, FuelInvariant, PTL

-----------------------------------------------------------------------------
(* The failures counted towards an opening are consecutive: there are at   *)
(* least as many failures since the last success.                          *)
CountedAreConsecutive == failures <= streak

(* An opening is always preceded by Threshold failures in a row.           *)
THEOREM ConsecutiveFailures == HSpec => OpensOnlyAfterConsecutiveFailures
  <1>1. HInit => CountedAreConsecutive
    BY DEF HInit, Init, CountedAreConsecutive
  <1>2. HTypeOK /\ CountedAreConsecutive /\ [HNext]_hvars
          => /\ CountedAreConsecutive'
             /\ openLeft' > openLeft => streak' >= Threshold
    <2> SUFFICES ASSUME HTypeOK, CountedAreConsecutive, [HNext]_hvars
                 PROVE  /\ CountedAreConsecutive'
                        /\ openLeft' > openLeft => streak' >= Threshold
      OBVIOUS
    <2> USE PositiveParameters DEF HTypeOK, TypeOK, CountedAreConsecutive
    <2>1. ASSUME NEW c \in Callers, HAdmit(c)
          PROVE  failures' <= streak' /\ openLeft' = openLeft
      BY <2>1 DEF HAdmit, Admit, breakerVars
    <2>2. ASSUME NEW c \in Callers, HReportSuccess(c)
          PROVE  failures' <= streak' /\ openLeft' = openLeft
      BY <2>2 DEF HReportSuccess, ReportSuccess, RecordSuccess
    <2>3. ASSUME NEW c \in Callers, HReportFailure(c)
          PROVE  /\ failures' <= streak'
                 /\ openLeft' > openLeft => streak' >= Threshold
      BY <2>3 DEF HReportFailure, ReportFailure, RecordFailure
    <2>4. CASE HElapse
      BY <2>4 DEF HElapse, Elapse, IsOpen
    <2>5. CASE UNCHANGED hvars
      BY <2>5 DEF hvars
    <2>6. QED
      BY <2>1, <2>2, <2>3, <2>4, <2>5 DEF HNext
  <1>3. QED
    BY <1>1, <1>2, HTypeCorrect, PTL DEF HSpec, OpensOnlyAfterConsecutiveFailures
=============================================================================
