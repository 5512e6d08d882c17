--------------------------- MODULE ReviewCaseProofs ---------------------------
(***************************************************************************)
(* ReviewCase implements CaseLedger, for any number of cases and calls,    *)
(* and CaseLedger has one winner a case.                                   *)
(***************************************************************************)
EXTENDS ReviewCase, TLAPS

(* A case that is not filed yet has no row, an open row has no resolver.   *)
RowInv ==
    \A c \in Cases :
        /\ filing[c] = "todo" => row[c].status = "absent"
        /\ row[c].status = "OPEN" => row[c].resolver = Nobody

(* The resolver of a row is a call about this case that got past UPDATE.   *)
ResolverInv ==
    \A c \in Cases, a \in Attempts :
        (row[c].status # "absent" /\ row[c].resolver = a) =>
            /\ call[a].stage \in {"updated", "won", "error"}
            /\ call[a].case = c

(* A call that got past UPDATE closed its case with its verdict.           *)
CallHonest(a) ==
    /\ call[a].stage \in {"asked", "updated", "won"} => call[a].verdict \in Final
    /\ call[a].stage \in {"updated", "won"} =>
        /\ row[call[a].case].status = call[a].verdict
        /\ row[call[a].case].resolver = a
    /\ call[a].stage = "refused" => row[call[a].case].status # "OPEN"
    /\ call[a].stage # "idle" => filing[call[a].case] # "todo"
    /\ call[a].stage = "won" =>
        /\ call[a].shown.status = call[a].verdict
        /\ call[a].shown.resolver = a

CallInv == \A a \in Attempts : CallHonest(a)

Inv == TypeOK /\ RowInv /\ ResolverInv /\ CallInv

-----------------------------------------------------------------------------
(* The shapes of rows and calls, for the provers.                          *)
LEMMA RowShape ==
    ASSUME NEW r \in Rows \cup {NoRow}
    PROVE  /\ r.status \in {"absent", "OPEN", "APPROVE", "REJECT"}
           /\ (r.status = "absent") <=> (r = NoRow)
           /\ r # NoRow => r \in Rows
  BY DEF Rows, NoRow, Final

LEMMA CallShape ==
    ASSUME NEW k \in Calls \cup {Idle}
    PROVE  /\ k.stage \in Stages \cup {"idle"}
           /\ (k.stage = "idle") <=> (k = Idle)
           /\ k # Idle => k \in Calls
  BY DEF Calls, Idle, Stages

LEMMA NewRowIsRow == NewRow \in Rows /\ NewRow.status = "OPEN" /\ NewRow.resolver = Nobody
  BY DEF NewRow, Rows

LEMMA InvInit == Init => Inv
  BY CaseAssumption, RowShape DEF Init, Inv, TypeOK, RowInv, ResolverInv, CallInv, CallHonest, NoRow, Idle, Rows, Final

(* Setting the stage of a call that was asked something. *)
LEMMA StageTypes ==
    ASSUME TypeOK, NEW a \in Attempts, NEW s \in Stages, call[a] # Idle, Stage(a, s)
    PROVE  /\ call' \in [Attempts -> Calls \cup {Idle}]
           /\ call'[a] = [call[a] EXCEPT !.stage = s]
           /\ \A b \in Attempts \ {a} : call'[b] = call[b]
  <1>1. [call[a] EXCEPT !.stage = s] \in Calls
    BY CallShape DEF TypeOK, Calls
  <1> QED BY <1>1 DEF TypeOK, Stage

(* What the three outcomes of a conditional UPDATE leave behind. *)
LEMMA UpdateSteps ==
    ASSUME Inv, NEW a \in Attempts, Update(a)
    PROVE  /\ call[a] \in Calls /\ call[a].case \in Cases /\ call[a].verdict \in Final
           /\ call' \in [Attempts -> Calls \cup {Idle}]
           /\ row' \in [Cases -> Rows \cup {NoRow}]
           /\ UNCHANGED <<filing, drafting>>
           /\ \E s \in {"updated", "refused", "error"} :
                /\ call' = [call EXCEPT ![a].stage = s]
                /\ call'[a] = [call[a] EXCEPT !.stage = s]
                /\ \A b \in Attempts \ {a} : call'[b] = call[b]
                /\ \/ /\ s \in {"updated", "error"}
                      /\ row[call[a].case].status = "OPEN"
                      /\ row' = Closed(a)
                      /\ row'[call[a].case].status = call[a].verdict
                      /\ row'[call[a].case].resolver = a
                      /\ \A c \in Cases \ {call[a].case} : row'[c] = row[c]
                   \/ s = "refused" /\ row[call[a].case].status # "OPEN" /\ row' = row
                   \/ s = "error" /\ row' = row
  <1> USE DEF Inv
  <1>1. call[a] \in Calls /\ call[a] # Idle /\ call[a].case \in Cases /\ call[a].verdict \in Final
    BY CallShape DEF Update, CallInv, CallHonest, TypeOK, Calls, Idle
  <1>2. \E s \in {"updated", "refused", "error"} :
          /\ Stage(a, s)
          /\ \/ s \in {"updated", "error"} /\ row[call[a].case].status = "OPEN" /\ row' = Closed(a)
             \/ s = "refused" /\ row[call[a].case].status # "OPEN" /\ row' = row
             \/ s = "error" /\ row' = row
    BY DEF Update
  <1>3. PICK s \in {"updated", "refused", "error"} :
          /\ Stage(a, s)
          /\ \/ s \in {"updated", "error"} /\ row[call[a].case].status = "OPEN" /\ row' = Closed(a)
             \/ s = "refused" /\ row[call[a].case].status # "OPEN" /\ row' = row
             \/ s = "error" /\ row' = row
    BY <1>2
  <1>4. /\ call' \in [Attempts -> Calls \cup {Idle}]
        /\ call'[a] = [call[a] EXCEPT !.stage = s]
        /\ \A b \in Attempts \ {a} : call'[b] = call[b]
    BY <1>1, <1>3, StageTypes DEF Stages
  <1>5. ASSUME row[call[a].case].status = "OPEN", row' = Closed(a)
        PROVE  /\ row' \in [Cases -> Rows \cup {NoRow}]
               /\ row'[call[a].case].status = call[a].verdict
               /\ row'[call[a].case].resolver = a
               /\ \A c \in Cases \ {call[a].case} : row'[c] = row[c]
    <2> DEFINE c == call[a].case
               new == [status |-> call[a].verdict, resolver |-> a, draft |-> row[c].draft]
    <2>1. row[c] \in Rows
      BY <1>1, <1>5, RowShape DEF TypeOK, NoRow
    <2>2. new \in Rows /\ new.status = call[a].verdict /\ new.resolver = a
      BY <1>1, <2>1 DEF Rows
    <2>3. row' = [row EXCEPT ![c] = new]
      BY <1>1, <1>5 DEF Closed, TypeOK
    <2> HIDE DEF new
    <2> QED BY <1>1, <2>2, <2>3 DEF TypeOK
  <1>6. row' \in [Cases -> Rows \cup {NoRow}]
    BY <1>3, <1>5 DEF TypeOK
  <1> QED BY <1>1, <1>3, <1>4, <1>5, <1>6 DEF Update, Stage

(* Every step keeps the types. *)
LEMMA TypeStep == Inv /\ [Next]_vars => TypeOK'
  <1> SUFFICES ASSUME Inv, [Next]_vars PROVE TypeOK'
    OBVIOUS
  <1> USE DEF Inv
  <1>1. ASSUME NEW c \in Cases, Create(c) PROVE TypeOK'
    BY <1>1, NewRowIsRow DEF TypeOK, Create
  <1>2. ASSUME NEW c \in Cases, Answer(c) PROVE TypeOK'
    BY <1>2 DEF TypeOK, Answer
  <1>3. ASSUME NEW c \in Cases, WriteDraft(c) PROVE TypeOK'
    <2>1. row[c] # NoRow => [row[c] EXCEPT !.draft = TRUE] \in Rows
      BY RowShape DEF TypeOK, Rows
    <2>2. row' \in [Cases -> Rows \cup {NoRow}]
      BY <1>3, <2>1 DEF TypeOK, WriteDraft
    <2> QED BY <1>3, <2>2 DEF TypeOK, WriteDraft
  <1>4. ASSUME NEW a \in Attempts, NEW c \in Cases, NEW v \in Final \cup {"other"}, Ask(a, c, v)
        PROVE TypeOK'
    BY <1>4 DEF TypeOK, Ask, Asked, Calls, Stages
  <1>5. ASSUME NEW a \in Attempts, Update(a) PROVE TypeOK'
    BY <1>5, UpdateSteps DEF TypeOK
  <1>6. ASSUME NEW a \in Attempts, Fetch(a) PROVE TypeOK'
    <2>1. call[a] \in Calls /\ call[a] # Idle /\ row[call[a].case] \in Rows \cup {NoRow}
      BY <1>6, CallShape DEF Fetch, TypeOK, Calls, Idle
    <2>2. [call[a] EXCEPT !.stage = "won", !.shown = row[call[a].case]] \in Calls
      BY <2>1 DEF Calls, Stages
    <2>3. CASE Stage(a, "error")
      BY <1>6, <2>1, <2>3, StageTypes DEF TypeOK, Fetch, Stages
    <2>4. CASE call' = [call EXCEPT ![a].stage = "won", ![a].shown = row[call[a].case]]
      <3>1. call' = [call EXCEPT ![a] = [call[a] EXCEPT !.stage = "won", !.shown = row[call[a].case]]]
        BY <2>4 DEF TypeOK
      <3> QED BY <1>6, <2>2, <3>1 DEF TypeOK, Fetch
    <2> QED BY <1>6, <2>3, <2>4 DEF Fetch
  <1>7. CASE Crash
    <2>1. \A a \in Attempts : call'[a] \in Calls \cup {Idle}
      BY <1>7, CallShape DEF Crash, TypeOK, Calls, Stages, Idle
    <2> QED BY <1>7, <2>1 DEF Crash, TypeOK
  <1>8. CASE UNCHANGED vars
    BY <1>8 DEF TypeOK, vars
  <1> QED BY <1>1, <1>2, <1>3, <1>4, <1>5, <1>6, <1>7, <1>8 DEF Next

-----------------------------------------------------------------------------
(* The strengthened invariant is inductive. *)
LEMMA InvStep == Inv /\ [Next]_vars => Inv'
  <1> SUFFICES ASSUME Inv, [Next]_vars PROVE Inv'
    OBVIOUS
  <1>t. TypeOK'
    BY TypeStep
  <1>n. Nobody \notin Attempts
    BY CaseAssumption
  <1>1. ASSUME NEW c \in Cases, Create(c) PROVE RowInv' /\ ResolverInv' /\ CallInv'
    <2>1. /\ row[c].status = "absent"
          /\ \A d \in Cases \ {c} : row'[d] = row[d] /\ filing'[d] = filing[d]
          /\ row'[c] = row[c] \/ row'[c] = NewRow
          /\ filing'[c] = "created"
          /\ call' = call
      BY <1>1 DEF Create, Inv, RowInv, TypeOK
    <2>2. RowInv'
      BY <2>1, NewRowIsRow DEF Inv, RowInv
    <2>3. ResolverInv'
      BY <2>1, <1>n, NewRowIsRow DEF Inv, ResolverInv
    <2>4. \A a \in Attempts : call[a].stage # "idle" => call[a].case \in Cases \ {c}
      BY <1>1, CallShape DEF Inv, TypeOK, Calls, CallInv, CallHonest, Create
    <2>5. CallInv'
      BY <2>1, <2>4 DEF Inv, CallInv, CallHonest
    <2> QED BY <2>2, <2>3, <2>5
  <1>2. ASSUME NEW c \in Cases, Answer(c) PROVE RowInv' /\ ResolverInv' /\ CallInv'
    <2>1. \A d \in Cases : filing'[d] = "todo" <=> filing[d] = "todo"
      BY <1>2 DEF Answer, Inv, TypeOK
    <2>2. \A a \in Attempts : call[a].stage # "idle" => call[a].case \in Cases
      BY CallShape DEF Inv, TypeOK, Calls
    <2> QED BY <1>2, <2>1, <2>2 DEF Answer, Inv, RowInv, ResolverInv, CallInv, CallHonest
  <1>3. ASSUME NEW c \in Cases, WriteDraft(c) PROVE RowInv' /\ ResolverInv' /\ CallInv'
    <2>1. \A d \in Cases : row'[d].status = row[d].status /\ row'[d].resolver = row[d].resolver
      <3>1. row[c] # NoRow => /\ [row[c] EXCEPT !.draft = TRUE].status = row[c].status
                              /\ [row[c] EXCEPT !.draft = TRUE].resolver = row[c].resolver
        BY RowShape DEF Inv, TypeOK, Rows
      <3>2. row' = row \/ (row[c] # NoRow /\ row' = [row EXCEPT ![c] = [row[c] EXCEPT !.draft = TRUE]])
        BY <1>3 DEF WriteDraft, Inv, TypeOK
      <3> QED BY <3>1, <3>2 DEF Inv, TypeOK
    <2>2. \A a \in Attempts : call[a].stage # "idle" => call[a].case \in Cases
      BY CallShape DEF Inv, TypeOK, Calls
    <2> QED BY <1>3, <2>1, <2>2 DEF WriteDraft, Inv, RowInv, ResolverInv, CallInv, CallHonest
  <1>4. ASSUME NEW a \in Attempts, NEW c \in Cases, NEW v \in Final \cup {"other"}, Ask(a, c, v)
        PROVE RowInv' /\ ResolverInv' /\ CallInv'
    <2>1. /\ call[a].stage = "idle"
          /\ filing[c] # "todo"
          /\ \A b \in Attempts \ {a} : call'[b] = call[b]
          /\ call'[a].stage = (IF v \in Final THEN "asked" ELSE "error")
          /\ call'[a].case = c /\ call'[a].verdict = v
          /\ UNCHANGED <<row, filing>>
      <3>1. filing[c] # "todo"
        BY <1>4, RowShape DEF Ask, Asked, Known, Inv, TypeOK, RowInv
      <3> QED BY <1>4, <3>1 DEF Ask, Asked, Idle, Inv, TypeOK
    <2>2. ResolverInv'
      BY <2>1 DEF Inv, ResolverInv
    <2>3. CallInv'
      BY <2>1 DEF Inv, CallInv, CallHonest
    <2> QED BY <2>1, <2>2, <2>3 DEF Inv, RowInv
  <1>5. ASSUME NEW a \in Attempts, Update(a) PROVE RowInv' /\ ResolverInv' /\ CallInv'
    <2> DEFINE c == call[a].case
    <2>1. /\ call[a] \in Calls /\ c \in Cases /\ call[a].verdict \in Final
          /\ UNCHANGED <<filing, drafting>>
          /\ call[a].stage = "asked"
          /\ filing[c] # "todo"
      BY <1>5, UpdateSteps DEF Update, Inv, CallInv, CallHonest
    <2>2. PICK s \in {"updated", "refused", "error"} :
            /\ call'[a] = [call[a] EXCEPT !.stage = s]
            /\ \A b \in Attempts \ {a} : call'[b] = call[b]
            /\ \/ /\ s \in {"updated", "error"}
                  /\ row[c].status = "OPEN"
                  /\ row'[c].status = call[a].verdict
                  /\ row'[c].resolver = a
                  /\ \A d \in Cases \ {c} : row'[d] = row[d]
               \/ s = "refused" /\ row[c].status # "OPEN" /\ row' = row
               \/ s = "error" /\ row' = row
      BY <1>5, UpdateSteps
    <2>3. /\ call'[a].stage = s /\ call'[a].case = c /\ call'[a].verdict = call[a].verdict
      BY <2>1, <2>2 DEF Calls
    <2>4. \A b \in Attempts : call[b].stage # "idle" => call[b].case \in Cases
      BY CallShape DEF Inv, TypeOK, Calls
    <2>5. row[c].status = "OPEN" => \A b \in Attempts :
             call[b].stage \in {"updated", "won"} => call[b].case # c
      BY <2>1 DEF Inv, CallInv, CallHonest, Final
    <2> HIDE DEF c
    <2>6. RowInv'
      BY <2>1, <2>2 DEF Inv, RowInv, Final
    <2>7. ResolverInv'
      <3> SUFFICES ASSUME NEW d \in Cases, NEW b \in Attempts,
                          row'[d].status # "absent", row'[d].resolver = b
                   PROVE  call'[b].stage \in {"updated", "won", "error"} /\ call'[b].case = d
        BY DEF ResolverInv
      <3>1. CASE row'[d] = row[d]
        <4>1. call[b].stage \in {"updated", "won", "error"} /\ call[b].case = d
          BY <3>1 DEF Inv, ResolverInv
        <4>2. b # a
          BY <2>1, <4>1
        <4> QED BY <2>2, <4>1, <4>2
      <3>2. CASE row'[d] # row[d]
        <4>1. row' # row
          BY <3>2
        <4>2. s \in {"updated", "error"} /\ d = c /\ row'[c].resolver = a
          BY <2>2, <3>2, <4>1
        <4> QED BY <2>3, <4>2
      <3> QED BY <3>1, <3>2
    <2>8. CallInv'
      <3> SUFFICES ASSUME NEW b \in Attempts PROVE CallHonest(b)'
        BY DEF CallInv
      <3>1. CASE b = a
        BY <2>1, <2>2, <2>3, <3>1 DEF Inv, CallInv, CallHonest, Final
      <3>2. CASE b # a
        BY <2>1, <2>2, <2>4, <2>5, <3>2 DEF Inv, CallInv, CallHonest, Final
      <3> QED BY <3>1, <3>2
    <2> QED BY <2>6, <2>7, <2>8
  <1>6. ASSUME NEW a \in Attempts, Fetch(a) PROVE RowInv' /\ ResolverInv' /\ CallInv'
    <2>1. /\ call[a] \in Calls /\ call[a].case \in Cases /\ call[a].stage = "updated"
          /\ UNCHANGED <<row, filing>>
      BY <1>6, CallShape DEF Fetch, Inv, TypeOK, Calls, Idle
    <2>2. /\ call'[a].stage \in {"won", "error"}
          /\ call'[a].case = call[a].case /\ call'[a].verdict = call[a].verdict
          /\ call'[a].stage = "won" => call'[a].shown = row[call[a].case]
          /\ \A b \in Attempts \ {a} : call'[b] = call[b]
      BY <1>6, <2>1 DEF Fetch, Stage, Inv, TypeOK, Calls
    <2>3. ResolverInv'
      BY <2>1, <2>2 DEF Inv, ResolverInv
    <2>4. CallInv'
      BY <2>1, <2>2 DEF Inv, CallInv, CallHonest
    <2> QED BY <2>1, <2>3, <2>4 DEF Inv, RowInv
  <1>7. CASE Crash
    <2>1. /\ row' = row
          /\ \A c \in Cases : filing'[c] = "todo" <=> filing[c] = "todo"
      BY <1>7 DEF Crash, Inv, TypeOK
    <2>2. \A a \in Attempts :
            IF call[a].stage \in {"asked", "updated"}
              THEN call'[a].stage = "error" /\ call'[a].case = call[a].case
              ELSE call'[a] = call[a]
      BY <1>7, CallShape DEF Crash, Inv, TypeOK, Calls, Idle
    <2>3. \A b \in Attempts : call[b].stage # "idle" => call[b].case \in Cases
      BY CallShape DEF Inv, TypeOK, Calls
    <2>4. ResolverInv'
      BY <2>1, <2>2 DEF Inv, ResolverInv
    <2>5. CallInv'
      BY <2>1, <2>2, <2>3 DEF Inv, CallInv, CallHonest
    <2> QED BY <1>t, <2>1, <2>4, <2>5 DEF Inv, RowInv
  <1>8. CASE UNCHANGED vars
    BY <1>t, <1>8 DEF vars, Inv, RowInv, ResolverInv, CallInv, CallHonest
  <1> QED BY <1>t, <1>1, <1>2, <1>3, <1>4, <1>5, <1>6, <1>7, <1>8 DEF Next, Inv

LEMMA InvHolds == Spec => []Inv
  BY InvInit, InvStep, PTL DEF Spec

(* Rows and calls keep their types: no verdict but APPROVE and REJECT is   *)
(* ever written (store/mysql.go:398-407).                                  *)
THEOREM TypeCorrect == Spec => []TypeOK
  BY InvHolds, PTL DEF Inv

(* A successful resolve shows its reviewer his own verdict and name.       *)
THEOREM ShowsOwnVerdictAlways == Spec => []ShowsOwnVerdict
  <1>1. Inv => ShowsOwnVerdict
    BY DEF Inv, CallInv, CallHonest, ShowsOwnVerdict
  <1> QED BY <1>1, InvHolds, PTL

(* A refused resolve stays refused with reason: nothing it could close     *)
(* appears later, and the case was not closed by the call itself.          *)
THEOREM RefusedForGoodAlways == Spec => []RefusedForGood
  <1>1. Inv => RefusedForGood
    <2> SUFFICES ASSUME Inv, NEW a \in Attempts, call[a].stage = "refused"
                 PROVE  /\ row[call[a].case].status # "OPEN"
                        /\ row[call[a].case] # NoRow => row[call[a].case].resolver # a
      BY DEF RefusedForGood
    <2>1. call[a].case \in Cases
      BY CallShape DEF Inv, TypeOK, Calls
    <2>2. row[call[a].case] # NoRow => row[call[a].case].status # "absent"
      BY <2>1, RowShape DEF Inv, TypeOK
    <2> QED BY <2>1, <2>2 DEF Inv, ResolverInv, CallInv, CallHonest
  <1> QED BY <1>1, InvHolds, PTL

-----------------------------------------------------------------------------
(* The calls that closed a case, and what a call was told, as CaseLedger   *)
(* sees them.                                                              *)
Closers(c) == {a \in Attempts : row[c] # NoRow /\ row[c].resolver = a}

LEMMA ClosersStatus ==
    ASSUME TypeOK, NEW c \in Cases
    PROVE  Closers(c) = {a \in Attempts : row[c].status # "absent" /\ row[c].resolver = a}
  BY RowShape DEF Closers, TypeOK

LEMMA LedgerInit == Init => L!LInit
  BY DEF Init, L!LInit, NoRow, Idle, Told

(* A step that changes no status, resolver or telling is a stutter.        *)
LEMMA LedgerStutter ==
    ASSUME TypeOK, TypeOK',
           \A c \in Cases : row'[c].status = row[c].status,
           \A c \in Cases : row[c].status # "absent" => row'[c].resolver = row[c].resolver,
           \A a \in Attempts : Told(a)' = Told(a)
    PROVE  UNCHANGED L!ledger
  <1>1. \A c \in Cases : Closers(c)' = Closers(c)
    BY RowShape DEF Closers, TypeOK
  <1>2. [c \in Cases |-> Closers(c)]' = [c \in Cases |-> Closers(c)]
    BY <1>1
  <1>3. [c \in Cases |-> row[c].status]' = [c \in Cases |-> row[c].status]
    OBVIOUS
  <1>4. [a \in Attempts |-> Told(a)]' = [a \in Attempts |-> Told(a)]
    OBVIOUS
  <1> QED BY <1>2, <1>3, <1>4 DEF L!ledger, Closers

(* A step that only tells errors. *)
LEMMA LedgerErrors ==
    ASSUME TypeOK, TypeOK', row' = row,
           \A a \in Attempts : call'[a] # call[a] =>
                /\ Told(a) = <<>>
                /\ call'[a].stage = "error"
    PROVE  L!TellErrors
  <1>1. \A a \in Attempts : call'[a].stage = "error" =>
            /\ call'[a] \in Calls
            /\ Told(a)' = <<"error", call'[a].case, call'[a].verdict>>
    BY CallShape DEF TypeOK, Told
  <1>2. \A a \in Attempts : Told(a)' # Told(a) =>
            /\ Told(a) = <<>>
            /\ \E c \in Cases, v \in Final \cup {"other"} : Told(a)' = <<"error", c, v>>
    BY <1>1 DEF Told, Calls
  <1>3. \A a \in Attempts : Told(a)' \in {<<>>} \cup L!Tellings
    BY CallShape DEF TypeOK, Told, L!Tellings, L!Final, Final, Calls
  <1> QED BY <1>2, <1>3 DEF L!TellErrors, L!Final, Final

(* The conditional UPDATE closes the case, or is told why it does not.     *)
LEMMA LedgerUpdate ==
    ASSUME Inv, Inv', NEW a \in Attempts, Update(a)
    PROVE  L!LNext \/ UNCHANGED L!ledger
  <1>0. PICK c \in Cases, v \in Final : c = call[a].case /\ v = call[a].verdict
    BY UpdateSteps
  <1>1. /\ call[a] \in Calls
        /\ Told(a) = <<>>
    BY UpdateSteps DEF Update, Told
  <1>2. PICK s \in {"updated", "refused", "error"} :
          /\ call'[a] = [call[a] EXCEPT !.stage = s]
          /\ \A b \in Attempts \ {a} : call'[b] = call[b]
          /\ \/ /\ s \in {"updated", "error"}
                /\ row[c].status = "OPEN"
                /\ row'[c].status = v
                /\ row'[c].resolver = a
                /\ \A d \in Cases \ {c} : row'[d] = row[d]
             \/ s = "refused" /\ row[c].status # "OPEN" /\ row' = row
             \/ s = "error" /\ row' = row
    BY <1>0, UpdateSteps
  <1>3. /\ call'[a].stage = s /\ call'[a].case = c /\ call'[a].verdict = v
        /\ Told(a)' = (IF s = "updated" THEN <<>> ELSE <<s, c, v>>)
    <2>1. call'[a].stage = s /\ call'[a].case = c /\ call'[a].verdict = v
      BY <1>0, <1>1, <1>2 DEF Calls
    <2> QED BY <2>1 DEF Told
  <1>4. \A b \in Attempts \ {a} : Told(b)' = Told(b)
    BY <1>2 DEF Told
  <1>n. Nobody \notin Attempts
    BY CaseAssumption
  <1>5. CASE s \in {"updated", "error"} /\ row[c].status = "OPEN" /\ row'[c].status = v
             /\ row'[c].resolver = a /\ \A d \in Cases \ {c} : row'[d] = row[d]
    <2>1. Closers(c) = {}
      BY <1>5, <1>n, ClosersStatus DEF Inv, RowInv
    <2>2. Closers(c)' = {a}
      <3>1. row'[c].status # "absent"
        BY <1>5 DEF Final
      <3>2. row'[c] # NoRow
        BY <3>1 DEF NoRow
      <3> QED BY <1>5, <3>2 DEF Closers
    <2>3. \A d \in Cases \ {c} : Closers(d)' = Closers(d)
      BY <1>5 DEF Closers
    <2>4. [d \in Cases |-> Closers(d)]'
            = [[d \in Cases |-> Closers(d)] EXCEPT ![c] = @ \cup {a}]
      BY <1>1, <2>1, <2>2, <2>3
    <2>5. [d \in Cases |-> row[d].status]'
            = [[d \in Cases |-> row[d].status] EXCEPT ![c] = v]
      BY <1>1, <1>5
    <2>6. CASE s = "updated"
      <3>1. [b \in Attempts |-> Told(b)]' = [b \in Attempts |-> Told(b)]
        BY <1>1, <1>3, <1>4, <2>6
      <3>2. L!Close(a, c, v)
        BY <1>1, <1>5, <2>4, <2>5, <3>1 DEF L!Close, Closers
      <3> QED BY <1>1, <3>2 DEF L!LNext, L!Final, Final
    <2>7. CASE s = "error"
      <3>1. [b \in Attempts |-> Told(b)]'
              = [[b \in Attempts |-> Told(b)] EXCEPT ![a] = <<"error", c, v>>]
        BY <1>3, <1>4, <2>7
      <3>2. L!CloseUnheard(a, c, v)
        BY <1>1, <1>5, <2>4, <2>5, <3>1 DEF L!CloseUnheard, Closers
      <3> QED BY <1>1, <3>2 DEF L!LNext, L!Final, Final
    <2> QED BY <1>5, <2>6, <2>7
  <1>6. CASE s = "refused" /\ row[c].status # "OPEN" /\ row' = row
    <2>1. a \notin Closers(c)
      BY <1>1, ClosersStatus DEF Inv, ResolverInv, Update
    <2>2. [b \in Attempts |-> Told(b)]'
            = [[b \in Attempts |-> Told(b)] EXCEPT ![a] = <<"refused", c, v>>]
      BY <1>3, <1>4, <1>6
    <2>3. L!TellRefused(a, c, v)
      BY <1>1, <1>6, <2>1, <2>2 DEF L!TellRefused, Closers
    <2> QED BY <1>1, <2>3 DEF L!LNext, L!Final, Final
  <1>7. CASE s = "error" /\ row' = row
    <2>1. L!TellErrors
      BY <1>1, <1>2, <1>3, <1>7, LedgerErrors DEF Inv
    <2> QED BY <2>1 DEF L!LNext
  <1> QED BY <1>2, <1>5, <1>6, <1>7

(* Every step of the service is a step of the ledger or changes nothing    *)
(* the ledger knows.                                                       *)
LEMMA LedgerStep ==
    ASSUME Inv, Inv', [Next]_vars
    PROVE  L!LNext \/ UNCHANGED L!ledger
  <1>1. ASSUME NEW c \in Cases, Create(c) PROVE L!LNext \/ UNCHANGED L!ledger
    <2>1. /\ row[c].status = "absent" /\ call' = call
          /\ \A d \in Cases \ {c} : row'[d] = row[d]
          /\ row'[c] = row[c] \/ row'[c] = NewRow
      BY <1>1 DEF Create, Inv, RowInv, TypeOK
    <2>2. \A a \in Attempts : Told(a)' = Told(a)
      BY <2>1 DEF Told
    <2>3. CASE row'[c] = row[c]
      BY <2>1, <2>2, <2>3, LedgerStutter DEF Inv
    <2>4. CASE row'[c] = NewRow
      <3>1. \A d \in Cases : Closers(d)' = Closers(d)
        <4>1. Closers(c) = {} /\ Closers(c)' = {}
          BY <2>1, <2>4, CaseAssumption, NewRowIsRow, RowShape DEF Inv, TypeOK, Closers
        <4>2. \A d \in Cases \ {c} : Closers(d)' = Closers(d)
          BY <2>1 DEF Closers
        <4> QED BY <4>1, <4>2
      <3>2. [d \in Cases |-> Closers(d)]' = [d \in Cases |-> Closers(d)]
        BY <3>1
      <3>3. [d \in Cases |-> row[d].status]'
              = [[d \in Cases |-> row[d].status] EXCEPT ![c] = "OPEN"]
        BY <2>1, <2>4, NewRowIsRow
      <3>4. [a \in Attempts |-> Told(a)]' = [a \in Attempts |-> Told(a)]
        BY <2>2
      <3>5. L!Open(c)
        BY <2>1, <3>2, <3>3, <3>4 DEF L!Open, Closers
      <3> QED BY <3>5 DEF L!LNext
    <2> QED BY <2>1, <2>3, <2>4
  <1>2. ASSUME NEW c \in Cases, Answer(c) PROVE UNCHANGED L!ledger
    BY <1>2, LedgerStutter DEF Answer, Inv, Told
  <1>3. ASSUME NEW c \in Cases, WriteDraft(c) PROVE UNCHANGED L!ledger
    <2>1. \A d \in Cases : row'[d].status = row[d].status /\ row'[d].resolver = row[d].resolver
      <3>1. row[c] # NoRow => /\ [row[c] EXCEPT !.draft = TRUE].status = row[c].status
                              /\ [row[c] EXCEPT !.draft = TRUE].resolver = row[c].resolver
        BY RowShape DEF Inv, TypeOK, Rows
      <3>2. row' = row \/ (row[c] # NoRow /\ row' = [row EXCEPT ![c] = [row[c] EXCEPT !.draft = TRUE]])
        BY <1>3 DEF WriteDraft, Inv, TypeOK
      <3> QED BY <3>1, <3>2 DEF Inv, TypeOK
    <2> QED BY <1>3, <2>1, LedgerStutter DEF WriteDraft, Inv, Told
  <1>4. ASSUME NEW a \in Attempts, NEW c \in Cases, NEW v \in Final \cup {"other"}, Ask(a, c, v)
        PROVE L!LNext \/ UNCHANGED L!ledger
    <2>1. /\ call[a].stage = "idle" /\ row' = row
          /\ call'[a].stage = "asked" \/ call'[a].stage = "error"
          /\ \A b \in Attempts \ {a} : call'[b] = call[b]
      BY <1>4 DEF Ask, Asked, Idle, Inv, TypeOK
    <2>2. CASE call'[a].stage = "error"
      <3>1. L!TellErrors
        BY <2>1, <2>2, LedgerErrors DEF Inv, Told
      <3> QED BY <3>1 DEF L!LNext
    <2>3. CASE call'[a].stage = "asked"
      BY <2>1, <2>3, LedgerStutter DEF Inv, Told
    <2> QED BY <2>1, <2>2, <2>3
  <1>5. ASSUME NEW a \in Attempts, Update(a) PROVE L!LNext \/ UNCHANGED L!ledger
    BY <1>5, LedgerUpdate
  <1>6. ASSUME NEW a \in Attempts, Fetch(a) PROVE L!LNext \/ UNCHANGED L!ledger
    <2>1. /\ call[a] \in Calls /\ call[a].case \in Cases /\ call[a].stage = "updated"
          /\ Told(a) = <<>> /\ row' = row /\ call[a].verdict \in Final
      BY <1>6, CallShape DEF Fetch, Inv, TypeOK, Calls, Idle, Told, CallInv, CallHonest
    <2>2. /\ call'[a].stage \in {"won", "error"}
          /\ call'[a].case = call[a].case /\ call'[a].verdict = call[a].verdict
          /\ \A b \in Attempts \ {a} : call'[b] = call[b]
      BY <1>6, <2>1 DEF Fetch, Stage, Inv, TypeOK, Calls
    <2>3. CASE call'[a].stage = "error"
      <3>1. L!TellErrors
        BY <2>1, <2>2, <2>3, LedgerErrors DEF Inv
      <3> QED BY <3>1 DEF L!LNext
    <2>4. CASE call'[a].stage = "won"
      <3>0. PICK c \in Cases, v \in Final : c = call[a].case /\ v = call[a].verdict
        BY <2>1
      <3>1. row[c].status = v /\ a \in Closers(c)
        BY <2>1, <3>0, ClosersStatus DEF Inv, CallInv, CallHonest, Final
      <3>2. Told(a)' = <<"won", c, v>> /\ \A b \in Attempts \ {a} : Told(b)' = Told(b)
        BY <2>2, <2>4, <3>0 DEF Told
      <3>3. [b \in Attempts |-> Told(b)]'
              = [[b \in Attempts |-> Told(b)] EXCEPT ![a] = <<"won", c, v>>]
        BY <3>2
      <3>4. L!TellWon(a, c, v)
        BY <2>1, <3>1, <3>3 DEF L!TellWon, Closers
      <3> QED BY <3>4 DEF L!LNext, L!Final, Final
    <2> QED BY <2>2, <2>3, <2>4
  <1>7. CASE Crash
    <2>1. /\ row' = row
          /\ \A a \in Attempts : call'[a] # call[a] =>
                Told(a) = <<>> /\ call'[a].stage = "error"
      BY <1>7, CallShape DEF Crash, Inv, TypeOK, Calls, Idle, Told
    <2>2. L!TellErrors
      BY <2>1, LedgerErrors DEF Inv
    <2> QED BY <2>2 DEF L!LNext
  <1>8. CASE UNCHANGED vars
    BY <1>8, LedgerStutter DEF vars, Inv, Told
  <1> QED BY <1>1, <1>2, <1>3, <1>4, <1>5, <1>6, <1>7, <1>8 DEF Next

(* The rows of review_case and the answers of the resolve calls implement  *)
(* the ledger, whatever drafts, lost answers and restarts come in between. *)
THEOREM ReviewCaseImplementsLedger == Spec => ImplementsLedger
  <1>1. Inv /\ Inv' /\ [Next]_vars => [L!LNext]_(L!ledger)
    BY LedgerStep
  <1> QED BY <1>1, LedgerInit, InvHolds, PTL DEF Spec, ImplementsLedger, L!Ledger

(* At most one resolve call is told that it closed a case, and the case    *)
(* keeps the verdict that call gave (store/mysql.go:408-419).              *)
THEOREM OneWinnerAlways == Spec => []L!OneWinner
  <1>1. Inv => L!OneWinner
    <2> SUFFICES ASSUME Inv, NEW c \in Cases, NEW a \in Attempts, NEW b \in Attempts,
                        NEW v \in Final, NEW w \in Final,
                        Told(a) = <<"won", c, v>>
                 PROVE  row[c].status = v /\ (Told(b) = <<"won", c, w>> => a = b)
      BY DEF L!OneWinner, L!Final, Final
    <2>1. \A k \in Attempts, x \in Final : Told(k) = <<"won", c, x>> =>
             /\ call[k].stage = "won" /\ call[k].case = c /\ call[k].verdict = x
      BY DEF Told
    <2>2. \A k \in Attempts, x \in Final : Told(k) = <<"won", c, x>> =>
             row[c].status = x /\ row[c].resolver = k
      BY <2>1 DEF Inv, CallInv, CallHonest
    <2> QED BY <2>2
  <1> QED BY <1>1, InvHolds, PTL

(* No resolve call, draft or restart changes the verdict of a closed case. *)
THEOREM VerdictAlwaysFinal == Spec => L!VerdictIsFinal
  <1>1. Inv /\ Inv' /\ [Next]_vars => [L!KeepsVerdicts]_(L!ledger)
    <2> SUFFICES ASSUME Inv, Inv', [Next]_vars, NEW c \in Cases, row[c].status \in Final
                 PROVE  row'[c].status = row[c].status
      BY DEF L!KeepsVerdicts, L!Final, Final
    <2> DEFINE verdicts == [d \in Cases |-> row[d].status]
    <2>1. row[c].status \notin {"absent", "OPEN"}
      BY DEF Final
    <2>2. verdicts'[c] = verdicts[c]
      <3>1. CASE UNCHANGED L!ledger
        BY <3>1 DEF L!ledger
      <3>2. CASE L!LNext
        BY <2>1, <3>2 DEF L!LNext, L!Open, L!Close, L!CloseUnheard, L!TellWon,
                          L!TellRefused, L!TellErrors
      <3> QED BY <3>1, <3>2, LedgerStep
    <2> QED BY <2>2
  <1> QED BY <1>1, InvHolds, PTL DEF Spec, L!VerdictIsFinal
=============================================================================
