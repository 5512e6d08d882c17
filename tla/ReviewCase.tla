------------------------------ MODULE ReviewCase ------------------------------
(***************************************************************************)
(* The life of a review case: the finalizers of Orchestrate create the row *)
(* and answer with its id whether or not the row got there, a goroutine    *)
(* writes the draft, and CaseByPath (rpc/handle.go) resolves it with one   *)
(* conditional UPDATE followed by a SELECT (store/mysql.go).  The process  *)
(* may stop at any time; the rows survive, goroutines and open HTTP calls  *)
(* do not.  status and decision_code are written by the same statement and *)
(* are one field here; the texts of the row are left out.                  *)
(***************************************************************************)
CONSTANTS
    Cases,        \* the REVIEW answers of the engine, one case id each
    Attempts,     \* POST /v1/cases/<id>/resolve calls
    Nobody,       \* the empty resolver column
    AsyncDraft    \* AsyncCaseDraft of the pack

ASSUME CaseAssumption ==
    /\ AsyncDraft \in BOOLEAN
    /\ Nobody \notin Attempts

VARIABLES
    row,       \* row[c]: NoRow or the row of table review_case
    filing,    \* filing[c]: "todo", "created", "answered" or "lost"
    drafting,  \* the cases whose draft goroutine is alive
    call       \* call[a]: stage, case and verdict of a resolve call, and what
               \* the call read back from the row

vars == <<row, filing, drafting, call>>

Final == {"APPROVE", "REJECT"}
NoRow == [status |-> "absent"]
Rows == [status : {"OPEN"} \cup Final, resolver : Attempts \cup {Nobody}, draft : BOOLEAN]
Idle == [stage |-> "idle"]
Stages == {"asked", "updated", "won", "refused", "error"}
Calls == [stage : Stages, case : Cases, verdict : Final \cup {"other"},
          shown : Rows \cup {NoRow}]

TypeOK ==
    /\ row \in [Cases -> Rows \cup {NoRow}]
    /\ filing \in [Cases -> {"todo", "created", "answered", "lost"}]
    /\ drafting \subseteq Cases
    /\ call \in [Attempts -> Calls \cup {Idle}]

Init ==
    /\ row = [c \in Cases |-> NoRow]
    /\ filing = [c \in Cases |-> "todo"]
    /\ drafting = {}
    /\ call = [a \in Attempts |-> Idle]

Stage(a, s) == call' = [call EXCEPT ![a].stage = s]

-----------------------------------------------------------------------------
NewRow == [status |-> "OPEN", resolver |-> Nobody, draft |-> FALSE]

(* Variant: a failed insert is tried again after the answer.               *)
CreateLate(c) ==
    /\ row[c] = NoRow
    /\ filing[c] \in {"todo", "answered"}
    /\ filing' = [filing EXCEPT ![c] = IF @ = "todo" THEN "created" ELSE @]
    /\ drafting' = IF AsyncDraft THEN drafting \cup {c} ELSE drafting
    /\ row' \in {row, [row EXCEPT ![c] = NewRow]}
    /\ UNCHANGED call

(* CreateReviewCase inserts the row or fails; the finalizer goes on either *)
(* way and starts the goroutine that drafts.                               *)
Create(c) ==
    /\ filing[c] = "todo"
    /\ filing' = [filing EXCEPT ![c] = "created"]
    /\ drafting' = IF AsyncDraft THEN drafting \cup {c} ELSE drafting
    /\ row' \in {row, [row EXCEPT ![c] = NewRow]}
    /\ UNCHANGED call

(* The caller of /v1/screen gets the case id.                              *)
Answer(c) ==
    /\ filing[c] = "created"
    /\ filing' = [filing EXCEPT ![c] = "answered"]
    /\ UNCHANGED <<row, drafting, call>>

(* Variant: the draft rewrites the whole row.                              *)
WriteDraftRow(c) ==
    /\ c \in drafting
    /\ drafting' = drafting \ {c}
    /\ row' = [row EXCEPT ![c] = IF @ = NoRow THEN NoRow ELSE [NewRow EXCEPT !.draft = TRUE]]
    /\ UNCHANGED <<filing, call>>

(* UpdateReviewCaseDraft sets one column of the row, resolved or not; no   *)
(* row, no effect, and an error is ignored.                                *)
WriteDraft(c) ==
    /\ c \in drafting
    /\ drafting' = drafting \ {c}
    /\ \/ /\ row[c] # NoRow
          /\ row' = [row EXCEPT ![c].draft = TRUE]
       \/ UNCHANGED row
    /\ UNCHANGED <<filing, call>>

-----------------------------------------------------------------------------
(* A reviewer knows an id from an answer or from a list of open cases.     *)
Known(c) == filing[c] = "answered" \/ row[c] # NoRow

Asked(a, c, v, s) ==
    /\ call[a] = Idle
    /\ Known(c)
    /\ call' = [call EXCEPT ![a] = [stage |-> s, case |-> c, verdict |-> v, shown |-> NoRow]]
    /\ UNCHANGED <<row, filing, drafting>>

(* Variant: any verdict is taken.                                          *)
AskAny(a, c, v) == Asked(a, c, v, "asked")

(* The call arrives; a verdict that is neither APPROVE nor REJECT is       *)
(* turned away at once.                                                    *)
Ask(a, c, v) == Asked(a, c, v, IF v \in Final THEN "asked" ELSE "error")

Closed(a) ==
    [row EXCEPT ![call[a].case] =
        [status |-> call[a].verdict, resolver |-> a, draft |-> @.draft]]

(* Variant: the UPDATE does not ask for status='OPEN'.                     *)
UpdateAny(a) ==
    /\ call[a].stage = "asked"
    /\ IF row[call[a].case] # NoRow
         THEN row' = Closed(a) /\ (Stage(a, "updated") \/ Stage(a, "error"))
         ELSE UNCHANGED row /\ Stage(a, "refused")
    /\ UNCHANGED <<filing, drafting>>

(* UPDATE ... WHERE case_id=? AND status='OPEN': it matches the row, finds *)
(* none to match, or fails, with or without the change committed.          *)
Update(a) ==
    /\ call[a].stage = "asked"
    /\ \/ /\ row[call[a].case].status = "OPEN"
          /\ row' = Closed(a)
          /\ Stage(a, "updated") \/ Stage(a, "error")
       \/ /\ row[call[a].case].status # "OPEN"
          /\ Stage(a, "refused")
          /\ UNCHANGED row
       \/ /\ Stage(a, "error")
          /\ UNCHANGED row
    /\ UNCHANGED <<filing, drafting>>

(* GetReviewCase reads the row back for the answer, or fails.              *)
Fetch(a) ==
    /\ call[a].stage = "updated"
    /\ \/ call' = [call EXCEPT ![a].stage = "won", ![a].shown = row[call[a].case]]
       \/ Stage(a, "error")
    /\ UNCHANGED <<row, filing, drafting>>

(* The process stops and starts again. *)
Crash ==
    /\ drafting' = {}
    /\ filing' = [c \in Cases |-> IF filing[c] = "created" THEN "lost" ELSE filing[c]]
    /\ call' = [a \in Attempts |-> IF call[a].stage \in {"asked", "updated"}
                                     THEN [call[a] EXCEPT !.stage = "error"] ELSE call[a]]
    /\ UNCHANGED row

Next ==
    \/ \E c \in Cases : Create(c) \/ Answer(c) \/ WriteDraft(c)
    \/ \E a \in Attempts : Update(a) \/ Fetch(a)
    \/ \E a \in Attempts, c \in Cases, v \in Final \cup {"other"} : Ask(a, c, v)
    \/ Crash

Spec == Init /\ [][Next]_vars

-----------------------------------------------------------------------------
(* The promise of CaseLedger, kept by row and calls: the resolver column   *)
(* names the call that closed the case.                                    *)
Told(a) ==
    IF call[a].stage \in {"won", "refused", "error"}
      THEN <<call[a].stage, call[a].case, call[a].verdict>> ELSE <<>>

L == INSTANCE CaseLedger WITH
        verdict <- [c \in Cases |-> row[c].status],
        closer <- [c \in Cases |-> {a \in Attempts : row[c] # NoRow /\ row[c].resolver = a}],
        told <- [a \in Attempts |-> Told(a)]

(* The conditional UPDATE implements the ledger, in spite of drafts        *)
(* written late, lost answers and restarts (mysql.go:398-426).             *)
ImplementsLedger == L!Ledger

(* What a successful call shows its reviewer is its own verdict under its  *)
(* own name, although the row is read back by a second statement and other *)
(* calls and the draft write in between (mysql.go:408-419).                *)
ShowsOwnVerdict ==
    \A a \in Attempts :
        call[a].stage = "won" =>
            /\ call[a].shown.status = call[a].verdict
            /\ call[a].shown.resolver = a

(* A call is refused for good: the case is closed by another call, or its  *)
(* row was never created and never will be.  No answer carries the id of a *)
(* case that appears only later (orchestrator.go:280-291, mysql.go:415).   *)
RefusedForGood ==
    \A a \in Attempts :
        call[a].stage = "refused" =>
            /\ row[call[a].case].status # "OPEN"
            /\ row[call[a].case] # NoRow => row[call[a].case].resolver # a
=============================================================================
