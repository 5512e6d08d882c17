------------------------------ MODULE CaseLedger ------------------------------
(***************************************************************************)
(* What the manual review promises, without saying how: a case is opened   *)
(* at most once, closed at most once, by one resolve call, and a call is   *)
(* told it won only if it is the one that closed the case.  A call whose   *)
(* answer got lost may have closed it or not.                              *)
(***************************************************************************)
CONSTANTS
    Cases,
    Attempts   \* the resolve calls

VARIABLES
    verdict,   \* verdict[c]: "absent", "OPEN", "APPROVE" or "REJECT"
    closer,    \* closer[c]: the calls that closed c
    told       \* told[a]: <<>>, or <<answer, case, verdict>>

ledger == <<verdict, closer, told>>

Final == {"APPROVE", "REJECT"}
Tellings == {"won", "refused", "error"} \X Cases \X (Final \cup {"other"})

LTypeOK ==
    /\ verdict \in [Cases -> {"absent", "OPEN"} \cup Final]
    /\ closer \in [Cases -> SUBSET Attempts]
    /\ told \in [Attempts -> {<<>>} \cup Tellings]

LInit ==
    /\ verdict = [c \in Cases |-> "absent"]
    /\ closer = [c \in Cases |-> {}]
    /\ told = [a \in Attempts |-> <<>>]

Open(c) ==
    /\ verdict[c] = "absent"
    /\ verdict' = [verdict EXCEPT ![c] = "OPEN"]
    /\ UNCHANGED <<closer, told>>

(* The call a closes the case; it is told later, or in vain.               *)
Close(a, c, v) ==
    /\ told[a] = <<>>
    /\ verdict[c] = "OPEN"
    /\ verdict' = [verdict EXCEPT ![c] = v]
    /\ closer' = [closer EXCEPT ![c] = @ \cup {a}]
    /\ UNCHANGED told

CloseUnheard(a, c, v) ==
    /\ told[a] = <<>>
    /\ verdict[c] = "OPEN"
    /\ verdict' = [verdict EXCEPT ![c] = v]
    /\ closer' = [closer EXCEPT ![c] = @ \cup {a}]
    /\ told' = [told EXCEPT ![a] = <<"error", c, v>>]

TellWon(a, c, v) ==
    /\ told[a] = <<>>
    /\ a \in closer[c]
    /\ verdict[c] = v
    /\ told' = [told EXCEPT ![a] = <<"won", c, v>>]
    /\ UNCHANGED <<verdict, closer>>

TellRefused(a, c, v) ==
    /\ told[a] = <<>>
    /\ a \notin closer[c]
    /\ verdict[c] # "OPEN"
    /\ told' = [told EXCEPT ![a] = <<"refused", c, v>>]
    /\ UNCHANGED <<verdict, closer>>

(* Any number of calls can end in an error at once: the service stopped.   *)
TellErrors ==
    /\ told' \in [Attempts -> {<<>>} \cup Tellings]
    /\ \A a \in Attempts :
        told'[a] # told[a] =>
            /\ told[a] = <<>>
            /\ \E c \in Cases, v \in Final \cup {"other"} : told'[a] = <<"error", c, v>>
    /\ UNCHANGED <<verdict, closer>>

LNext ==
    \/ \E c \in Cases : Open(c)
    \/ \E a \in Attempts, c \in Cases, v \in Final :
        Close(a, c, v) \/ CloseUnheard(a, c, v) \/ TellWon(a, c, v) \/ TellRefused(a, c, v)
    \/ TellErrors

Ledger == LInit /\ [][LNext]_ledger

-----------------------------------------------------------------------------
(* At most one resolve call is told that it closed a case, and the case    *)
(* still has the verdict that call gave (mysql.go:398-420).                *)
OneWinner ==
    \A c \in Cases : \A a, b \in Attempts : \A v, w \in Final :
        told[a] = <<"won", c, v>> =>
            /\ verdict[c] = v
            /\ told[b] = <<"won", c, w>> => a = b

(* A closed case stays closed with its verdict (mysql.go:408-411).         *)
KeepsVerdicts == \A c \in Cases : verdict[c] \in Final => verdict'[c] = verdict[c]
VerdictIsFinal == [][KeepsVerdicts]_ledger
=============================================================================
