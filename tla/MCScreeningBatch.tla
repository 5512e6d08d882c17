--------------------------- MODULE MCScreeningBatch ---------------------------
(* Two payments with one device, a stock order whose account has the same   *)
(* name, and an invalid payment; packs of which one is strict.              *)
EXTENDS ScreeningBatch

Sight(nodes, device, subject) ==
    [nodes |-> nodes, device |-> {device}, subject |-> {subject}]

MCNodes == {"party:p", "party:q", "sym:s", "dev:a", "acct:a", "bank:b"}
MCSubjects == {"p", "q", "s"}

Payment(party, subject) ==
    [domain |-> "cross_border", valid |-> TRUE,
     sighting |-> Sight({party, "dev:a", "bank:b"}, "a", subject)]
ToP == Payment("party:p", "p")
ToQ == Payment("party:q", "q")
Order ==
    [domain |-> "stock", valid |-> TRUE,
     sighting |-> Sight({"sym:s", "acct:a"}, "a", "s")]
Invalid == [ToP EXCEPT !.valid = FALSE]

MCBatches ==
    { <<ToP, ToQ, Order>>,
      <<ToP, ToQ, ToP>>,
      <<Invalid, ToP, Order>>,
      <<Invalid, Invalid, ToQ>> }

MCThresholds ==
    [v \in {"v1", "v2", "embedded"} |->
        IF v = "v1" THEN [shared |-> 2, cluster |-> 3] ELSE [shared |-> 3, cluster |-> 10]]

MCHomePath ==
    [d \in {"cross_border", "stock"} |->
        [s \in {"primary", "shadow"} |->
            IF d = "cross_border" THEN IF s = "primary" THEN "home" ELSE "spare" ELSE "no path"]]
=============================================================================
