------------------------------ MODULE MCVelocity ------------------------------
(* An instance of Velocity for TLC: three requests of one account, the     *)
(* first of which names a device too.                                      *)
EXTENDS Velocity, TLC

CONSTANTS r1, r2, r3, account, device

MCKeysOf ==
    [r \in Requests |-> IF r = r1 THEN <<account, device>> ELSE <<account>>]

MCWindow == [p \in Packs |-> IF p = "primary" THEN 4 ELSE 3]
MCMaxCount == [p \in Packs |-> 2]

(* r2 and r3 hit the same keys. *)
MCSymmetry == Permutations({r2, r3})
=============================================================================
