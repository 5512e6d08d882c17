--------------------------- MODULE MCOrchestrator ---------------------------
(* Instances of Orchestrator for TLC. *)
EXTENDS Orchestrator, TLC

(* Requests and parties are only compared with each other.                 *)
MCSymmetry == Permutations(Requests) \cup Permutations(Parties)

(* The second pack version switches the shadow run and the drafts on.      *)
MCLaterPacks == {2}
=============================================================================
