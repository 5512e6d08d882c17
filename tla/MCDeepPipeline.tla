---------------------------- MODULE MCDeepPipeline ----------------------------
(* DeepPipeline over the bands of a score and both sides of the thresholds. *)
EXTENDS DeepPipeline

BandScores == {0, 40, 50, 60, 80}
=============================================================================
