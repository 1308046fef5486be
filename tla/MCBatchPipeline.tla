-------------------------- MODULE MCBatchPipeline --------------------------
(* Constants of the checked instances of BatchPipeline. *)
EXTENDS BatchPipeline, TLC

CONSTANTS p1, p2, claude, codex, legacy, w1, w2

OnePerPool == [v \in CliProviders |-> 1]
TwoPerPool == [v \in CliProviders |-> 2]
WebSymmetry == Permutations(WebWorkers)
=============================================================================
