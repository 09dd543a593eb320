---------------------------- MODULE MCCorrelation ----------------------------
(* Instances for TLC.  Callers that share a connection are interchangeable. *)
EXTENDS Correlation

CallerSymmetry == Permutations(Callers)
=============================================================================
