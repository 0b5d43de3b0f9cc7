------------------------------- MODULE MCTrace -------------------------------
(* Small instances of TraceMetrics.                                           *)
EXTENDS TraceMetrics, TLC

RequestSymmetry == Permutations(Requests)
=============================================================================
