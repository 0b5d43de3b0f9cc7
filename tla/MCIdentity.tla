----------------------------- MODULE MCIdentity -----------------------------
(* Small instances of ApiKeys: three calls on one session and one API key. *)
EXTENDS ApiKeys, TLC

CallSymmetry == Permutations(Calls)
=============================================================================
