----------------------------- MODULE MCEmbedded -----------------------------
(* Small instances of EmbeddedTask: one creation and racing or late decisions. *)
EXTENDS EmbeddedTask, TLC

RequestSymmetry == Permutations(Requests)
=============================================================================
