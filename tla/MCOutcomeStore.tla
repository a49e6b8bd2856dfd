--------------------------- MODULE MCOutcomeStore ---------------------------
(* Instance for TLC: keys and callers are interchangeable. *)
EXTENDS OutcomeStore, TLC

Symmetry == Permutations(Key) \union Permutations(Op)
=============================================================================
