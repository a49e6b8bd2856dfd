------------------------------ MODULE MCIngress ------------------------------
(* The ingress pipeline on a small instance.  A message is only its identity,  *)
(* and no operator chooses among messages, so those with an id are             *)
(* interchangeable.                                                            *)
EXTENDS Ingress

Symmetry == Permutations(Msg \ IdLess)
=============================================================================
