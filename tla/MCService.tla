----------------------------- MODULE MCService ------------------------------
(***************************************************************************)
(* Service on small instances.                                              *)
(***************************************************************************)
EXTENDS ServiceProperties, TLC

Symmetry == Permutations(Clients)

=============================================================================
