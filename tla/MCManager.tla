----------------------------- MODULE MCManager ------------------------------
(***************************************************************************)
(* Manager on small instances.  Data, keys, nonces and paths are only       *)
(* compared, so they may be permuted.                                       *)
(***************************************************************************)
EXTENDS ManagerProperties, TLC

Symmetry == Permutations(Data) \cup Permutations(PrivateKeys) \cup Permutations(Procs)

=============================================================================
