---------------------------- MODULE MCAlteration ----------------------------
(***************************************************************************)
(* Alteration on a small instance; payloads, nonces and keys are only       *)
(* compared.                                                                *)
(***************************************************************************)
EXTENDS Alteration, TLC

Symmetry == Permutations(Data) \cup Permutations(Nonces) \cup Permutations(PrivateKeys)

=============================================================================
