------------------------------ MODULE MCRecovery ------------------------------
(***************************************************************************)
(* Instances of Recovery for TLC.                                          *)
(***************************************************************************)
EXTENDS Recovery

\* Names and values are only compared.
Symmetry == Permutations(Keys) \cup Permutations(Vals) \cup Permutations(Fields)

=============================================================================
