-------------------------- MODULE MCUslpDispatcher --------------------------
(* Instances of UslpDispatcher for TLC. *)
EXTENDS UslpDispatcher, TLC

Symmetry == Permutations(Sdus)

=============================================================================
