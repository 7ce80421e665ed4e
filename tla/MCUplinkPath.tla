---------------------------- MODULE MCUplinkPath ----------------------------
(* Instances of UplinkPath for TLC. *)
EXTENDS UplinkPath, TLC

Symmetry == Permutations(Sdus)

=============================================================================
