------------------------------ MODULE MCBusLog ------------------------------
(* Instances of BusLog for TLC. *)
EXTENDS BusLog

=============================================================================
