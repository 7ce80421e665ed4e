---------------------------- MODULE MCBusReceive ----------------------------
(* Instances of BusReceive for TLC. *)
EXTENDS BusReceive

=============================================================================
