-------------------------- MODULE MCAntennaControl --------------------------
(* Instances of AntennaControl for TLC. *)
EXTENDS AntennaControl

AnglesDef  == {-5, 0, 3}
TargetsDef == {<<4, 1>>, <<-3, 3>>, <<-4, -3>>}
NorthDef   == <<2, 0>>
BottomDef  == -2

=============================================================================
